-------------------------- MODULE DiscoveryProofs --------------------------
(***************************************************************************)
(* Proofs about Discovery, for any number of test processes and daemons,   *)
(* random and fixed ports, with every death the module has.                *)
(*                                                                         *)
(* Until one of the Races happens it is the lock that carries everything:  *)
(* who owns it, what an owner may take for granted about the runtime file, *)
(* and for how long after an owner's death nobody else becomes one.        *)
(***************************************************************************)
EXTENDS Discovery, FiniteSetTheorems, TLAPS

\* The lock file names its one living owner, and grows old only when that is dead.
LockInv ==
    "stolen" \notin races =>
        /\ \A c \in Clients : cpc[c] \in OwnerPCs => lock = c
        /\ aged => Abandoned

\* While a daemon boots its starter, dead or alive, keeps the lock, and there is no
\* runtime file; nor is there one when a starter gets to the start.
BootInv ==
    LockHeld =>
        /\ \A c \in Clients : cpc[c] = "spawn" => runtime = 0
        /\ \A d \in Daemons : dpc[d] \in BootPCs =>
               /\ runtime = 0 /\ lock \in Clients /\ ~aged
               /\ cpc[lock] \in {"booting", "crashed"}
        /\ \A d, e \in Daemons : dpc[d] \in BootPCs /\ dpc[e] \in BootPCs => d = e

\* From its second look on, an owner has the runtime file to itself, but for others
\* that remove it.
LookInv ==
    /\ \A c \in Clients : cpc[c] \in {"dial", "dial2", "recheck"} => info[c] # 0
    /\ LockHeld => \A c \in Clients :
           /\ cpc[c] = "recheck" => runtime \in {0, info[c]}
           /\ cpc[c] = "ownerPurge" /\ runtime # 0 => ~InService(runtime)

\* As long as no daemon has ended, the one that serves is the one in the file, and
\* all that have read the file reach it.
NoneEnded == \A d \in Daemons : dpc[d] \notin {"stopping", "closed", "gone"}
ServeInv ==
    LockHeld /\ NoneEnded =>
        /\ \A c \in Clients : info[c] # 0 => dpc[info[c]] = "serving"
        /\ \A c \in Clients : cpc[c] \notin {"purge", "purge2", "ownerPurge"}
        /\ runtime # 0 => dpc[runtime] = "serving"
        /\ \A d \in Daemons : dpc[d] = "serving" => runtime = d

\* As long as none of the races has happened, a daemon in service is the one that the
\* runtime file names, so there is one at most.
FileInv ==
    races = {} => \A d \in Daemons : InService(d) => runtime = d

-----------------------------------------------------------------------------
(* Type correctness.                                                       *)

LEMMA TypeStep == TypeOK /\ [Next]_vars => TypeOK'
<1> SUFFICES ASSUME TypeOK, [Next]_vars PROVE TypeOK'
    OBVIOUS
<1> USE DiscoveryAssumption
        DEF TypeOK, ClientPCs, OwnerPCs, DaemonPCs, BootPCs, Daemons, lockVars,
            daemonVars, To, Forget, DaemonTo, Purge, Unlock
<1>1. ASSUME NEW c \in Clients, Look(c) PROVE TypeOK'
    BY <1>1 DEF Look, ReadRuntime
<1>2. ASSUME NEW c \in Clients, Dial(c) PROVE TypeOK'
    BY <1>2 DEF Dial
<1>3. ASSUME NEW c \in Clients, PurgeStale(c) PROVE TypeOK'
    BY <1>3 DEF PurgeStale, Note, Races
<1>4. ASSUME NEW c \in Clients, PurgeAgain(c) PROVE TypeOK'
    BY <1>4 DEF PurgeAgain, NextAttempt, Note, Races
<1>5. ASSUME NEW c \in Clients, AfterStart(c) PROVE TypeOK'
    BY <1>5 DEF AfterStart, ReadRuntime
<1>6. ASSUME NEW c \in Clients, AfterTimeout(c) PROVE TypeOK'
    BY <1>6 DEF AfterTimeout, NextAttempt
<1>7. ASSUME NEW c \in Clients, StartFailed(c) PROVE TypeOK'
    <2>1. attempt' \in [Clients -> 1 .. 2]
        BY <1>7 DEF StartFailed, NextAttempt
    <2>2. cpc' \in [Clients -> ClientPCs]
        BY <1>7 DEF StartFailed, NextAttempt
    <2>3. UNCHANGED <<runtime, lockVars, info, daemonVars>>
        BY <1>7 DEF StartFailed
    <2> QED
        BY <2>1, <2>2, <2>3
<1>8. ASSUME NEW c \in Clients, TryLock(c) PROVE TypeOK'
    BY <1>8 DEF TryLock
<1>9. ASSUME NEW c \in Clients, OwnerLook(c) PROVE TypeOK'
    BY <1>9 DEF OwnerLook, ReadRuntime
<1>10. ASSUME NEW c \in Clients, Recheck(c) PROVE TypeOK'
    <2>1. info' \in [Clients -> 0 .. MaxDaemons]
        BY <1>10 DEF Recheck
    <2>2. CASE Up(info[c])
        BY <1>10, <2>1, <2>2 DEF Recheck
    <2>3. CASE ~Up(info[c])
        BY <1>10, <2>1, <2>3 DEF Recheck
    <2> QED
        BY <2>2, <2>3
<1>11. ASSUME NEW c \in Clients, OwnerPurge(c) PROVE TypeOK'
    BY <1>11 DEF OwnerPurge, Note, Races
<1>12. ASSUME NEW c \in Clients, Spawn(c) PROVE TypeOK'
    BY <1>12 DEF Spawn, Born
<1>13. ASSUME NEW c \in Clients, SpawnFails(c) PROVE TypeOK'
    BY <1>13 DEF SpawnFails
<1>14. ASSUME NEW c \in Clients, Booted(c) PROVE TypeOK'
    BY <1>14 DEF Booted
<1>15. ASSUME NEW c \in Clients, BootTimeout(c) PROVE TypeOK'
    BY <1>15 DEF BootTimeout, Note, Races
<1>16. ASSUME NEW c \in Clients, WaitRuntime(c) PROVE TypeOK'
    BY <1>16 DEF WaitRuntime
<1>17. ASSUME NEW c \in Clients, WaitTimeout(c) PROVE TypeOK'
    BY <1>17 DEF WaitTimeout
<1>18. ASSUME NEW c \in Clients, Steal(c) PROVE TypeOK'
    BY <1>18 DEF Steal, Note, Races
<1>19. ASSUME NEW c \in Clients, GiveUp(c) PROVE TypeOK'
    BY <1>19 DEF GiveUp
<1>20. ASSUME NEW c \in Clients, CrashOwner(c) PROVE TypeOK'
    BY <1>20 DEF CrashOwner
<1>21. ASSUME NEW c \in Clients, Acquire(c) PROVE TypeOK'
    BY <1>21 DEF Acquire
<1>22. ASSUME NEW c \in Clients, AcquireFails(c) PROVE TypeOK'
    BY <1>22 DEF AcquireFails
<1>23. ASSUME NEW c \in Clients, Finish(c) PROVE TypeOK'
    BY <1>23 DEF Finish
<1>24. ASSUME NEW d \in Daemons, ListOrphans(d) PROVE TypeOK'
    BY <1>24 DEF ListOrphans
<1>25. ASSUME NEW d \in Daemons, RemoveOrphans(d) PROVE TypeOK'
    BY <1>25 DEF RemoveOrphans
<1>26. ASSUME NEW d \in Daemons, Listen(d) PROVE TypeOK'
    BY <1>26 DEF Listen
<1>27. ASSUME NEW d \in Daemons, WriteRuntime(d) PROVE TypeOK'
    BY <1>27 DEF WriteRuntime
<1>28. ASSUME NEW d \in Daemons, BootFails(d) PROVE TypeOK'
    BY <1>28 DEF BootFails
<1>29. ASSUME NEW d \in Daemons, IdleExit(d) PROVE TypeOK'
    BY <1>29 DEF IdleExit
<1>30. ASSUME NEW d \in Daemons, CloseListener(d) PROVE TypeOK'
    BY <1>30 DEF CloseListener
<1>31. ASSUME NEW d \in Daemons, RemoveRuntime(d) PROVE TypeOK'
    BY <1>31 DEF RemoveRuntime, Note, Races
<1>32. ASSUME NEW d \in Daemons, Die(d) PROVE TypeOK'
    BY <1>32 DEF Die
<1>33. CASE Age
    BY <1>33 DEF Age, Note, Races
<1>34. CASE UNCHANGED vars
    BY <1>34 DEF vars
<1>35. ASSUME NEW c \in Clients, LockFails(c) PROVE TypeOK'
    BY <1>35 DEF LockFails
<1> QED
    BY <1>1, <1>2, <1>3, <1>4, <1>5, <1>6, <1>7, <1>8, <1>9, <1>10,
       <1>11, <1>12, <1>13, <1>14, <1>15, <1>16, <1>17, <1>18, <1>19,
       <1>20, <1>21, <1>22, <1>23, <1>24, <1>25, <1>26, <1>27, <1>28,
       <1>29, <1>30, <1>31, <1>32, <1>33, <1>34, <1>35
       DEF Next, Connect, Boot

\* Every variable keeps its range.
THEOREM TypeCorrect == Spec => []TypeOK
<1>1. Init => TypeOK
    <2> SUFFICES ASSUME Init PROVE TypeOK
        OBVIOUS
    <2> USE DiscoveryAssumption DEF Init, Daemons
    <2>1. cpc \in [Clients -> ClientPCs]
        BY DEF ClientPCs
    <2>2. dpc \in [Daemons -> DaemonPCs]
        BY DEF DaemonPCs
    <2>3. /\ runtime \in 0 .. MaxDaemons /\ docker \in 0 .. MaxDaemons
          /\ addr \in Ports
        OBVIOUS
    <2>4. lock \in Clients \union {Earlier, Nobody}
        OBVIOUS
    <2>5. aged \in BOOLEAN /\ races \subseteq Races
        OBVIOUS
    <2>6. /\ info \in [Clients -> 0 .. MaxDaemons] /\ attempt \in [Clients -> 1 .. 2]
          /\ listed \in [Daemons -> 0 .. MaxDaemons]
        OBVIOUS
    <2> QED
        BY <2>1, <2>2, <2>3, <2>4, <2>5, <2>6 DEF TypeOK
<1> QED
    BY <1>1, TypeStep, PTL DEF Spec

-----------------------------------------------------------------------------
(* The lock.                                                               *)

LEMMA LockStep == TypeOK /\ LockInv /\ [Next]_vars => LockInv'
<1> SUFFICES ASSUME TypeOK, LockInv, [Next]_vars PROVE LockInv'
    OBVIOUS
<1> USE DiscoveryAssumption
        DEF TypeOK, LockInv, Abandoned, OwnerPCs, lockVars, daemonVars, To, Forget,
            Unlock, Note, Purge
<1>1. ASSUME NEW c \in Clients, Look(c) PROVE LockInv'
    BY <1>1 DEF Look, ReadRuntime
<1>2. ASSUME NEW c \in Clients, Dial(c) PROVE LockInv'
    BY <1>2 DEF Dial
<1>3. ASSUME NEW c \in Clients, PurgeStale(c) PROVE LockInv'
    BY <1>3 DEF PurgeStale
<1>4. ASSUME NEW c \in Clients, PurgeAgain(c) PROVE LockInv'
    BY <1>4 DEF PurgeAgain, NextAttempt
<1>5. ASSUME NEW c \in Clients, AfterStart(c) PROVE LockInv'
    BY <1>5 DEF AfterStart, ReadRuntime
<1>6. ASSUME NEW c \in Clients, AfterTimeout(c) PROVE LockInv'
    BY <1>6 DEF AfterTimeout, NextAttempt
<1>7. ASSUME NEW c \in Clients, StartFailed(c) PROVE LockInv'
    BY <1>7 DEF StartFailed, NextAttempt
<1>8. ASSUME NEW c \in Clients, TryLock(c) PROVE LockInv'
    BY <1>8 DEF TryLock
<1>9. ASSUME NEW c \in Clients, OwnerLook(c) PROVE LockInv'
    BY <1>9 DEF OwnerLook, ReadRuntime
<1>10. ASSUME NEW c \in Clients, Recheck(c) PROVE LockInv'
    BY <1>10 DEF Recheck
<1>11. ASSUME NEW c \in Clients, OwnerPurge(c) PROVE LockInv'
    BY <1>11 DEF OwnerPurge
<1>12. ASSUME NEW c \in Clients, Spawn(c) PROVE LockInv'
    BY <1>12 DEF Spawn, Born
<1>13. ASSUME NEW c \in Clients, SpawnFails(c) PROVE LockInv'
    BY <1>13 DEF SpawnFails
<1>14. ASSUME NEW c \in Clients, Booted(c) PROVE LockInv'
    BY <1>14 DEF Booted
<1>15. ASSUME NEW c \in Clients, BootTimeout(c) PROVE LockInv'
    BY <1>15 DEF BootTimeout
<1>16. ASSUME NEW c \in Clients, WaitRuntime(c) PROVE LockInv'
    BY <1>16 DEF WaitRuntime
<1>17. ASSUME NEW c \in Clients, WaitTimeout(c) PROVE LockInv'
    BY <1>17 DEF WaitTimeout
<1>18. ASSUME NEW c \in Clients, Steal(c) PROVE LockInv'
    BY <1>18 DEF Steal
<1>19. ASSUME NEW c \in Clients, GiveUp(c) PROVE LockInv'
    BY <1>19 DEF GiveUp
<1>20. ASSUME NEW c \in Clients, CrashOwner(c) PROVE LockInv'
    BY <1>20 DEF CrashOwner
<1>21. ASSUME NEW c \in Clients, Acquire(c) PROVE LockInv'
    BY <1>21 DEF Acquire
<1>22. ASSUME NEW c \in Clients, AcquireFails(c) PROVE LockInv'
    BY <1>22 DEF AcquireFails
<1>23. ASSUME NEW c \in Clients, Finish(c) PROVE LockInv'
    BY <1>23 DEF Finish
<1>24. ASSUME NEW d \in Daemons, ListOrphans(d) PROVE LockInv'
    BY <1>24 DEF ListOrphans
<1>25. ASSUME NEW d \in Daemons, RemoveOrphans(d) PROVE LockInv'
    BY <1>25 DEF RemoveOrphans
<1>26. ASSUME NEW d \in Daemons, Listen(d) PROVE LockInv'
    BY <1>26 DEF Listen
<1>27. ASSUME NEW d \in Daemons, WriteRuntime(d) PROVE LockInv'
    BY <1>27 DEF WriteRuntime
<1>28. ASSUME NEW d \in Daemons, BootFails(d) PROVE LockInv'
    BY <1>28 DEF BootFails
<1>29. ASSUME NEW d \in Daemons, IdleExit(d) PROVE LockInv'
    BY <1>29 DEF IdleExit
<1>30. ASSUME NEW d \in Daemons, CloseListener(d) PROVE LockInv'
    BY <1>30 DEF CloseListener
<1>31. ASSUME NEW d \in Daemons, RemoveRuntime(d) PROVE LockInv'
    BY <1>31 DEF RemoveRuntime
<1>32. ASSUME NEW d \in Daemons, Die(d) PROVE LockInv'
    BY <1>32 DEF Die
<1>33. CASE Age
    BY <1>33 DEF Age
<1>34. CASE UNCHANGED vars
    BY <1>34 DEF vars
<1>35. ASSUME NEW c \in Clients, LockFails(c) PROVE LockInv'
    BY <1>35 DEF LockFails
<1> QED
    BY <1>1, <1>2, <1>3, <1>4, <1>5, <1>6, <1>7, <1>8, <1>9, <1>10,
       <1>11, <1>12, <1>13, <1>14, <1>15, <1>16, <1>17, <1>18, <1>19,
       <1>20, <1>21, <1>22, <1>23, <1>24, <1>25, <1>26, <1>27, <1>28,
       <1>29, <1>30, <1>31, <1>32, <1>33, <1>34, <1>35
       DEF Next, Connect, Boot

LEMMA LockInvariant == Spec => [](TypeOK /\ LockInv)
<1>1. Init => LockInv
    BY DEF Init, LockInv, OwnerPCs
<1> QED
    BY <1>1, TypeCorrect, LockStep, PTL DEF Spec

\* A set in which all elements are equal has at most one.
LEMMA AtMostOne ==
    ASSUME NEW S, \A x, y \in S : x = y
    PROVE  Cardinality(S) <= 1
<1>1. CASE S = {}
    BY <1>1, FS_EmptySet
<1>2. CASE S # {}
    <2> PICK x \in S : TRUE
        BY <1>2
    <2>1. S = {x}
        OBVIOUS
    <2> QED
        BY <2>1, FS_Singleton
<1> QED
    BY <1>1, <1>2

\* Whoever dies and whatever daemons do, only the race for a stale lock gives the
\* start lock two living owners.
THEOREM OneOwnerAlways == Spec => []OneOwner
<1>1. LockInv => OneOwner
    <2> SUFFICES ASSUME LockInv, "stolen" \notin races PROVE Cardinality(Owners) <= 1
        BY DEF OneOwner
    <2>1. \A c, e \in Owners : c = e
        BY DEF LockInv, Owners
    <2> QED
        BY <2>1, AtMostOne
<1> QED
    BY <1>1, LockInvariant, PTL

-----------------------------------------------------------------------------
(* One boot after the other, until a lock is stolen or a boot is overdue.  *)

LEMMA BootStep ==
    TypeOK /\ LockInv /\ BootInv /\ LookInv /\ [Next]_vars => BootInv'
<1> SUFFICES ASSUME TypeOK, LockInv, BootInv, LookInv, [Next]_vars PROVE BootInv'
    OBVIOUS
<1> USE DiscoveryAssumption
        DEF TypeOK, LockInv, BootInv, LookInv, Abandoned, OwnerPCs, BootPCs, lockVars,
            daemonVars, To, Forget, DaemonTo, Unlock, Purge, Booting, Note, LockHeld
<1>1. ASSUME NEW c \in Clients, Look(c) PROVE BootInv'
    BY <1>1 DEF Look, ReadRuntime
<1>2. ASSUME NEW c \in Clients, Dial(c) PROVE BootInv'
    BY <1>2 DEF Dial
<1>3. ASSUME NEW c \in Clients, PurgeStale(c) PROVE BootInv'
    BY <1>3 DEF PurgeStale
<1>4. ASSUME NEW c \in Clients, PurgeAgain(c) PROVE BootInv'
    BY <1>4 DEF PurgeAgain, NextAttempt
<1>5. ASSUME NEW c \in Clients, AfterStart(c) PROVE BootInv'
    BY <1>5 DEF AfterStart, ReadRuntime
<1>6. ASSUME NEW c \in Clients, AfterTimeout(c) PROVE BootInv'
    BY <1>6 DEF AfterTimeout, NextAttempt
<1>7. ASSUME NEW c \in Clients, StartFailed(c) PROVE BootInv'
    BY <1>7 DEF StartFailed, NextAttempt
<1>8. ASSUME NEW c \in Clients, TryLock(c) PROVE BootInv'
    BY <1>8 DEF TryLock
<1>9. ASSUME NEW c \in Clients, OwnerLook(c) PROVE BootInv'
    BY <1>9 DEF OwnerLook, ReadRuntime
<1>10. ASSUME NEW c \in Clients, Recheck(c) PROVE BootInv'
    BY <1>10 DEF Recheck
<1>11. ASSUME NEW c \in Clients, OwnerPurge(c) PROVE BootInv'
    BY <1>11 DEF OwnerPurge
<1>12. ASSUME NEW c \in Clients, Spawn(c) PROVE BootInv'
    BY <1>12 DEF Spawn, Born
<1>13. ASSUME NEW c \in Clients, SpawnFails(c) PROVE BootInv'
    BY <1>13 DEF SpawnFails
<1>14. ASSUME NEW c \in Clients, Booted(c) PROVE BootInv'
    BY <1>14 DEF Booted
<1>15. ASSUME NEW c \in Clients, BootTimeout(c) PROVE BootInv'
    BY <1>15 DEF BootTimeout
<1>16. ASSUME NEW c \in Clients, WaitRuntime(c) PROVE BootInv'
    BY <1>16 DEF WaitRuntime
<1>17. ASSUME NEW c \in Clients, WaitTimeout(c) PROVE BootInv'
    BY <1>17 DEF WaitTimeout
<1>18. ASSUME NEW c \in Clients, Steal(c) PROVE BootInv'
    BY <1>18 DEF Steal
<1>19. ASSUME NEW c \in Clients, GiveUp(c) PROVE BootInv'
    BY <1>19 DEF GiveUp
<1>20. ASSUME NEW c \in Clients, CrashOwner(c) PROVE BootInv'
    BY <1>20 DEF CrashOwner
<1>21. ASSUME NEW c \in Clients, Acquire(c) PROVE BootInv'
    BY <1>21 DEF Acquire
<1>22. ASSUME NEW c \in Clients, AcquireFails(c) PROVE BootInv'
    BY <1>22 DEF AcquireFails
<1>23. ASSUME NEW c \in Clients, Finish(c) PROVE BootInv'
    BY <1>23 DEF Finish
<1>24. ASSUME NEW d \in Daemons, ListOrphans(d) PROVE BootInv'
    BY <1>24 DEF ListOrphans
<1>25. ASSUME NEW d \in Daemons, RemoveOrphans(d) PROVE BootInv'
    BY <1>25 DEF RemoveOrphans
<1>26. ASSUME NEW d \in Daemons, Listen(d) PROVE BootInv'
    BY <1>26 DEF Listen
<1>27. ASSUME NEW d \in Daemons, WriteRuntime(d) PROVE BootInv'
    BY <1>27 DEF WriteRuntime
<1>28. ASSUME NEW d \in Daemons, BootFails(d) PROVE BootInv'
    BY <1>28 DEF BootFails
<1>29. ASSUME NEW d \in Daemons, IdleExit(d) PROVE BootInv'
    BY <1>29 DEF IdleExit
<1>30. ASSUME NEW d \in Daemons, CloseListener(d) PROVE BootInv'
    BY <1>30 DEF CloseListener
<1>31. ASSUME NEW d \in Daemons, RemoveRuntime(d) PROVE BootInv'
    BY <1>31 DEF RemoveRuntime
<1>32. ASSUME NEW d \in Daemons, Die(d) PROVE BootInv'
    BY <1>32 DEF Die
<1>33. CASE Age
    BY <1>33 DEF Age
<1>34. CASE UNCHANGED vars
    BY <1>34 DEF vars
<1>35. ASSUME NEW c \in Clients, LockFails(c) PROVE BootInv'
    BY <1>35 DEF LockFails
<1> QED
    BY <1>1, <1>2, <1>3, <1>4, <1>5, <1>6, <1>7, <1>8, <1>9, <1>10,
       <1>11, <1>12, <1>13, <1>14, <1>15, <1>16, <1>17, <1>18, <1>19,
       <1>20, <1>21, <1>22, <1>23, <1>24, <1>25, <1>26, <1>27, <1>28,
       <1>29, <1>30, <1>31, <1>32, <1>33, <1>34, <1>35
       DEF Next, Connect, Boot

LEMMA LookStep ==
    TypeOK /\ LockInv /\ BootInv /\ LookInv /\ [Next]_vars => LookInv'
<1> SUFFICES ASSUME TypeOK, LockInv, BootInv, LookInv, [Next]_vars PROVE LookInv'
    OBVIOUS
<1> USE DiscoveryAssumption
        DEF TypeOK, LockInv, BootInv, LookInv, OwnerPCs, BootPCs, Daemons, lockVars,
            daemonVars, To, Forget, DaemonTo, Unlock, Purge, Note, LockHeld, InService
<1>1. ASSUME NEW c \in Clients, Look(c) PROVE LookInv'
    BY <1>1 DEF Look, ReadRuntime
<1>2. ASSUME NEW c \in Clients, Dial(c) PROVE LookInv'
    BY <1>2 DEF Dial
<1>3. ASSUME NEW c \in Clients, PurgeStale(c) PROVE LookInv'
    BY <1>3 DEF PurgeStale
<1>4. ASSUME NEW c \in Clients, PurgeAgain(c) PROVE LookInv'
    BY <1>4 DEF PurgeAgain, NextAttempt
<1>5. ASSUME NEW c \in Clients, AfterStart(c) PROVE LookInv'
    BY <1>5 DEF AfterStart, ReadRuntime
<1>6. ASSUME NEW c \in Clients, AfterTimeout(c) PROVE LookInv'
    BY <1>6 DEF AfterTimeout, NextAttempt
<1>7. ASSUME NEW c \in Clients, StartFailed(c) PROVE LookInv'
    BY <1>7 DEF StartFailed, NextAttempt
<1>8. ASSUME NEW c \in Clients, TryLock(c) PROVE LookInv'
    BY <1>8 DEF TryLock
<1>9. ASSUME NEW c \in Clients, OwnerLook(c) PROVE LookInv'
    <2>1. CASE runtime = 0
        BY <1>9, <2>1 DEF OwnerLook, ReadRuntime
    <2>2. CASE runtime # 0
        BY <1>9, <2>2 DEF OwnerLook, ReadRuntime
    <2> QED
        BY <2>1, <2>2
<1>10. ASSUME NEW c \in Clients, Recheck(c) PROVE LookInv'
    <2>1. UNCHANGED <<races, runtime, dpc>> /\ info' = [info EXCEPT ![c] = 0]
        BY <1>10 DEF Recheck
    <2>2. CASE Up(info[c])
        <3>1. cpc' = [cpc EXCEPT ![c] = "after"]
            BY <1>10, <2>2 DEF Recheck
        <3> QED
            BY <2>1, <3>1
    <2>3. CASE ~Up(info[c])
        <3>1. cpc' = [cpc EXCEPT ![c] = "ownerPurge"]
            BY <1>10, <2>3 DEF Recheck
        <3>2. cpc[c] = "recheck" /\ info[c] \in Daemons
            BY <1>10 DEF Recheck
        <3>3. ~InService(info[c])
            BY <2>3, <3>2 DEF Up, Listening
        <3> QED
            BY <2>1, <3>1, <3>2, <3>3
    <2> QED
        BY <2>2, <2>3
<1>11. ASSUME NEW c \in Clients, OwnerPurge(c) PROVE LookInv'
    BY <1>11 DEF OwnerPurge
<1>12. ASSUME NEW c \in Clients, Spawn(c) PROVE LookInv'
    BY <1>12 DEF Spawn, Born
<1>13. ASSUME NEW c \in Clients, SpawnFails(c) PROVE LookInv'
    BY <1>13 DEF SpawnFails
<1>14. ASSUME NEW c \in Clients, Booted(c) PROVE LookInv'
    BY <1>14 DEF Booted
<1>15. ASSUME NEW c \in Clients, BootTimeout(c) PROVE LookInv'
    BY <1>15 DEF BootTimeout
<1>16. ASSUME NEW c \in Clients, WaitRuntime(c) PROVE LookInv'
    BY <1>16 DEF WaitRuntime
<1>17. ASSUME NEW c \in Clients, WaitTimeout(c) PROVE LookInv'
    BY <1>17 DEF WaitTimeout
<1>18. ASSUME NEW c \in Clients, Steal(c) PROVE LookInv'
    BY <1>18 DEF Steal
<1>19. ASSUME NEW c \in Clients, GiveUp(c) PROVE LookInv'
    BY <1>19 DEF GiveUp
<1>20. ASSUME NEW c \in Clients, CrashOwner(c) PROVE LookInv'
    BY <1>20 DEF CrashOwner
<1>21. ASSUME NEW c \in Clients, Acquire(c) PROVE LookInv'
    BY <1>21 DEF Acquire
<1>22. ASSUME NEW c \in Clients, AcquireFails(c) PROVE LookInv'
    BY <1>22 DEF AcquireFails
<1>23. ASSUME NEW c \in Clients, Finish(c) PROVE LookInv'
    BY <1>23 DEF Finish
<1>24. ASSUME NEW d \in Daemons, ListOrphans(d) PROVE LookInv'
    BY <1>24 DEF ListOrphans
<1>25. ASSUME NEW d \in Daemons, RemoveOrphans(d) PROVE LookInv'
    BY <1>25 DEF RemoveOrphans
<1>26. ASSUME NEW d \in Daemons, Listen(d) PROVE LookInv'
    BY <1>26 DEF Listen
<1>27. ASSUME NEW d \in Daemons, WriteRuntime(d) PROVE LookInv'
    BY <1>27 DEF WriteRuntime
<1>28. ASSUME NEW d \in Daemons, BootFails(d) PROVE LookInv'
    BY <1>28 DEF BootFails
<1>29. ASSUME NEW d \in Daemons, IdleExit(d) PROVE LookInv'
    BY <1>29 DEF IdleExit
<1>30. ASSUME NEW d \in Daemons, CloseListener(d) PROVE LookInv'
    BY <1>30 DEF CloseListener
<1>31. ASSUME NEW d \in Daemons, RemoveRuntime(d) PROVE LookInv'
    BY <1>31 DEF RemoveRuntime
<1>32. ASSUME NEW d \in Daemons, Die(d) PROVE LookInv'
    BY <1>32 DEF Die
<1>33. CASE Age
    BY <1>33 DEF Age
<1>34. CASE UNCHANGED vars
    BY <1>34 DEF vars
<1>35. ASSUME NEW c \in Clients, LockFails(c) PROVE LookInv'
    BY <1>35 DEF LockFails
<1> QED
    BY <1>1, <1>2, <1>3, <1>4, <1>5, <1>6, <1>7, <1>8, <1>9, <1>10,
       <1>11, <1>12, <1>13, <1>14, <1>15, <1>16, <1>17, <1>18, <1>19,
       <1>20, <1>21, <1>22, <1>23, <1>24, <1>25, <1>26, <1>27, <1>28,
       <1>29, <1>30, <1>31, <1>32, <1>33, <1>34, <1>35
       DEF Next, Connect, Boot

LEMMA BootInvariant ==
    Spec => [](TypeOK /\ LockInv /\ BootInv /\ LookInv)
<1>1. Init => BootInv /\ LookInv
    BY DEF Init, BootInv, LookInv, BootPCs
<1> QED
    BY <1>1, LockInvariant, BootStep, LookStep, PTL DEF Spec

\* Until a boot outlives its lock, no two daemons clean up, or write the temporary
\* file, at once: also when their starters died.
THEOREM BootsOneByOneAlways ==
    Spec => []BootsOneByOne
<1>1. BootInv => BootsOneByOne
    <2> SUFFICES ASSUME BootInv, LockHeld
                 PROVE  Cardinality({d \in Daemons : dpc[d] \in BootPCs}) <= 1
        BY DEF BootsOneByOne
    <2>1. \A d, e \in {f \in Daemons : dpc[f] \in BootPCs} : d = e
        BY DEF BootInv
    <2> QED
        BY <2>1, AtMostOne
<1> QED
    BY <1>1, BootInvariant, PTL

\* The file that the owner of the lock removes is never that of a daemon in service.
THEOREM OwnerSparesHealthyAlways ==
    Spec => OwnerSparesHealthy
<1>1. LookInv => (LockHeld => \A c \in Clients :
          cpc[c] = "ownerPurge" /\ cpc'[c] = "spawn" /\ runtime # 0
              => ~InService(runtime))
    BY DEF LookInv
<1> QED
    BY <1>1, BootInvariant, PTL DEF OwnerSparesHealthy

-----------------------------------------------------------------------------
(* One daemon.                                                             *)

LEMMA ServeStep ==
    TypeOK /\ LockInv /\ BootInv /\ LookInv /\ ServeInv /\ [Next]_vars => ServeInv'
<1> SUFFICES ASSUME TypeOK, LockInv, BootInv, LookInv, ServeInv, [Next]_vars
             PROVE  ServeInv'
    OBVIOUS
<1> USE DiscoveryAssumption
        DEF TypeOK, BootInv, LookInv, ServeInv, NoneEnded, BootPCs, Daemons, lockVars,
            daemonVars, To, Forget, DaemonTo, Unlock, Purge, Note, LockHeld, InService
<1>1. ASSUME NEW c \in Clients, Look(c) PROVE ServeInv'
    BY <1>1 DEF Look, ReadRuntime
<1>2. ASSUME NEW c \in Clients, Dial(c) PROVE ServeInv'
    BY <1>2 DEF Dial, Up, Listening
<1>3. ASSUME NEW c \in Clients, PurgeStale(c) PROVE ServeInv'
    BY <1>3 DEF PurgeStale
<1>4. ASSUME NEW c \in Clients, PurgeAgain(c) PROVE ServeInv'
    BY <1>4 DEF PurgeAgain, NextAttempt
<1>5. ASSUME NEW c \in Clients, AfterStart(c) PROVE ServeInv'
    BY <1>5 DEF AfterStart, ReadRuntime
<1>6. ASSUME NEW c \in Clients, AfterTimeout(c) PROVE ServeInv'
    BY <1>6 DEF AfterTimeout, NextAttempt
<1>7. ASSUME NEW c \in Clients, StartFailed(c) PROVE ServeInv'
    BY <1>7 DEF StartFailed, NextAttempt
<1>8. ASSUME NEW c \in Clients, TryLock(c) PROVE ServeInv'
    BY <1>8 DEF TryLock
<1>9. ASSUME NEW c \in Clients, OwnerLook(c) PROVE ServeInv'
    BY <1>9 DEF OwnerLook, ReadRuntime
<1>10. ASSUME NEW c \in Clients, Recheck(c) PROVE ServeInv'
    BY <1>10 DEF Recheck, Up, Listening
<1>11. ASSUME NEW c \in Clients, OwnerPurge(c) PROVE ServeInv'
    BY <1>11 DEF OwnerPurge
<1>12. ASSUME NEW c \in Clients, Spawn(c) PROVE ServeInv'
    BY <1>12 DEF Spawn, Born
<1>13. ASSUME NEW c \in Clients, SpawnFails(c) PROVE ServeInv'
    BY <1>13 DEF SpawnFails
<1>14. ASSUME NEW c \in Clients, Booted(c) PROVE ServeInv'
    BY <1>14 DEF Booted
<1>15. ASSUME NEW c \in Clients, BootTimeout(c) PROVE ServeInv'
    BY <1>15 DEF BootTimeout
<1>16. ASSUME NEW c \in Clients, WaitRuntime(c) PROVE ServeInv'
    BY <1>16 DEF WaitRuntime
<1>17. ASSUME NEW c \in Clients, WaitTimeout(c) PROVE ServeInv'
    BY <1>17 DEF WaitTimeout
<1>18. ASSUME NEW c \in Clients, Steal(c) PROVE ServeInv'
    BY <1>18 DEF Steal
<1>19. ASSUME NEW c \in Clients, GiveUp(c) PROVE ServeInv'
    BY <1>19 DEF GiveUp
<1>20. ASSUME NEW c \in Clients, CrashOwner(c) PROVE ServeInv'
    BY <1>20 DEF CrashOwner
<1>21. ASSUME NEW c \in Clients, Acquire(c) PROVE ServeInv'
    BY <1>21 DEF Acquire
<1>22. ASSUME NEW c \in Clients, AcquireFails(c) PROVE ServeInv'
    BY <1>22 DEF AcquireFails
<1>23. ASSUME NEW c \in Clients, Finish(c) PROVE ServeInv'
    BY <1>23 DEF Finish
<1>24. ASSUME NEW d \in Daemons, ListOrphans(d) PROVE ServeInv'
    BY <1>24 DEF ListOrphans
<1>25. ASSUME NEW d \in Daemons, RemoveOrphans(d) PROVE ServeInv'
    BY <1>25 DEF RemoveOrphans
<1>26. ASSUME NEW d \in Daemons, Listen(d) PROVE ServeInv'
    BY <1>26 DEF Listen
<1>27. ASSUME NEW d \in Daemons, WriteRuntime(d) PROVE ServeInv'
    BY <1>27 DEF WriteRuntime
<1>28. ASSUME NEW d \in Daemons, BootFails(d) PROVE ServeInv'
    BY <1>28 DEF BootFails
<1>29. ASSUME NEW d \in Daemons, IdleExit(d) PROVE ServeInv'
    BY <1>29 DEF IdleExit
<1>30. ASSUME NEW d \in Daemons, CloseListener(d) PROVE ServeInv'
    BY <1>30 DEF CloseListener
<1>31. ASSUME NEW d \in Daemons, RemoveRuntime(d) PROVE ServeInv'
    BY <1>31 DEF RemoveRuntime
<1>32. ASSUME NEW d \in Daemons, Die(d) PROVE ServeInv'
    BY <1>32 DEF Die
<1>33. CASE Age
    BY <1>33 DEF Age
<1>34. CASE UNCHANGED vars
    BY <1>34 DEF vars
<1>35. ASSUME NEW c \in Clients, LockFails(c) PROVE ServeInv'
    BY <1>35 DEF LockFails
<1> QED
    BY <1>1, <1>2, <1>3, <1>4, <1>5, <1>6, <1>7, <1>8, <1>9, <1>10,
       <1>11, <1>12, <1>13, <1>14, <1>15, <1>16, <1>17, <1>18, <1>19,
       <1>20, <1>21, <1>22, <1>23, <1>24, <1>25, <1>26, <1>27, <1>28,
       <1>29, <1>30, <1>31, <1>32, <1>33, <1>34, <1>35
       DEF Next, Connect, Boot

\* Started on a clean machine, and until a daemon has ended, all test processes come
\* to the one daemon that was ever started.
THEOREM OneDaemonAlways ==
    Spec => []OneDaemon
<1>1. Init => ServeInv
    BY DiscoveryAssumption DEF Init, ServeInv, NoneEnded, Daemons
<1>2. TypeOK /\ BootInv /\ ServeInv => OneDaemon
    <2> SUFFICES ASSUME TypeOK, BootInv, ServeInv, LockHeld, NoneEnded
                 PROVE  Cardinality({d \in Daemons : dpc[d] # "unborn"}) <= 1
        BY DEF OneDaemon, NoneEnded
    <2>1. \A d \in Daemons : dpc[d] # "unborn" => dpc[d] \in BootPCs \/ dpc[d] = "serving"
        BY DEF TypeOK, DaemonPCs, NoneEnded
    <2>2. \A d, e \in {f \in Daemons : dpc[f] # "unborn"} : d = e
        BY <2>1 DEF BootInv, ServeInv, Daemons
    <2> QED
        BY <2>2, AtMostOne
<1> QED
    BY <1>1, <1>2, BootInvariant, ServeStep, PTL DEF Spec

-----------------------------------------------------------------------------
(* The containers.                                                         *)

LEMMA FileStep ==
    TypeOK /\ BootInv /\ FileInv /\ [Next]_vars => FileInv'
<1> SUFFICES ASSUME TypeOK, BootInv, FileInv, [Next]_vars PROVE FileInv'
    OBVIOUS
<1> USE DiscoveryAssumption
        DEF TypeOK, FileInv, InService, lockVars, daemonVars, To, Forget, DaemonTo,
            Unlock, Note, Purge
<1>1. ASSUME NEW c \in Clients, Look(c) PROVE FileInv'
    BY <1>1 DEF Look, ReadRuntime
<1>2. ASSUME NEW c \in Clients, Dial(c) PROVE FileInv'
    BY <1>2 DEF Dial
<1>3. ASSUME NEW c \in Clients, PurgeStale(c) PROVE FileInv'
    BY <1>3 DEF PurgeStale
<1>4. ASSUME NEW c \in Clients, PurgeAgain(c) PROVE FileInv'
    BY <1>4 DEF PurgeAgain, NextAttempt
<1>5. ASSUME NEW c \in Clients, AfterStart(c) PROVE FileInv'
    BY <1>5 DEF AfterStart, ReadRuntime
<1>6. ASSUME NEW c \in Clients, AfterTimeout(c) PROVE FileInv'
    BY <1>6 DEF AfterTimeout, NextAttempt
<1>7. ASSUME NEW c \in Clients, StartFailed(c) PROVE FileInv'
    BY <1>7 DEF StartFailed, NextAttempt
<1>8. ASSUME NEW c \in Clients, TryLock(c) PROVE FileInv'
    BY <1>8 DEF TryLock
<1>9. ASSUME NEW c \in Clients, OwnerLook(c) PROVE FileInv'
    BY <1>9 DEF OwnerLook, ReadRuntime
<1>10. ASSUME NEW c \in Clients, Recheck(c) PROVE FileInv'
    BY <1>10 DEF Recheck
<1>11. ASSUME NEW c \in Clients, OwnerPurge(c) PROVE FileInv'
    BY <1>11 DEF OwnerPurge
<1>12. ASSUME NEW c \in Clients, Spawn(c) PROVE FileInv'
    BY <1>12 DEF Spawn, Born
<1>13. ASSUME NEW c \in Clients, SpawnFails(c) PROVE FileInv'
    BY <1>13 DEF SpawnFails
<1>14. ASSUME NEW c \in Clients, Booted(c) PROVE FileInv'
    BY <1>14 DEF Booted
<1>15. ASSUME NEW c \in Clients, BootTimeout(c) PROVE FileInv'
    BY <1>15 DEF BootTimeout
<1>16. ASSUME NEW c \in Clients, WaitRuntime(c) PROVE FileInv'
    BY <1>16 DEF WaitRuntime
<1>17. ASSUME NEW c \in Clients, WaitTimeout(c) PROVE FileInv'
    BY <1>17 DEF WaitTimeout
<1>18. ASSUME NEW c \in Clients, Steal(c) PROVE FileInv'
    BY <1>18 DEF Steal
<1>19. ASSUME NEW c \in Clients, GiveUp(c) PROVE FileInv'
    BY <1>19 DEF GiveUp
<1>20. ASSUME NEW c \in Clients, CrashOwner(c) PROVE FileInv'
    BY <1>20 DEF CrashOwner
<1>21. ASSUME NEW c \in Clients, Acquire(c) PROVE FileInv'
    BY <1>21 DEF Acquire
<1>22. ASSUME NEW c \in Clients, AcquireFails(c) PROVE FileInv'
    BY <1>22 DEF AcquireFails
<1>23. ASSUME NEW c \in Clients, Finish(c) PROVE FileInv'
    BY <1>23 DEF Finish
<1>24. ASSUME NEW d \in Daemons, ListOrphans(d) PROVE FileInv'
    BY <1>24 DEF ListOrphans
<1>25. ASSUME NEW d \in Daemons, RemoveOrphans(d) PROVE FileInv'
    BY <1>25 DEF RemoveOrphans
<1>26. ASSUME NEW d \in Daemons, Listen(d) PROVE FileInv'
    BY <1>26 DEF Listen
<1>27. ASSUME NEW d \in Daemons, WriteRuntime(d) PROVE FileInv'
    <2> SUFFICES ASSUME races = {}, NEW e \in Daemons, InService(e)' PROVE runtime' = e
        BY <1>27 DEF WriteRuntime
    <2>1. runtime = 0 /\ runtime' = d
        BY <1>27 DEF WriteRuntime, BootInv, BootPCs, LockHeld
    <2>2. ~InService(e)
        BY <2>1 DEF Daemons
    <2> QED
        BY <1>27, <2>1, <2>2 DEF WriteRuntime
<1>28. ASSUME NEW d \in Daemons, BootFails(d) PROVE FileInv'
    BY <1>28 DEF BootFails
<1>29. ASSUME NEW d \in Daemons, IdleExit(d) PROVE FileInv'
    BY <1>29 DEF IdleExit
<1>30. ASSUME NEW d \in Daemons, CloseListener(d) PROVE FileInv'
    BY <1>30 DEF CloseListener
<1>31. ASSUME NEW d \in Daemons, RemoveRuntime(d) PROVE FileInv'
    BY <1>31 DEF RemoveRuntime
<1>32. ASSUME NEW d \in Daemons, Die(d) PROVE FileInv'
    BY <1>32 DEF Die
<1>33. CASE Age
    BY <1>33 DEF Age
<1>34. CASE UNCHANGED vars
    BY <1>34 DEF vars
<1>35. ASSUME NEW c \in Clients, LockFails(c) PROVE FileInv'
    BY <1>35 DEF LockFails
<1> QED
    BY <1>1, <1>2, <1>3, <1>4, <1>5, <1>6, <1>7, <1>8, <1>9, <1>10,
       <1>11, <1>12, <1>13, <1>14, <1>15, <1>16, <1>17, <1>18, <1>19,
       <1>20, <1>21, <1>22, <1>23, <1>24, <1>25, <1>26, <1>27, <1>28,
       <1>29, <1>30, <1>31, <1>32, <1>33, <1>34, <1>35
       DEF Next, Connect, Boot

\* With no race, and while a daemon boots, nobody listens but that one.
LEMMA BootsAlone ==
    ASSUME TypeOK, BootInv, FileInv, races = {},
           NEW d \in Daemons, dpc[d] \in BootPCs, dpc[d] # "write"
    PROVE  Listening = {}
<1>1. runtime = 0
    BY DEF BootInv, LockHeld
<1>2. \A e \in Daemons : ~InService(e)
    BY <1>1, DiscoveryAssumption DEF FileInv, Daemons
<1>3. \A e \in Daemons : dpc[e] # "write"
    BY DEF BootInv, LockHeld, BootPCs
<1> QED
    BY <1>2, <1>3 DEF Listening, InService

\* Nobody takes away the containers of a daemon in use unless a lock was stolen, a
\* boot was overdue or a runtime file was removed that named a daemon in service.
THEOREM SharedUnlessRacedAlways == Spec => SharedUnlessRaced
<1>1. Init => FileInv
    BY DEF Init, FileInv, InService
<1>2. TypeOK /\ BootInv /\ FileInv /\ [Next]_vars
          => [races = {} => \A c \in Clients : Keeps(c)]_vars
    <2> SUFFICES ASSUME TypeOK, BootInv, FileInv, [Next]_vars, races = {},
                        docker' # docker,
                        NEW c \in Clients, cpc[c] = "session",
                        docker = info[c], Up(info[c])
                 PROVE  FALSE
        BY DEF Keeps, vars
    <2>1. docker # 0 /\ Listening # {}
        BY DiscoveryAssumption DEF Up, Listening, Daemons
    <2>2. ASSUME NEW e \in Clients, Acquire(e) PROVE FALSE
        BY <2>1, <2>2 DEF Acquire
    <2>3. ASSUME NEW d \in Daemons, RemoveOrphans(d) PROVE FALSE
        <3>1. dpc[d] = "remove"
            BY <2>3 DEF RemoveOrphans
        <3> QED
            BY <2>1, <3>1, BootsAlone DEF BootPCs
    <2>4. ASSUME NEW d \in Daemons, IdleExit(d) PROVE FALSE
        BY <2>4 DEF IdleExit
    <2> QED
        BY <2>2, <2>3, <2>4 DEF Next, Connect, Boot, vars, daemonVars,
           Look, Dial, PurgeStale, PurgeAgain, AfterStart, AfterTimeout, StartFailed,
           TryLock, LockFails, OwnerLook, Recheck, OwnerPurge, Spawn, SpawnFails, Booted,
           BootTimeout, WaitRuntime, WaitTimeout, Steal, GiveUp, CrashOwner,
           AcquireFails, Finish, ListOrphans, Listen, WriteRuntime, BootFails,
           CloseListener, RemoveRuntime, Die, Age
<1> QED
    BY <1>1, <1>2, BootInvariant, FileStep, PTL DEF Spec, SharedUnlessRaced

-----------------------------------------------------------------------------
(* Why every process settles: the steps of AllSettle that need no fairness.       *)

LEMMA LockIsStep == TypeOK /\ LockIsSomebodys /\ [Next]_vars => LockIsSomebodys'
<1> SUFFICES ASSUME TypeOK, LockIsSomebodys, [Next]_vars PROVE LockIsSomebodys'
    OBVIOUS
<1> USE DiscoveryAssumption
        DEF TypeOK, LockIsSomebodys, Owners, Abandoned, OwnerPCs, lockVars, daemonVars, To,
            Forget, Unlock, Note, Purge
<1>1. ASSUME NEW c \in Clients, Look(c) PROVE LockIsSomebodys'
    BY <1>1 DEF Look, ReadRuntime
<1>2. ASSUME NEW c \in Clients, Dial(c) PROVE LockIsSomebodys'
    BY <1>2 DEF Dial
<1>3. ASSUME NEW c \in Clients, PurgeStale(c) PROVE LockIsSomebodys'
    BY <1>3 DEF PurgeStale
<1>4. ASSUME NEW c \in Clients, PurgeAgain(c) PROVE LockIsSomebodys'
    BY <1>4 DEF PurgeAgain, NextAttempt
<1>5. ASSUME NEW c \in Clients, AfterStart(c) PROVE LockIsSomebodys'
    BY <1>5 DEF AfterStart, ReadRuntime
<1>6. ASSUME NEW c \in Clients, AfterTimeout(c) PROVE LockIsSomebodys'
    BY <1>6 DEF AfterTimeout, NextAttempt
<1>7. ASSUME NEW c \in Clients, StartFailed(c) PROVE LockIsSomebodys'
    BY <1>7 DEF StartFailed, NextAttempt
<1>8. ASSUME NEW c \in Clients, TryLock(c) PROVE LockIsSomebodys'
    BY <1>8 DEF TryLock
<1>9. ASSUME NEW c \in Clients, OwnerLook(c) PROVE LockIsSomebodys'
    BY <1>9 DEF OwnerLook, ReadRuntime
<1>10. ASSUME NEW c \in Clients, Recheck(c) PROVE LockIsSomebodys'
    BY <1>10 DEF Recheck
<1>11. ASSUME NEW c \in Clients, OwnerPurge(c) PROVE LockIsSomebodys'
    BY <1>11 DEF OwnerPurge
<1>12. ASSUME NEW c \in Clients, Spawn(c) PROVE LockIsSomebodys'
    BY <1>12 DEF Spawn, Born
<1>13. ASSUME NEW c \in Clients, SpawnFails(c) PROVE LockIsSomebodys'
    BY <1>13 DEF SpawnFails
<1>14. ASSUME NEW c \in Clients, Booted(c) PROVE LockIsSomebodys'
    BY <1>14 DEF Booted
<1>15. ASSUME NEW c \in Clients, BootTimeout(c) PROVE LockIsSomebodys'
    BY <1>15 DEF BootTimeout
<1>16. ASSUME NEW c \in Clients, WaitRuntime(c) PROVE LockIsSomebodys'
    BY <1>16 DEF WaitRuntime
<1>17. ASSUME NEW c \in Clients, WaitTimeout(c) PROVE LockIsSomebodys'
    BY <1>17 DEF WaitTimeout
<1>18. ASSUME NEW c \in Clients, Steal(c) PROVE LockIsSomebodys'
    BY <1>18 DEF Steal
<1>19. ASSUME NEW c \in Clients, GiveUp(c) PROVE LockIsSomebodys'
    BY <1>19 DEF GiveUp
<1>20. ASSUME NEW c \in Clients, CrashOwner(c) PROVE LockIsSomebodys'
    BY <1>20 DEF CrashOwner
<1>21. ASSUME NEW c \in Clients, Acquire(c) PROVE LockIsSomebodys'
    BY <1>21 DEF Acquire
<1>22. ASSUME NEW c \in Clients, AcquireFails(c) PROVE LockIsSomebodys'
    BY <1>22 DEF AcquireFails
<1>23. ASSUME NEW c \in Clients, Finish(c) PROVE LockIsSomebodys'
    BY <1>23 DEF Finish
<1>24. ASSUME NEW d \in Daemons, ListOrphans(d) PROVE LockIsSomebodys'
    BY <1>24 DEF ListOrphans
<1>25. ASSUME NEW d \in Daemons, RemoveOrphans(d) PROVE LockIsSomebodys'
    BY <1>25 DEF RemoveOrphans
<1>26. ASSUME NEW d \in Daemons, Listen(d) PROVE LockIsSomebodys'
    BY <1>26 DEF Listen
<1>27. ASSUME NEW d \in Daemons, WriteRuntime(d) PROVE LockIsSomebodys'
    BY <1>27 DEF WriteRuntime
<1>28. ASSUME NEW d \in Daemons, BootFails(d) PROVE LockIsSomebodys'
    BY <1>28 DEF BootFails
<1>29. ASSUME NEW d \in Daemons, IdleExit(d) PROVE LockIsSomebodys'
    BY <1>29 DEF IdleExit
<1>30. ASSUME NEW d \in Daemons, CloseListener(d) PROVE LockIsSomebodys'
    BY <1>30 DEF CloseListener
<1>31. ASSUME NEW d \in Daemons, RemoveRuntime(d) PROVE LockIsSomebodys'
    BY <1>31 DEF RemoveRuntime
<1>32. ASSUME NEW d \in Daemons, Die(d) PROVE LockIsSomebodys'
    BY <1>32 DEF Die
<1>33. CASE Age
    BY <1>33 DEF Age
<1>34. CASE UNCHANGED vars
    BY <1>34 DEF vars
<1>35. ASSUME NEW c \in Clients, LockFails(c) PROVE LockIsSomebodys'
    BY <1>35 DEF LockFails
<1> QED
    BY <1>1, <1>2, <1>3, <1>4, <1>5, <1>6, <1>7, <1>8, <1>9, <1>10,
       <1>11, <1>12, <1>13, <1>14, <1>15, <1>16, <1>17, <1>18, <1>19,
       <1>20, <1>21, <1>22, <1>23, <1>24, <1>25, <1>26, <1>27, <1>28,
       <1>29, <1>30, <1>31, <1>32, <1>33, <1>34, <1>35
       DEF Next, Connect, Boot

\* No path through autoStartDaemon, and no theft of a lock, leaves a lock behind whose
\* creator lives on without it.
THEOREM LockIsSomebodysAlways == Spec => []LockIsSomebodys
<1>1. Init => LockIsSomebodys
    BY DEF Init, LockIsSomebodys, Abandoned
<1> QED
    BY <1>1, TypeCorrect, LockIsStep, PTL DEF Spec

\* How many steps connectOrStart still takes, at most, but for its turns of waiting
\* for the lock.
Waiting == {"lock", "wait", "steal"}
StepsFrom(pc) ==
    CASE pc = "read" -> 16       [] pc = "dial" -> 15      [] pc = "purge" -> 14
      [] pc \in Waiting -> 13    [] pc = "owner" -> 12     [] pc = "recheck" -> 11
      [] pc = "ownerPurge" -> 10 [] pc = "spawn" -> 9      [] pc = "booting" -> 8
      [] pc = "failed" -> 7      [] pc = "after" -> 6      [] pc = "dial2" -> 5
      [] pc = "purge2" -> 4      [] pc = "connected" -> 3  [] pc = "session" -> 2
      [] OTHER -> 0
StepsLeft(turn, pc) ==
    IF StepsFrom(pc) > 3 /\ turn = 1 THEN 20 + StepsFrom(pc) ELSE StepsFrom(pc)

\* Nobody's step sets a process back, and each of its own takes it forward, or round
\* the loop that waits for the lock: the retry, the second look and the failures
\* that turn out to be somebody else's success do not make a cycle.
Forward(c) ==
    /\ StepsLeft(attempt'[c], cpc'[c]) <= StepsLeft(attempt[c], cpc[c])
    /\ cpc'[c] # cpc[c] =>
           \/ StepsLeft(attempt'[c], cpc'[c]) < StepsLeft(attempt[c], cpc[c])
           \/ {cpc[c], cpc'[c]} \subseteq Waiting
ConnectGoesForward == [][\A c \in Clients : Forward(c)]_vars

LEMMA ForwardStep == ASSUME TypeOK, [Next]_vars, NEW a \in Clients PROVE Forward(a)
<1> USE DEF TypeOK, ClientPCs, OwnerPCs, lockVars, daemonVars, To, Forget, Forward,
            StepsLeft, StepsFrom, Waiting
<1>1. ASSUME NEW c \in Clients, Look(c) PROVE Forward(a)
    BY <1>1 DEF Look, ReadRuntime
<1>2. ASSUME NEW c \in Clients, Dial(c) PROVE Forward(a)
    BY <1>2 DEF Dial
<1>3. ASSUME NEW c \in Clients, PurgeStale(c) PROVE Forward(a)
    BY <1>3 DEF PurgeStale
<1>4. ASSUME NEW c \in Clients, PurgeAgain(c) PROVE Forward(a)
    BY <1>4 DEF PurgeAgain, NextAttempt
<1>5. ASSUME NEW c \in Clients, AfterStart(c) PROVE Forward(a)
    BY <1>5 DEF AfterStart, ReadRuntime
<1>6. ASSUME NEW c \in Clients, AfterTimeout(c) PROVE Forward(a)
    BY <1>6 DEF AfterTimeout, NextAttempt
<1>7. ASSUME NEW c \in Clients, StartFailed(c) PROVE Forward(a)
    BY <1>7 DEF StartFailed, NextAttempt
<1>8. ASSUME NEW c \in Clients, TryLock(c) PROVE Forward(a)
    BY <1>8 DEF TryLock
<1>9. ASSUME NEW c \in Clients, OwnerLook(c) PROVE Forward(a)
    BY <1>9 DEF OwnerLook, ReadRuntime
<1>10. ASSUME NEW c \in Clients, Recheck(c) PROVE Forward(a)
    BY <1>10 DEF Recheck
<1>11. ASSUME NEW c \in Clients, OwnerPurge(c) PROVE Forward(a)
    BY <1>11 DEF OwnerPurge
<1>12. ASSUME NEW c \in Clients, Spawn(c) PROVE Forward(a)
    BY <1>12 DEF Spawn, Born
<1>13. ASSUME NEW c \in Clients, SpawnFails(c) PROVE Forward(a)
    BY <1>13 DEF SpawnFails
<1>14. ASSUME NEW c \in Clients, Booted(c) PROVE Forward(a)
    BY <1>14 DEF Booted
<1>15. ASSUME NEW c \in Clients, BootTimeout(c) PROVE Forward(a)
    BY <1>15 DEF BootTimeout
<1>16. ASSUME NEW c \in Clients, WaitRuntime(c) PROVE Forward(a)
    BY <1>16 DEF WaitRuntime
<1>17. ASSUME NEW c \in Clients, WaitTimeout(c) PROVE Forward(a)
    BY <1>17 DEF WaitTimeout
<1>18. ASSUME NEW c \in Clients, Steal(c) PROVE Forward(a)
    BY <1>18 DEF Steal
<1>19. ASSUME NEW c \in Clients, GiveUp(c) PROVE Forward(a)
    BY <1>19 DEF GiveUp
<1>20. ASSUME NEW c \in Clients, CrashOwner(c) PROVE Forward(a)
    BY <1>20 DEF CrashOwner
<1>21. ASSUME NEW c \in Clients, Acquire(c) PROVE Forward(a)
    BY <1>21 DEF Acquire
<1>22. ASSUME NEW c \in Clients, AcquireFails(c) PROVE Forward(a)
    BY <1>22 DEF AcquireFails
<1>23. ASSUME NEW c \in Clients, Finish(c) PROVE Forward(a)
    BY <1>23 DEF Finish
<1>24. ASSUME NEW d \in Daemons, ListOrphans(d) PROVE Forward(a)
    BY <1>24 DEF ListOrphans
<1>25. ASSUME NEW d \in Daemons, RemoveOrphans(d) PROVE Forward(a)
    BY <1>25 DEF RemoveOrphans
<1>26. ASSUME NEW d \in Daemons, Listen(d) PROVE Forward(a)
    BY <1>26 DEF Listen
<1>27. ASSUME NEW d \in Daemons, WriteRuntime(d) PROVE Forward(a)
    BY <1>27 DEF WriteRuntime
<1>28. ASSUME NEW d \in Daemons, BootFails(d) PROVE Forward(a)
    BY <1>28 DEF BootFails
<1>29. ASSUME NEW d \in Daemons, IdleExit(d) PROVE Forward(a)
    BY <1>29 DEF IdleExit
<1>30. ASSUME NEW d \in Daemons, CloseListener(d) PROVE Forward(a)
    BY <1>30 DEF CloseListener
<1>31. ASSUME NEW d \in Daemons, RemoveRuntime(d) PROVE Forward(a)
    BY <1>31 DEF RemoveRuntime
<1>32. ASSUME NEW d \in Daemons, Die(d) PROVE Forward(a)
    BY <1>32 DEF Die
<1>33. CASE Age
    BY <1>33 DEF Age
<1>34. CASE UNCHANGED vars
    BY <1>34 DEF vars
<1>35. ASSUME NEW c \in Clients, LockFails(c) PROVE Forward(a)
    BY <1>35 DEF LockFails
<1> QED
    BY <1>1, <1>2, <1>3, <1>4, <1>5, <1>6, <1>7, <1>8, <1>9, <1>10,
       <1>11, <1>12, <1>13, <1>14, <1>15, <1>16, <1>17, <1>18, <1>19,
       <1>20, <1>21, <1>22, <1>23, <1>24, <1>25, <1>26, <1>27, <1>28,
       <1>29, <1>30, <1>31, <1>32, <1>33, <1>34, <1>35
       DEF Next, Connect, Boot

\* Hence connectOrStart can only be kept going by the lock, and by LockIsSomebodys only
\* by owners, each of which releases it within five of its steps, and by the dead.
THEOREM ConnectGoesForwardAlways == Spec => ConnectGoesForward
<1>1. TypeOK /\ [Next]_vars => [\A c \in Clients : Forward(c)]_vars
    BY ForwardStep
<1> QED
    BY <1>1, TypeCorrect, PTL DEF Spec, ConnectGoesForward

=============================================================================
