-------------------------- MODULE SUTManagerProofs --------------------------
(***************************************************************************)
(* Proofs about SUTManager, for any number of handlers and processes, both *)
(* platforms, with and without forks, exits and requests that end the SUT. *)
(*                                                                         *)
(* What the manager knows of its processes is spread over cmd, the handler *)
(* that holds mu and the stops that wait; the invariant is that these      *)
(* cover every running process, and that the record is empty while mu is   *)
(* held.                                                                   *)
(***************************************************************************)
EXTENDS SUTManager, FiniteSetTheorems, TLAPS

\* Processes are numbered; a handler inside has started one, and nothing else is
\* recorded then; what forceStopLocked has killed does not run; a stop has a victim.
NumberInv ==
    /\ \A p \in Procs : leader[p] = "unborn" <=> p > born
    /\ cmd <= born
    /\ \A h \in Handlers : own[h] <= born
    /\ \A h \in Handlers : hpc[h] \in {"assigning", "probing", "killing"} =>
           own[h] # 0 /\ cmd = 0
    /\ \A h \in Handlers : hpc[h] = "killing" => leader[own[h]] # "running"
    /\ \A s \in Stoppers : victim[s] <= born
    /\ \A s \in Stoppers : spc[s] = "waiting" => victim[s] # 0
    /\ \A s \in Stoppers : spc[s] = "idle" => victim[s] = 0

\* NoneForgotten, one process at a time.
Kept(p) ==
    \/ p = cmd
    \/ \E h \in Handlers : hpc[h] \in {"assigning", "probing"} /\ own[h] = p
    \/ \E s \in Stoppers : spc[s] = "waiting" /\ victim[s] = p
KeptInv == \A p \in Procs : leader[p] = "running" => Kept(p)

\* A descendant in a job is in one that is open.
JobInv == platform = "windows" => \A p \in Procs : kid[p] = "in" => job[p] = "open"

-----------------------------------------------------------------------------
(* Type correctness, and the numbers.                                      *)

\* The processes keep their types, and but for p they are what they were.
OnlyOf(p) ==
    /\ leader' \in [Procs -> {"unborn", "running", "exited", "reaped"}]
    /\ kid' \in [Procs -> {"none", "in", "out"}]
    /\ job' \in [Procs -> {"none", "open", "closed"}]
    /\ port' \in 0 .. MaxProcs
    /\ platform' = platform /\ addrs' = addrs
    /\ \A q \in Procs : q # p => leader'[q] = leader[q]
    /\ leader[p] # "unborn" => leader'[p] # "unborn"
    /\ leader[p] # "running" => leader'[p] # "running"
    /\ leader'[p] = "reaped" <=> leader[p] = "reaped"

\* The leader does not run after a kill, and only the waiter reaps.
LEMMA Killed ==
    ASSUME TypeOK, NEW p \in Procs, KillTree(p)
    PROVE  OnlyOf(p) /\ leader'[p] # "running"
<1> USE SUTAssumption DEF TypeOK, Procs, fixedVars, OnlyOf
<1>1. CASE platform = "unix" /\ leader[p] = "reaped" /\ UNCHANGED procVars
    BY <1>1 DEF procVars
<1>2. CASE platform = "unix" /\ KillGroup(p)
    BY <1>2 DEF KillGroup, PortAfter
<1>3. CASE platform = "windows" /\ KillJob(p)
    BY <1>3 DEF KillJob, PortAfter
<1> QED
    BY <1>1, <1>2, <1>3 DEF KillTree

\* The end of a request may end the leader of the process it was bound to.
LEMMA RequestEnded ==
    ASSUME TypeOK, NEW h \in Handlers, EndRequest(h)
    PROVE  \/ UNCHANGED procVars
           \/ own[h] \in Procs /\ OnlyOf(own[h]) /\ UNCHANGED <<kid, job>>
<1> USE SUTAssumption DEF TypeOK, Procs, fixedVars, OnlyOf
<1>1. CASE BoundToRequest /\ own[h] # 0 /\ leader[own[h]] = "running"
    <2>1. own[h] \in Procs
        BY <1>1 DEF EndRequest
    <2>2. /\ leader' = [leader EXCEPT ![own[h]] = "exited"]
          /\ UNCHANGED <<fixedVars, kid, job>>
        BY <1>1 DEF EndRequest
    <2>3. port' \in 0 .. MaxProcs
        BY <1>1, <2>1 DEF EndRequest, PortAfter
    <2> QED
        BY <1>1, <2>1, <2>2, <2>3
<1>2. CASE ~(BoundToRequest /\ own[h] # 0 /\ leader[own[h]] = "running")
    BY <1>2 DEF EndRequest, procVars
<1> QED
    BY <1>1, <1>2

LEMMA TypeStep == TypeOK /\ NumberInv /\ [Next]_vars => TypeOK'
<1> SUFFICES ASSUME TypeOK, NumberInv, [Next]_vars PROVE TypeOK'
    OBVIOUS
<1> USE SUTAssumption
        DEF TypeOK, NumberInv, Procs, procVars, fixedVars, handlerVars, stopVars
<1>1. ASSUME NEW h \in Handlers, AlreadyUp(h) PROVE TypeOK'
    BY <1>1 DEF AlreadyUp
<1>2. ASSUME NEW h \in Handlers, Start(h) PROVE TypeOK'
    BY <1>2 DEF Start, Launch
<1>3. ASSUME NEW h \in Handlers, StartFails(h) PROVE TypeOK'
    BY <1>3 DEF StartFails
<1>4. ASSUME NEW h \in Handlers, AssignJob(h) PROVE TypeOK'
    BY <1>4 DEF AssignJob
<1>5. ASSUME NEW h \in Handlers, AssignFails(h) PROVE TypeOK'
    <2>1. own[h] \in Procs /\ KillTree(own[h])
        BY <1>5 DEF AssignFails
    <2>2. OnlyOf(own[h]) /\ leader'[own[h]] # "running"
        BY <2>1, Killed
    <2> QED
        BY <1>5, <2>1, <2>2 DEF AssignFails, OnlyOf
<1>6. ASSUME NEW h \in Handlers, ProbeOK(h) PROVE TypeOK'
    BY <1>6 DEF ProbeOK
<1>7. ASSUME NEW h \in Handlers, ProbeFails(h) PROVE TypeOK'
    <2>1. own[h] \in Procs /\ KillTree(own[h])
        BY <1>7 DEF ProbeFails
    <2>2. OnlyOf(own[h]) /\ leader'[own[h]] # "running"
        BY <2>1, Killed
    <2> QED
        BY <1>7, <2>1, <2>2 DEF ProbeFails, OnlyOf
<1>8. ASSUME NEW h \in Handlers, EnsureError(h) PROVE TypeOK'
    BY <1>8 DEF EnsureError
<1>9. ASSUME NEW h \in Handlers, EndRequest(h) PROVE TypeOK'
    <2>1. /\ hpc' \in [Handlers -> {"idle", "assigning", "probing", "killing", "returned"}]
          /\ own' \in [Handlers -> 0 .. MaxProcs]
          /\ \A g \in Handlers : hpc'[g] \in {"assigning", "probing", "killing"} <=> mu = g
          /\ UNCHANGED <<fixedVars, mu, cmd, born, stopVars, kid, job>>
        BY <1>9 DEF EndRequest
    <2>2. /\ leader' \in [Procs -> {"unborn", "running", "exited", "reaped"}]
          /\ port' \in 0 .. MaxProcs
        BY <1>9, RequestEnded DEF OnlyOf
    <2> QED
        BY <2>1, <2>2
<1>10. ASSUME NEW s \in Stoppers, Stop(s) PROVE TypeOK'
    BY <1>10 DEF Stop
<1>11. ASSUME NEW s \in Stoppers, NothingToStop(s) PROVE TypeOK'
    BY <1>11 DEF NothingToStop
<1>12. ASSUME NEW s \in Stoppers, StopExited(s) PROVE TypeOK'
    BY <1>12 DEF StopExited
<1>13. ASSUME NEW s \in Stoppers, StopGrace(s) PROVE TypeOK'
    <2>1. victim[s] \in Procs /\ KillTree(victim[s])
        BY <1>13 DEF StopGrace
    <2>2. OnlyOf(victim[s]) /\ leader'[victim[s]] # "running"
        BY <2>1, Killed
    <2> QED
        BY <1>13, <2>1, <2>2 DEF StopGrace, OnlyOf
<1>14. CASE NextPass
    BY <1>14 DEF NextPass, Stoppers
<1>15. CASE Snapshot
    BY <1>15 DEF Snapshot
<1>16. ASSUME NEW p \in Procs, Listen(p) PROVE TypeOK'
    BY <1>16 DEF Listen
<1>17. ASSUME NEW p \in Procs, Fork(p) PROVE TypeOK'
    BY <1>17 DEF Fork
<1>18. ASSUME NEW p \in Procs, LeaderExits(p) PROVE TypeOK'
    BY <1>18 DEF LeaderExits, PortAfter
<1>19. ASSUME NEW p \in Procs, KidsExit(p) PROVE TypeOK'
    BY <1>19 DEF KidsExit
<1>20. ASSUME NEW p \in Procs, Reap(p) PROVE TypeOK'
    BY <1>20 DEF Reap
<1>21. ASSUME NEW p \in Procs, Release(p) PROVE TypeOK'
    BY <1>21 DEF Release, PortAfter
<1>22. CASE UNCHANGED vars
    BY <1>22 DEF vars
<1> QED
    BY <1>1, <1>2, <1>3, <1>4, <1>5, <1>6, <1>7, <1>8, <1>9, <1>10,
       <1>11, <1>12, <1>13, <1>14, <1>15, <1>16, <1>17, <1>18, <1>19,
       <1>20, <1>21, <1>22
       DEF Next, Ensure, StopStep

LEMMA NumberStep == TypeOK /\ NumberInv /\ [Next]_vars => NumberInv'
<1> SUFFICES ASSUME TypeOK, NumberInv, [Next]_vars PROVE NumberInv'
    OBVIOUS
<1> USE SUTAssumption
        DEF TypeOK, NumberInv, Procs, procVars, fixedVars, handlerVars, stopVars
<1>1. ASSUME NEW h \in Handlers, AlreadyUp(h) PROVE NumberInv'
    BY <1>1 DEF AlreadyUp
<1>2. ASSUME NEW h \in Handlers, Start(h) PROVE NumberInv'
    BY <1>2 DEF Start, Launch
<1>3. ASSUME NEW h \in Handlers, StartFails(h) PROVE NumberInv'
    BY <1>3 DEF StartFails
<1>4. ASSUME NEW h \in Handlers, AssignJob(h) PROVE NumberInv'
    BY <1>4 DEF AssignJob
<1>5. ASSUME NEW h \in Handlers, AssignFails(h) PROVE NumberInv'
    <2>1. own[h] \in Procs /\ KillTree(own[h])
        BY <1>5 DEF AssignFails
    <2>2. OnlyOf(own[h]) /\ leader'[own[h]] # "running"
        BY <2>1, Killed
    <2> QED
        BY <1>5, <2>1, <2>2 DEF AssignFails, OnlyOf
<1>6. ASSUME NEW h \in Handlers, ProbeOK(h) PROVE NumberInv'
    BY <1>6 DEF ProbeOK
<1>7. ASSUME NEW h \in Handlers, ProbeFails(h) PROVE NumberInv'
    <2>1. own[h] \in Procs /\ KillTree(own[h])
        BY <1>7 DEF ProbeFails
    <2>2. OnlyOf(own[h]) /\ leader'[own[h]] # "running"
        BY <2>1, Killed
    <2> QED
        BY <1>7, <2>1, <2>2 DEF ProbeFails, OnlyOf
<1>8. ASSUME NEW h \in Handlers, EnsureError(h) PROVE NumberInv'
    BY <1>8 DEF EnsureError
<1>9. ASSUME NEW h \in Handlers, EndRequest(h) PROVE NumberInv'
    <2>1. /\ hpc[h] = "returned" /\ hpc' = [hpc EXCEPT ![h] = "idle"]
          /\ own' = [own EXCEPT ![h] = 0]
          /\ UNCHANGED <<fixedVars, mu, cmd, born, stopVars, kid, job>>
        BY <1>9 DEF EndRequest
    <2>2. CASE UNCHANGED procVars
        BY <2>1, <2>2
    <2>3. CASE own[h] \in Procs /\ OnlyOf(own[h]) /\ UNCHANGED <<kid, job>>
        BY <2>1, <2>3 DEF OnlyOf
    <2> QED
        BY <1>9, <2>2, <2>3, RequestEnded
<1>10. ASSUME NEW s \in Stoppers, Stop(s) PROVE NumberInv'
    BY <1>10 DEF Stop, RunningLocked
<1>11. ASSUME NEW s \in Stoppers, NothingToStop(s) PROVE NumberInv'
    BY <1>11 DEF NothingToStop
<1>12. ASSUME NEW s \in Stoppers, StopExited(s) PROVE NumberInv'
    BY <1>12 DEF StopExited
<1>13. ASSUME NEW s \in Stoppers, StopGrace(s) PROVE NumberInv'
    <2>1. victim[s] \in Procs /\ KillTree(victim[s])
        BY <1>13 DEF StopGrace
    <2>2. OnlyOf(victim[s]) /\ leader'[victim[s]] # "running"
        BY <2>1, Killed
    <2> QED
        BY <1>13, <2>1, <2>2 DEF StopGrace, OnlyOf
<1>14. CASE NextPass
    BY <1>14 DEF NextPass, Stoppers
<1>15. CASE Snapshot
    BY <1>15 DEF Snapshot
<1>16. ASSUME NEW p \in Procs, Listen(p) PROVE NumberInv'
    BY <1>16 DEF Listen
<1>17. ASSUME NEW p \in Procs, Fork(p) PROVE NumberInv'
    BY <1>17 DEF Fork
<1>18. ASSUME NEW p \in Procs, LeaderExits(p) PROVE NumberInv'
    BY <1>18 DEF LeaderExits, PortAfter
<1>19. ASSUME NEW p \in Procs, KidsExit(p) PROVE NumberInv'
    BY <1>19 DEF KidsExit
<1>20. ASSUME NEW p \in Procs, Reap(p) PROVE NumberInv'
    BY <1>20 DEF Reap
<1>21. ASSUME NEW p \in Procs, Release(p) PROVE NumberInv'
    BY <1>21 DEF Release, PortAfter
<1>22. CASE UNCHANGED vars
    BY <1>22 DEF vars
<1> QED
    BY <1>1, <1>2, <1>3, <1>4, <1>5, <1>6, <1>7, <1>8, <1>9, <1>10,
       <1>11, <1>12, <1>13, <1>14, <1>15, <1>16, <1>17, <1>18, <1>19,
       <1>20, <1>21, <1>22
       DEF Next, Ensure, StopStep

LEMMA NumberInvariant == Spec => [](TypeOK /\ NumberInv)
<1>1. Init => TypeOK /\ NumberInv
    BY SUTAssumption DEF Init, TypeOK, NumberInv, Procs
<1> QED
    BY <1>1, TypeStep, NumberStep, PTL DEF Spec

\* Every variable keeps its range, and mu is held exactly by the handler that is
\* between a start and its outcome.
THEOREM TypeCorrect == Spec => []TypeOK
    BY NumberInvariant, PTL

-----------------------------------------------------------------------------
(* No process is forgotten.                                                *)

LEMMA KeptStep == TypeOK /\ NumberInv /\ KeptInv /\ [Next]_vars => KeptInv'
<1> SUFFICES ASSUME TypeOK, NumberInv, KeptInv, [Next]_vars PROVE KeptInv'
    OBVIOUS
<1> USE SUTAssumption
        DEF TypeOK, NumberInv, KeptInv, Kept, Procs, procVars, fixedVars, handlerVars, stopVars,
            RunningLocked
<1>1. ASSUME NEW h \in Handlers, AlreadyUp(h) PROVE KeptInv'
    BY <1>1 DEF AlreadyUp
<1>2. ASSUME NEW h \in Handlers, Start(h) PROVE KeptInv'
    <2>1. /\ mu = Nobody /\ ~RunningLocked /\ own' = [own EXCEPT ![h] = born + 1]
          /\ hpc' = [hpc EXCEPT ![h] = IF platform = "windows" THEN "assigning" ELSE "probing"]
          /\ leader' = [leader EXCEPT ![born + 1] = "running"]
          /\ UNCHANGED stopVars
        BY <1>2 DEF Start, Launch
    <2> SUFFICES ASSUME NEW p \in Procs, leader'[p] = "running" PROVE Kept(p)'
        OBVIOUS
    <2>2. CASE p = born + 1
        BY <2>1, <2>2
    <2>3. CASE p # born + 1
        <3>1. Kept(p) /\ p # cmd
            BY <2>1, <2>3
        <3>2. PICK s \in Stoppers : spc[s] = "waiting" /\ victim[s] = p
            BY <2>1, <3>1
        <3> QED
            BY <2>1, <3>2
    <2> QED
        BY <2>2, <2>3
<1>3. ASSUME NEW h \in Handlers, StartFails(h) PROVE KeptInv'
    <2>1. ~RunningLocked
        BY <1>3 DEF StartFails
    <2>2. \A p \in Procs : leader[p] = "running" => Kept(p) /\ p # cmd
        BY <2>1
    <2> QED
        BY <1>3, <2>2 DEF StartFails
<1>4. ASSUME NEW h \in Handlers, AssignJob(h) PROVE KeptInv'
    BY <1>4 DEF AssignJob
<1>5. ASSUME NEW h \in Handlers, AssignFails(h) PROVE KeptInv'
    <2>1. own[h] \in Procs /\ KillTree(own[h])
        BY <1>5 DEF AssignFails
    <2>2. OnlyOf(own[h]) /\ leader'[own[h]] # "running"
        BY <2>1, Killed
    <2> QED
        BY <1>5, <2>1, <2>2 DEF AssignFails, OnlyOf
<1>6. ASSUME NEW h \in Handlers, ProbeOK(h) PROVE KeptInv'
    <2>1. /\ hpc[h] = "probing" /\ cmd' = own[h] /\ cmd = 0
          /\ hpc' = [hpc EXCEPT ![h] = "returned"]
          /\ UNCHANGED <<procVars, own, stopVars>>
        BY <1>6 DEF ProbeOK
    <2> SUFFICES ASSUME NEW p \in Procs, leader[p] = "running" PROVE Kept(p)'
        BY <2>1
    <2>2. Kept(p) /\ p # cmd
        BY <2>1
    <2>3. CASE \E s \in Stoppers : spc[s] = "waiting" /\ victim[s] = p
        BY <2>1, <2>3
    <2>4. CASE own[h] = p
        BY <2>1, <2>4
    <2>5. CASE \E g \in Handlers \ {h} : hpc[g] \in {"assigning", "probing"} /\ own[g] = p
        BY <2>1, <2>5
    <2> QED
        BY <2>2, <2>3, <2>4, <2>5
<1>7. ASSUME NEW h \in Handlers, ProbeFails(h) PROVE KeptInv'
    <2> SUFFICES ASSUME NEW p \in Procs, leader'[p] = "running" PROVE Kept(p)'
        OBVIOUS
    <2>1. own[h] \in Procs /\ KillTree(own[h])
        BY <1>7 DEF ProbeFails
    <2>2. p # own[h] /\ leader'[p] = leader[p]
        BY <2>1, Killed DEF OnlyOf
    <2>3. Kept(p)
        BY <2>2
    <2> QED
        BY <1>7, <2>2, <2>3 DEF ProbeFails
<1>8. ASSUME NEW h \in Handlers, EnsureError(h) PROVE KeptInv'
    BY <1>8 DEF EnsureError
<1>9. ASSUME NEW h \in Handlers, EndRequest(h) PROVE KeptInv'
    <2> SUFFICES ASSUME NEW p \in Procs, leader'[p] = "running" PROVE Kept(p)'
        OBVIOUS
    <2>1. leader[p] = "running"
        BY <1>9, RequestEnded DEF OnlyOf
    <2>2. Kept(p)
        BY <2>1
    <2> QED
        BY <1>9, <2>2 DEF EndRequest
<1>10. ASSUME NEW s \in Stoppers, Stop(s) PROVE KeptInv'
    BY <1>10 DEF Stop
<1>11. ASSUME NEW s \in Stoppers, NothingToStop(s) PROVE KeptInv'
    <2>1. ~RunningLocked
        BY <1>11 DEF NothingToStop
    <2>2. \A p \in Procs : leader[p] = "running" => Kept(p) /\ p # cmd
        BY <2>1
    <2> QED
        BY <1>11, <2>2 DEF NothingToStop
<1>12. ASSUME NEW s \in Stoppers, StopExited(s) PROVE KeptInv'
    BY <1>12 DEF StopExited
<1>13. ASSUME NEW s \in Stoppers, StopGrace(s) PROVE KeptInv'
    <2> SUFFICES ASSUME NEW p \in Procs, leader'[p] = "running" PROVE Kept(p)'
        OBVIOUS
    <2>1. victim[s] \in Procs /\ KillTree(victim[s])
        BY <1>13 DEF StopGrace
    <2>2. p # victim[s] /\ leader'[p] = leader[p]
        BY <2>1, Killed DEF OnlyOf
    <2>3. Kept(p)
        BY <2>2
    <2> QED
        BY <1>13, <2>2, <2>3 DEF StopGrace
<1>14. CASE NextPass
    BY <1>14 DEF NextPass
<1>15. CASE Snapshot
    BY <1>15 DEF Snapshot
<1>16. ASSUME NEW p \in Procs, Listen(p) PROVE KeptInv'
    BY <1>16 DEF Listen
<1>17. ASSUME NEW p \in Procs, Fork(p) PROVE KeptInv'
    BY <1>17 DEF Fork
<1>18. ASSUME NEW p \in Procs, LeaderExits(p) PROVE KeptInv'
    <2>1. /\ leader' = [leader EXCEPT ![p] = "exited"]
          /\ UNCHANGED <<cmd, handlerVars, stopVars>>
        BY <1>18 DEF LeaderExits
    <2> QED
        BY <2>1
<1>19. ASSUME NEW p \in Procs, KidsExit(p) PROVE KeptInv'
    BY <1>19 DEF KidsExit
<1>20. ASSUME NEW p \in Procs, Reap(p) PROVE KeptInv'
    BY <1>20 DEF Reap
<1>21. ASSUME NEW p \in Procs, Release(p) PROVE KeptInv'
    BY <1>21 DEF Release, PortAfter
<1>22. CASE UNCHANGED vars
    BY <1>22 DEF vars
<1> QED
    BY <1>1, <1>2, <1>3, <1>4, <1>5, <1>6, <1>7, <1>8, <1>9, <1>10,
       <1>11, <1>12, <1>13, <1>14, <1>15, <1>16, <1>17, <1>18, <1>19,
       <1>20, <1>21, <1>22
       DEF Next, Ensure, StopStep

LEMMA KeptInvariant == Spec => [](TypeOK /\ NumberInv /\ KeptInv)
<1>1. Init => KeptInv
    BY DEF Init, KeptInv
<1> QED
    BY <1>1, NumberInvariant, KeptStep, PTL DEF Spec

LEMMA KeptNoneForgotten == KeptInv => NoneForgotten
    BY DEF KeptInv, Kept, NoneForgotten, Alive, InProbe, InStop

\* On every path through starts, probes, failures, stops and snapshots, whoever
\* exits when, there is somebody to stop each process that runs.
THEOREM NoneForgottenAlways == Spec => []NoneForgotten
    BY KeptInvariant, KeptNoneForgotten, PTL

\* A set in which all elements are equal has at most one.
LEMMA AtMostOne ==
    ASSUME NEW S, \A x, y \in S : x = y
    PROVE  Cardinality(S) <= 1
<1>1. CASE S = {}
    BY <1>1, FS_EmptySet
<1>2. CASE S # {}
    <2> PICK x \in S : TRUE
        BY <1>2
    <2>1. S = {x}
        OBVIOUS
    <2> QED
        BY <2>1, FS_Singleton
<1> QED
    BY <1>1, <1>2

\* No two services run that are both in use or coming up.
THEOREM OneBesidesStoppedAlways == Spec => []OneBesidesStopped
<1>1. TypeOK /\ NumberInv /\ KeptInv => OneBesidesStopped
    <2> SUFFICES ASSUME TypeOK, NumberInv, KeptInv
                 PROVE  Cardinality(Alive \ InStop) <= 1
        BY DEF OneBesidesStopped
    <2>1. \A p \in Alive \ InStop :
              \/ p = cmd /\ cmd # 0
              \/ \E h \in Handlers : hpc[h] \in {"assigning", "probing"} /\ own[h] = p
        BY DEF KeptInv, Kept, Alive, InStop, Procs
    <2>2. \A p, q \in Alive \ InStop : p = q
        BY <2>1 DEF TypeOK, NumberInv
    <2> QED
        BY <2>2, AtMostOne
<1> QED
    BY <1>1, KeptInvariant, PTL

LEMMA VictimStep ==
    TypeOK /\ NumberInv /\ StopEndsVictim /\ [Next]_vars => StopEndsVictim'
<1> SUFFICES ASSUME TypeOK, NumberInv, StopEndsVictim, [Next]_vars PROVE StopEndsVictim'
    OBVIOUS
<1> USE SUTAssumption
        DEF TypeOK, NumberInv, StopEndsVictim, Procs, procVars, fixedVars, handlerVars, stopVars
<1>1. ASSUME NEW h \in Handlers, AlreadyUp(h) PROVE StopEndsVictim'
    BY <1>1 DEF AlreadyUp
<1>2. ASSUME NEW h \in Handlers, Start(h) PROVE StopEndsVictim'
    BY <1>2 DEF Start, Launch
<1>3. ASSUME NEW h \in Handlers, StartFails(h) PROVE StopEndsVictim'
    BY <1>3 DEF StartFails
<1>4. ASSUME NEW h \in Handlers, AssignJob(h) PROVE StopEndsVictim'
    BY <1>4 DEF AssignJob
<1>5. ASSUME NEW h \in Handlers, AssignFails(h) PROVE StopEndsVictim'
    <2>1. own[h] \in Procs /\ KillTree(own[h])
        BY <1>5 DEF AssignFails
    <2>2. OnlyOf(own[h]) /\ leader'[own[h]] # "running"
        BY <2>1, Killed
    <2> QED
        BY <1>5, <2>1, <2>2 DEF AssignFails, OnlyOf
<1>6. ASSUME NEW h \in Handlers, ProbeOK(h) PROVE StopEndsVictim'
    BY <1>6 DEF ProbeOK
<1>7. ASSUME NEW h \in Handlers, ProbeFails(h) PROVE StopEndsVictim'
    <2>1. own[h] \in Procs /\ KillTree(own[h])
        BY <1>7 DEF ProbeFails
    <2>2. OnlyOf(own[h]) /\ leader'[own[h]] # "running"
        BY <2>1, Killed
    <2> QED
        BY <1>7, <2>1, <2>2 DEF ProbeFails, OnlyOf
<1>8. ASSUME NEW h \in Handlers, EnsureError(h) PROVE StopEndsVictim'
    BY <1>8 DEF EnsureError
<1>9. ASSUME NEW h \in Handlers, EndRequest(h) PROVE StopEndsVictim'
    <2>1. /\ hpc[h] = "returned" /\ hpc' = [hpc EXCEPT ![h] = "idle"]
          /\ own' = [own EXCEPT ![h] = 0]
          /\ UNCHANGED <<fixedVars, mu, cmd, born, stopVars, kid, job>>
        BY <1>9 DEF EndRequest
    <2>2. CASE UNCHANGED procVars
        BY <2>1, <2>2
    <2>3. CASE own[h] \in Procs /\ OnlyOf(own[h]) /\ UNCHANGED <<kid, job>>
        BY <2>1, <2>3 DEF OnlyOf
    <2> QED
        BY <1>9, <2>2, <2>3, RequestEnded
<1>10. ASSUME NEW s \in Stoppers, Stop(s) PROVE StopEndsVictim'
    BY <1>10 DEF Stop
<1>11. ASSUME NEW s \in Stoppers, NothingToStop(s) PROVE StopEndsVictim'
    BY <1>11 DEF NothingToStop, RunningLocked
<1>12. ASSUME NEW s \in Stoppers, StopExited(s) PROVE StopEndsVictim'
    BY <1>12 DEF StopExited
<1>13. ASSUME NEW s \in Stoppers, StopGrace(s) PROVE StopEndsVictim'
    <2>1. victim[s] \in Procs /\ KillTree(victim[s])
        BY <1>13 DEF StopGrace
    <2>2. OnlyOf(victim[s]) /\ leader'[victim[s]] # "running"
        BY <2>1, Killed
    <2> QED
        BY <1>13, <2>1, <2>2 DEF StopGrace, OnlyOf
<1>14. CASE NextPass
    BY <1>14 DEF NextPass
<1>15. CASE Snapshot
    BY <1>15 DEF Snapshot
<1>16. ASSUME NEW p \in Procs, Listen(p) PROVE StopEndsVictim'
    BY <1>16 DEF Listen
<1>17. ASSUME NEW p \in Procs, Fork(p) PROVE StopEndsVictim'
    BY <1>17 DEF Fork
<1>18. ASSUME NEW p \in Procs, LeaderExits(p) PROVE StopEndsVictim'
    <2>1. /\ leader' = [leader EXCEPT ![p] = "exited"]
          /\ UNCHANGED <<cmd, handlerVars, stopVars>>
        BY <1>18 DEF LeaderExits
    <2> QED
        BY <2>1
<1>19. ASSUME NEW p \in Procs, KidsExit(p) PROVE StopEndsVictim'
    BY <1>19 DEF KidsExit
<1>20. ASSUME NEW p \in Procs, Reap(p) PROVE StopEndsVictim'
    BY <1>20 DEF Reap
<1>21. ASSUME NEW p \in Procs, Release(p) PROVE StopEndsVictim'
    BY <1>21 DEF Release, PortAfter
<1>22. CASE UNCHANGED vars
    BY <1>22 DEF vars
<1> QED
    BY <1>1, <1>2, <1>3, <1>4, <1>5, <1>6, <1>7, <1>8, <1>9, <1>10,
       <1>11, <1>12, <1>13, <1>14, <1>15, <1>16, <1>17, <1>18, <1>19,
       <1>20, <1>21, <1>22
       DEF Next, Ensure, StopStep

\* Whichever way a stop returns, and whatever is started meanwhile.
THEOREM StopEndsVictimAlways == Spec => []StopEndsVictim
<1>1. Init => StopEndsVictim
    BY DEF Init, StopEndsVictim
<1> QED
    BY <1>1, NumberInvariant, VictimStep, PTL DEF Spec

-----------------------------------------------------------------------------
(* Descendants and the probe.                                              *)

LEMMA JobStep == TypeOK /\ NumberInv /\ JobInv /\ [Next]_vars => JobInv'
<1> SUFFICES ASSUME TypeOK, NumberInv, JobInv, [Next]_vars PROVE JobInv'
    OBVIOUS
<1> USE SUTAssumption
        DEF TypeOK, NumberInv, JobInv, Procs, procVars, fixedVars, handlerVars, stopVars
<1>1. ASSUME NEW h \in Handlers, AlreadyUp(h) PROVE JobInv'
    BY <1>1 DEF AlreadyUp
<1>2. ASSUME NEW h \in Handlers, Start(h) PROVE JobInv'
    BY <1>2 DEF Start, Launch
<1>3. ASSUME NEW h \in Handlers, StartFails(h) PROVE JobInv'
    BY <1>3 DEF StartFails
<1>4. ASSUME NEW h \in Handlers, AssignJob(h) PROVE JobInv'
    BY <1>4 DEF AssignJob
<1>5. ASSUME NEW h \in Handlers, AssignFails(h) PROVE JobInv'
    <2>1. own[h] \in Procs /\ KillTree(own[h])
        BY <1>5 DEF AssignFails
    <2>2. CASE platform = "unix"
        BY <2>1, <2>2, Killed DEF OnlyOf
    <2>3. CASE KillJob(own[h])
        BY <2>1, <2>3 DEF KillJob
    <2> QED
        BY <2>1, <2>2, <2>3 DEF KillTree
<1>6. ASSUME NEW h \in Handlers, ProbeOK(h) PROVE JobInv'
    BY <1>6 DEF ProbeOK
<1>7. ASSUME NEW h \in Handlers, ProbeFails(h) PROVE JobInv'
    <2>1. own[h] \in Procs /\ KillTree(own[h])
        BY <1>7 DEF ProbeFails
    <2>2. CASE platform = "unix"
        BY <2>1, <2>2, Killed DEF OnlyOf
    <2>3. CASE KillJob(own[h])
        BY <2>1, <2>3 DEF KillJob
    <2> QED
        BY <2>1, <2>2, <2>3 DEF KillTree
<1>8. ASSUME NEW h \in Handlers, EnsureError(h) PROVE JobInv'
    BY <1>8 DEF EnsureError
<1>9. ASSUME NEW h \in Handlers, EndRequest(h) PROVE JobInv'
    <2>1. /\ hpc[h] = "returned" /\ hpc' = [hpc EXCEPT ![h] = "idle"]
          /\ own' = [own EXCEPT ![h] = 0]
          /\ UNCHANGED <<fixedVars, mu, cmd, born, stopVars, kid, job>>
        BY <1>9 DEF EndRequest
    <2>2. CASE UNCHANGED procVars
        BY <2>1, <2>2
    <2>3. CASE own[h] \in Procs /\ OnlyOf(own[h]) /\ UNCHANGED <<kid, job>>
        BY <2>1, <2>3 DEF OnlyOf
    <2> QED
        BY <1>9, <2>2, <2>3, RequestEnded
<1>10. ASSUME NEW s \in Stoppers, Stop(s) PROVE JobInv'
    BY <1>10 DEF Stop
<1>11. ASSUME NEW s \in Stoppers, NothingToStop(s) PROVE JobInv'
    BY <1>11 DEF NothingToStop
<1>12. ASSUME NEW s \in Stoppers, StopExited(s) PROVE JobInv'
    BY <1>12 DEF StopExited
<1>13. ASSUME NEW s \in Stoppers, StopGrace(s) PROVE JobInv'
    <2>1. victim[s] \in Procs /\ KillTree(victim[s])
        BY <1>13 DEF StopGrace
    <2>2. CASE platform = "unix"
        BY <2>1, <2>2, Killed DEF OnlyOf
    <2>3. CASE KillJob(victim[s])
        BY <2>1, <2>3 DEF KillJob
    <2> QED
        BY <2>1, <2>2, <2>3 DEF KillTree
<1>14. CASE NextPass
    BY <1>14 DEF NextPass
<1>15. CASE Snapshot
    BY <1>15 DEF Snapshot
<1>16. ASSUME NEW p \in Procs, Listen(p) PROVE JobInv'
    BY <1>16 DEF Listen
<1>17. ASSUME NEW p \in Procs, Fork(p) PROVE JobInv'
    BY <1>17 DEF Fork
<1>18. ASSUME NEW p \in Procs, LeaderExits(p) PROVE JobInv'
    BY <1>18 DEF LeaderExits, PortAfter
<1>19. ASSUME NEW p \in Procs, KidsExit(p) PROVE JobInv'
    BY <1>19 DEF KidsExit
<1>20. ASSUME NEW p \in Procs, Reap(p) PROVE JobInv'
    BY <1>20 DEF Reap
<1>21. ASSUME NEW p \in Procs, Release(p) PROVE JobInv'
    BY <1>21 DEF Release, PortAfter
<1>22. CASE UNCHANGED vars
    BY <1>22 DEF vars
<1> QED
    BY <1>1, <1>2, <1>3, <1>4, <1>5, <1>6, <1>7, <1>8, <1>9, <1>10,
       <1>11, <1>12, <1>13, <1>14, <1>15, <1>16, <1>17, <1>18, <1>19,
       <1>20, <1>21, <1>22
       DEF Next, Ensure, StopStep

\* The descendants in a job never outlive both the leader and the job.
THEOREM JobEndsTreeAlways == Spec => []JobEndsTree
<1>1. Init => JobInv
    BY DEF Init, JobInv
<1>2. JobInv => JobEndsTree
    BY DEF JobInv, JobEndsTree
<1> QED
    BY <1>1, <1>2, NumberInvariant, JobStep, PTL DEF Spec

\* The probe is never answered by a service in use other than the one it is for.
THEOREM ProbeAnsweredByAlways == Spec => ProbeAnsweredBy
<1>1. TypeOK /\ NumberInv /\ KeptInv =>
          \A h \in Handlers : hpc[h] = "probing" /\ hpc'[h] = "returned" /\ port # 0
              => port \in {own[h]} \union InStop \/ leader[port] # "running"
    <2> SUFFICES ASSUME TypeOK, NumberInv, KeptInv, NEW h \in Handlers, hpc[h] = "probing",
                        port # 0, leader[port] = "running"
                 PROVE  port \in {own[h]} \union InStop
        OBVIOUS
    <2>1. port \in Procs
        BY SUTAssumption DEF TypeOK, Procs
    <2>2. Kept(port)
        BY <2>1 DEF KeptInv
    <2>3. cmd = 0 /\ mu = h
        BY DEF TypeOK, NumberInv
    <2>4. \A g \in Handlers : hpc[g] \in {"assigning", "probing"} => g = h
        BY <2>3 DEF TypeOK
    <2> QED
        BY <2>1, <2>2, <2>3, <2>4 DEF Kept, InStop, Procs
<1> QED
    BY <1>1, KeptInvariant, PTL DEF ProbeAnsweredBy

LEMMA GivenUp ==
    ASSUME TypeOK, NEW g \in Handlers, hpc[g] = "probing", hpc'[g] = "killing", [Next]_vars
    PROVE  ProbeFails(g)
<1> USE DEF TypeOK, handlerVars
<1>1. ASSUME NEW h \in Handlers, AlreadyUp(h) PROVE ProbeFails(g)
    BY <1>1 DEF AlreadyUp
<1>2. ASSUME NEW h \in Handlers, Start(h) PROVE ProbeFails(g)
    BY <1>2 DEF Start, Launch
<1>3. ASSUME NEW h \in Handlers, StartFails(h) PROVE ProbeFails(g)
    BY <1>3 DEF StartFails
<1>4. ASSUME NEW h \in Handlers, AssignJob(h) PROVE ProbeFails(g)
    BY <1>4 DEF AssignJob
<1>5. ASSUME NEW h \in Handlers, AssignFails(h) PROVE ProbeFails(g)
    BY <1>5 DEF AssignFails, KillTree, KillGroup, KillJob, PortAfter
<1>6. ASSUME NEW h \in Handlers, ProbeOK(h) PROVE ProbeFails(g)
    BY <1>6 DEF ProbeOK
<1>7. ASSUME NEW h \in Handlers, ProbeFails(h) PROVE ProbeFails(g)
    BY <1>7 DEF ProbeFails
<1>8. ASSUME NEW h \in Handlers, EnsureError(h) PROVE ProbeFails(g)
    BY <1>8 DEF EnsureError
<1>9. ASSUME NEW h \in Handlers, EndRequest(h) PROVE ProbeFails(g)
    BY <1>9 DEF EndRequest, PortAfter
<1>10. ASSUME NEW s \in Stoppers, Stop(s) PROVE ProbeFails(g)
    BY <1>10 DEF Stop
<1>11. ASSUME NEW s \in Stoppers, NothingToStop(s) PROVE ProbeFails(g)
    BY <1>11 DEF NothingToStop
<1>12. ASSUME NEW s \in Stoppers, StopExited(s) PROVE ProbeFails(g)
    BY <1>12 DEF StopExited
<1>13. ASSUME NEW s \in Stoppers, StopGrace(s) PROVE ProbeFails(g)
    BY <1>13 DEF StopGrace, KillTree, KillGroup, KillJob, PortAfter
<1>14. CASE NextPass
    BY <1>14 DEF NextPass
<1>15. CASE Snapshot
    BY <1>15 DEF Snapshot
<1>16. ASSUME NEW p \in Procs, Listen(p) PROVE ProbeFails(g)
    BY <1>16 DEF Listen
<1>17. ASSUME NEW p \in Procs, Fork(p) PROVE ProbeFails(g)
    BY <1>17 DEF Fork
<1>18. ASSUME NEW p \in Procs, LeaderExits(p) PROVE ProbeFails(g)
    BY <1>18 DEF LeaderExits, PortAfter
<1>19. ASSUME NEW p \in Procs, KidsExit(p) PROVE ProbeFails(g)
    BY <1>19 DEF KidsExit
<1>20. ASSUME NEW p \in Procs, Reap(p) PROVE ProbeFails(g)
    BY <1>20 DEF Reap
<1>21. ASSUME NEW p \in Procs, Release(p) PROVE ProbeFails(g)
    BY <1>21 DEF Release, PortAfter
<1>22. CASE UNCHANGED vars
    BY <1>22 DEF vars
<1> QED
    BY <1>1, <1>2, <1>3, <1>4, <1>5, <1>6, <1>7, <1>8, <1>9, <1>10,
       <1>11, <1>12, <1>13, <1>14, <1>15, <1>16, <1>17, <1>18, <1>19,
       <1>20, <1>21, <1>22
       DEF Next, Ensure, StopStep

\* Whatever ensureStarted gives up does not leave its group or job behind.
THEOREM GiveUpKillsTreeAlways == Spec => GiveUpKillsTree
<1>1. TypeOK /\ NumberInv /\ [Next]_vars =>
          \A h \in Handlers :
              hpc[h] = "probing" /\ hpc'[h] = "killing" /\ kid'[own[h]] = "in"
                  => platform = "unix" /\ leader[own[h]] = "reaped"
    <2> SUFFICES ASSUME TypeOK, NumberInv, [Next]_vars, NEW h \in Handlers, hpc[h] = "probing",
                        hpc'[h] = "killing", kid'[own[h]] = "in"
                 PROVE  platform = "unix" /\ leader[own[h]] = "reaped"
        OBVIOUS
    <2>1. KillTree(own[h])
        BY GivenUp DEF ProbeFails
    <2>2. own[h] \in Procs
        BY SUTAssumption DEF TypeOK, NumberInv, Procs
    <2>3. ~KillGroup(own[h])
        BY <2>2 DEF KillGroup, TypeOK
    <2>4. ~KillJob(own[h])
        BY <2>2 DEF KillJob, TypeOK
    <2> QED
        BY <2>1, <2>3, <2>4 DEF KillTree
<1> QED
    BY <1>1, NumberInvariant, PTL DEF Spec, GiveUpKillsTree

-----------------------------------------------------------------------------
(* The manager implements SUTService.                                      *)

\* The abstract state, behind names that do not depend on the record.
Recorded == IF RunningLocked THEN "up" ELSE "down"

LEMMA ServiceStep ==
    TypeOK /\ NumberInv /\ [Next]_vars =>
        [Service!SUTServiceNext]_(Service!sutServiceVars)
<1> SUFFICES ASSUME TypeOK, NumberInv, [Next]_vars
             PROVE  Service!SUTServiceNext \/ UNCHANGED <<Recorded, mu>>
    BY DEF Service!sutServiceVars, Recorded
<1> DEFINE Goal == Service!SUTServiceNext \/ UNCHANGED <<Recorded, mu>>
<1> SUFFICES Goal
    OBVIOUS
<1>a. ASSUME cmd' = cmd, mu' = mu,
             \A q \in Procs : leader'[q] = "reaped" <=> leader[q] = "reaped"
      PROVE  Goal
    BY <1>a DEF Recorded, RunningLocked, TypeOK, Procs
<1>b. ASSUME ~RunningLocked, cmd' = 0, mu' = mu
      PROVE  Goal
    BY <1>b DEF Recorded, RunningLocked
<1>c. ASSUME NEW h \in Handlers, mu = h, mu' = Nobody, cmd' = cmd, cmd = 0
      PROVE  Goal
    BY <1>c DEF Service!SUTServiceNext, Service!Fail, RunningLocked
<1> HIDE DEF Goal

<1>1. ASSUME NEW h \in Handlers, AlreadyUp(h) PROVE Goal
    BY <1>1, <1>a DEF AlreadyUp, procVars, TypeOK
<1>2. ASSUME NEW h \in Handlers, Start(h) PROVE Goal
    <2>1. ~RunningLocked /\ mu = Nobody /\ mu' = h /\ cmd' = 0
        BY <1>2 DEF Start, Launch
    <2> QED
        BY <2>1 DEF Goal, Service!SUTServiceNext, Service!Begin, RunningLocked
<1>3. ASSUME NEW h \in Handlers, StartFails(h) PROVE Goal
    BY <1>3, <1>b DEF StartFails, procVars
<1>4. ASSUME NEW h \in Handlers, AssignJob(h) PROVE Goal
    BY <1>4, <1>a DEF AssignJob, procVars, TypeOK
<1>5. ASSUME NEW h \in Handlers, AssignFails(h) PROVE Goal
    BY <1>5, <1>c DEF AssignFails, TypeOK, NumberInv
<1>6. ASSUME NEW h \in Handlers, ProbeOK(h) PROVE Goal
    <2>1. mu = h /\ mu' = Nobody /\ cmd = 0 /\ ~RunningLocked
        BY <1>6 DEF ProbeOK, TypeOK, NumberInv, RunningLocked
    <2>2. RunningLocked' \/ ~RunningLocked'
        OBVIOUS
    <2> QED
        BY <2>1, <2>2 DEF Goal, Service!SUTServiceNext, Service!Succeed, Service!Fail
<1>7. ASSUME NEW h \in Handlers, ProbeFails(h) PROVE Goal
    <2>1. own[h] \in Procs /\ KillTree(own[h]) /\ cmd' = cmd /\ mu' = mu
        BY <1>7, SUTAssumption DEF ProbeFails, TypeOK, NumberInv, Procs
    <2> QED
        BY <2>1, <1>a, Killed DEF OnlyOf
<1>8. ASSUME NEW h \in Handlers, EnsureError(h) PROVE Goal
    BY <1>8, <1>c DEF EnsureError, TypeOK, NumberInv
<1>9. ASSUME NEW h \in Handlers, EndRequest(h) PROVE Goal
    BY <1>9, <1>a DEF EndRequest, procVars, TypeOK
<1>10. ASSUME NEW s \in Stoppers, Stop(s) PROVE Goal
    <2>1. RunningLocked /\ mu = Nobody /\ mu' = mu /\ cmd' = 0
        BY <1>10 DEF Stop
    <2> QED
        BY <2>1 DEF Goal, Service!SUTServiceNext, Service!GoDown, RunningLocked
<1>11. ASSUME NEW s \in Stoppers, NothingToStop(s) PROVE Goal
    BY <1>11, <1>b DEF NothingToStop, procVars
<1>12. ASSUME NEW s \in Stoppers, StopExited(s) PROVE Goal
    BY <1>12, <1>a DEF StopExited, procVars, TypeOK
<1>13. ASSUME NEW s \in Stoppers, StopGrace(s) PROVE Goal
    <2>1. victim[s] \in Procs /\ KillTree(victim[s]) /\ cmd' = cmd /\ mu' = mu
        BY <1>13, SUTAssumption DEF StopGrace, TypeOK, NumberInv, Procs
    <2> QED
        BY <2>1, <1>a, Killed DEF OnlyOf
<1>14. CASE NextPass
    BY <1>14, <1>a DEF NextPass, procVars, TypeOK
<1>15. CASE Snapshot
    BY <1>15, <1>b DEF Snapshot, procVars
<1>16. ASSUME NEW p \in Procs, Listen(p) PROVE Goal
    BY <1>16, <1>a DEF Listen, procVars, TypeOK
<1>17. ASSUME NEW p \in Procs, Fork(p) PROVE Goal
    BY <1>17, <1>a DEF Fork, procVars, TypeOK
<1>18. ASSUME NEW p \in Procs, LeaderExits(p) PROVE Goal
    BY <1>18, <1>a DEF LeaderExits, procVars, TypeOK
<1>19. ASSUME NEW p \in Procs, KidsExit(p) PROVE Goal
    BY <1>19, <1>a DEF KidsExit, procVars, TypeOK
<1>20. ASSUME NEW p \in Procs, Reap(p) PROVE Goal
    <2>1. cmd' = cmd /\ mu' = mu /\ leader' = [leader EXCEPT ![p] = "reaped"]
        BY <1>20 DEF Reap
    <2>2. CASE cmd = p /\ RunningLocked
        <3>1. mu = Nobody
            BY <2>2, SUTAssumption DEF RunningLocked, TypeOK, NumberInv
        <3>2. ~RunningLocked'
            BY <2>1, <2>2 DEF RunningLocked, TypeOK
        <3> QED
            BY <2>1, <2>2, <3>1, <3>2 DEF Goal, Service!SUTServiceNext, Service!GoDown
    <2>3. CASE ~(cmd = p /\ RunningLocked)
        <3>1. RunningLocked' <=> RunningLocked
            BY <2>1, <2>3 DEF RunningLocked, TypeOK
        <3> QED
            BY <2>1, <3>1 DEF Goal, Recorded
    <2> QED
        BY <2>2, <2>3
<1>21. ASSUME NEW p \in Procs, Release(p) PROVE Goal
    BY <1>21, <1>a DEF Release, procVars, TypeOK
<1>22. CASE UNCHANGED vars
    BY <1>22, <1>a DEF vars
<1> QED
    BY <1>1, <1>2, <1>3, <1>4, <1>5, <1>6, <1>7, <1>8, <1>9, <1>10,
       <1>11, <1>12, <1>13, <1>14, <1>15, <1>16, <1>17, <1>18, <1>19,
       <1>20, <1>21, <1>22
       DEF Next, Ensure, StopStep

\* Whatever its processes do, the manager is the service that `Daemon' counts on.
THEOREM ImplementsSUTService == Spec => SUTServiceSpec
<1>1. Init => Service!SUTServiceInit
    BY DEF Init, Service!SUTServiceInit, RunningLocked
<1> QED
    BY <1>1, NumberInvariant, ServiceStep, PTL
       DEF Spec, SUTServiceSpec, Service!SUTServiceSpec

-----------------------------------------------------------------------------
(* The only ways into the two states that the documents rule out.          *)

\* A process that a stop took out of the manager is not recorded again, and it is
\* not one that a handler has just started.
ApartInv ==
    \A s \in Stoppers : victim[s] # 0 =>
        /\ victim[s] # cmd
        /\ \A h \in Handlers :
               hpc[h] \in {"assigning", "probing", "killing"} => own[h] # victim[s]

LEMMA ApartStep == TypeOK /\ NumberInv /\ ApartInv /\ [Next]_vars => ApartInv'
<1> SUFFICES ASSUME TypeOK, NumberInv, ApartInv, [Next]_vars PROVE ApartInv'
    OBVIOUS
<1> USE SUTAssumption
        DEF TypeOK, NumberInv, ApartInv, Procs, procVars, fixedVars, handlerVars, stopVars,
            RunningLocked
<1>1. ASSUME NEW h \in Handlers, AlreadyUp(h) PROVE ApartInv'
    BY <1>1 DEF AlreadyUp
<1>2. ASSUME NEW h \in Handlers, Start(h) PROVE ApartInv'
    BY <1>2 DEF Start, Launch
<1>3. ASSUME NEW h \in Handlers, StartFails(h) PROVE ApartInv'
    BY <1>3 DEF StartFails
<1>4. ASSUME NEW h \in Handlers, AssignJob(h) PROVE ApartInv'
    BY <1>4 DEF AssignJob
<1>5. ASSUME NEW h \in Handlers, AssignFails(h) PROVE ApartInv'
    BY <1>5 DEF AssignFails, KillTree, KillGroup, KillJob, PortAfter
<1>6. ASSUME NEW h \in Handlers, ProbeOK(h) PROVE ApartInv'
    BY <1>6 DEF ProbeOK
<1>7. ASSUME NEW h \in Handlers, ProbeFails(h) PROVE ApartInv'
    BY <1>7 DEF ProbeFails, KillTree, KillGroup, KillJob, PortAfter
<1>8. ASSUME NEW h \in Handlers, EnsureError(h) PROVE ApartInv'
    BY <1>8 DEF EnsureError
<1>9. ASSUME NEW h \in Handlers, EndRequest(h) PROVE ApartInv'
    BY <1>9 DEF EndRequest, PortAfter
<1>10. ASSUME NEW s \in Stoppers, Stop(s) PROVE ApartInv'
    BY <1>10 DEF Stop
<1>11. ASSUME NEW s \in Stoppers, NothingToStop(s) PROVE ApartInv'
    BY <1>11 DEF NothingToStop
<1>12. ASSUME NEW s \in Stoppers, StopExited(s) PROVE ApartInv'
    BY <1>12 DEF StopExited
<1>13. ASSUME NEW s \in Stoppers, StopGrace(s) PROVE ApartInv'
    BY <1>13 DEF StopGrace, KillTree, KillGroup, KillJob, PortAfter
<1>14. CASE NextPass
    BY <1>14 DEF NextPass
<1>15. CASE Snapshot
    BY <1>15 DEF Snapshot
<1>16. ASSUME NEW p \in Procs, Listen(p) PROVE ApartInv'
    BY <1>16 DEF Listen
<1>17. ASSUME NEW p \in Procs, Fork(p) PROVE ApartInv'
    BY <1>17 DEF Fork
<1>18. ASSUME NEW p \in Procs, LeaderExits(p) PROVE ApartInv'
    BY <1>18 DEF LeaderExits, PortAfter
<1>19. ASSUME NEW p \in Procs, KidsExit(p) PROVE ApartInv'
    BY <1>19 DEF KidsExit
<1>20. ASSUME NEW p \in Procs, Reap(p) PROVE ApartInv'
    BY <1>20 DEF Reap
<1>21. ASSUME NEW p \in Procs, Release(p) PROVE ApartInv'
    BY <1>21 DEF Release, PortAfter
<1>22. CASE UNCHANGED vars
    BY <1>22 DEF vars
<1> QED
    BY <1>1, <1>2, <1>3, <1>4, <1>5, <1>6, <1>7, <1>8, <1>9, <1>10,
       <1>11, <1>12, <1>13, <1>14, <1>15, <1>16, <1>17, <1>18, <1>19,
       <1>20, <1>21, <1>22
       DEF Next, Ensure, StopStep

LEMMA ApartInvariant == Spec => []ApartInv
<1>1. Init => ApartInv
    BY DEF Init, ApartInv
<1> QED
    BY <1>1, NumberInvariant, ApartStep, PTL DEF Spec

LEMMA JustlyStep ==
    ASSUME TypeOK, NumberInv, ApartInv, [Next]_vars,
           cmd # 0, cmd' = cmd, leader[cmd] = "running", leader'[cmd] # "running"
    PROVE  Justly
<1> USE SUTAssumption
        DEF TypeOK, NumberInv, ApartInv, Procs, procVars, fixedVars, handlerVars, stopVars
<1>p. cmd \in Procs
    OBVIOUS
<1>1. ASSUME NEW h \in Handlers, AlreadyUp(h) PROVE Justly
    BY <1>1 DEF AlreadyUp
<1>2. ASSUME NEW h \in Handlers, Start(h) PROVE Justly
    BY <1>2 DEF Start, Launch
<1>3. ASSUME NEW h \in Handlers, StartFails(h) PROVE Justly
    BY <1>3 DEF StartFails
<1>4. ASSUME NEW h \in Handlers, AssignJob(h) PROVE Justly
    BY <1>4 DEF AssignJob
<1>5. ASSUME NEW h \in Handlers, AssignFails(h) PROVE Justly
    BY <1>5 DEF AssignFails
<1>6. ASSUME NEW h \in Handlers, ProbeOK(h) PROVE Justly
    BY <1>6 DEF ProbeOK
<1>7. ASSUME NEW h \in Handlers, ProbeFails(h) PROVE Justly
    BY <1>7 DEF ProbeFails
<1>8. ASSUME NEW h \in Handlers, EnsureError(h) PROVE Justly
    BY <1>8 DEF EnsureError
<1>9. ASSUME NEW h \in Handlers, EndRequest(h) PROVE Justly
    <2>1. own[h] = cmd /\ BoundToRequest
        BY <1>9 DEF EndRequest, PortAfter
    <2> QED
        BY <1>9, <2>1 DEF Justly
<1>10. ASSUME NEW s \in Stoppers, Stop(s) PROVE Justly
    BY <1>10 DEF Stop
<1>11. ASSUME NEW s \in Stoppers, NothingToStop(s) PROVE Justly
    BY <1>11 DEF NothingToStop
<1>12. ASSUME NEW s \in Stoppers, StopExited(s) PROVE Justly
    BY <1>12 DEF StopExited
<1>13. ASSUME NEW s \in Stoppers, StopGrace(s) PROVE Justly
    <2>1. victim[s] \in Procs /\ KillTree(victim[s]) /\ victim[s] # cmd
        BY <1>13 DEF StopGrace
    <2> QED
        BY <2>1, Killed DEF OnlyOf
<1>14. CASE NextPass
    BY <1>14 DEF NextPass
<1>15. CASE Snapshot
    BY <1>15 DEF Snapshot
<1>16. ASSUME NEW p \in Procs, Listen(p) PROVE Justly
    BY <1>16 DEF Listen
<1>17. ASSUME NEW p \in Procs, Fork(p) PROVE Justly
    BY <1>17 DEF Fork
<1>18. ASSUME NEW p \in Procs, LeaderExits(p) PROVE Justly
    <2>1. p = cmd
        BY <1>18 DEF LeaderExits, PortAfter
    <2>2. \A s \in Stoppers : victim[s] # p
        BY <2>1
    <2>3. ExitsAlone
        BY <1>18, <2>2 DEF LeaderExits
    <2> QED
        BY <1>18, <2>1, <2>3 DEF Justly
<1>19. ASSUME NEW p \in Procs, KidsExit(p) PROVE Justly
    BY <1>19 DEF KidsExit
<1>20. ASSUME NEW p \in Procs, Reap(p) PROVE Justly
    BY <1>20 DEF Reap
<1>21. ASSUME NEW p \in Procs, Release(p) PROVE Justly
    BY <1>21 DEF Release, PortAfter
<1>22. CASE UNCHANGED vars
    BY <1>22 DEF vars
<1> QED
    BY <1>1, <1>2, <1>3, <1>4, <1>5, <1>6, <1>7, <1>8, <1>9, <1>10,
       <1>11, <1>12, <1>13, <1>14, <1>15, <1>16, <1>17, <1>18, <1>19,
       <1>20, <1>21, <1>22
       DEF Next, Ensure, StopStep

\* No kill that a handler, the reaper or the shutdown sends hits the service that is
\* recorded as running, whatever they took out of the manager or gave up before.
THEOREM RecordedEndsJustlyAlways == Spec => RecordedEndsJustly
<1>1. TypeOK /\ NumberInv /\ ApartInv /\ [Next]_vars =>
          (cmd # 0 /\ cmd' = cmd /\ leader[cmd] = "running"
              /\ leader'[cmd] # "running" => Justly)
    BY JustlyStep
<1> QED
    BY <1>1, NumberInvariant, ApartInvariant, PTL DEF Spec, RecordedEndsJustly

\* The README is right about every service that does not exit by itself, unless its
\* command is bound to the request that starts it.
THEOREM RecordedKeepsRunningUnlessBound ==
    ASSUME ~ExitsAlone, ~BoundToRequest
    PROVE  Spec => RecordedKeepsRunning
<1>1. TypeOK /\ NumberInv /\ ApartInv /\ [Next]_vars =>
          (cmd # 0 /\ cmd' = cmd /\ leader[cmd] = "running" => leader'[cmd] = "running")
    BY JustlyStep DEF Justly
<1> QED
    BY <1>1, NumberInvariant, ApartInvariant, PTL DEF Spec, RecordedKeepsRunning

\* What KillTree leaves of p's descendants.
KidsAfter(p) ==
    /\ \A q \in Procs : q # p => kid'[q] = kid[q]
    /\ \/ kid'[p] = "none"
       \/ leader[p] = "reaped"
       \/ kid'[p] = "out"

LEMMA KilledKids ==
    ASSUME TypeOK, NEW p \in Procs, KillTree(p)
    PROVE  KidsAfter(p)
<1> USE DEF TypeOK, KidsAfter
<1>1. CASE platform = "unix" /\ leader[p] = "reaped" /\ UNCHANGED procVars
    BY <1>1 DEF procVars
<1>2. CASE platform = "unix" /\ KillGroup(p)
    BY <1>2 DEF KillGroup
<1>3. CASE platform = "windows" /\ KillJob(p)
    BY <1>3 DEF KillJob
<1> QED
    BY <1>1, <1>2, <1>3 DEF KillTree

\* After a stop: the leader has been waited for, or its tree is gone but for what was
\* outside of its group or job.
Left(s) ==
    spc[s] = "done" /\ victim[s] # 0 /\ leader[victim[s]] # "reaped" =>
        /\ leader[victim[s]] # "running"
        /\ kid[victim[s]] \in {"none", "out"}
LeftInv == \A s \in Stoppers : Left(s)

LEMMA LeftStep == TypeOK /\ NumberInv /\ LeftInv /\ [Next]_vars => LeftInv'
<1> SUFFICES ASSUME TypeOK, NumberInv, LeftInv, [Next]_vars PROVE LeftInv'
    OBVIOUS
<1> USE SUTAssumption
        DEF TypeOK, NumberInv, LeftInv, Left, Procs, procVars, fixedVars, handlerVars,
            stopVars
<1>1. ASSUME NEW h \in Handlers, AlreadyUp(h) PROVE LeftInv'
    BY <1>1 DEF AlreadyUp
<1>2. ASSUME NEW h \in Handlers, Start(h) PROVE LeftInv'
    BY <1>2 DEF Start, Launch
<1>3. ASSUME NEW h \in Handlers, StartFails(h) PROVE LeftInv'
    BY <1>3 DEF StartFails
<1>4. ASSUME NEW h \in Handlers, AssignJob(h) PROVE LeftInv'
    BY <1>4 DEF AssignJob
<1>5. ASSUME NEW h \in Handlers, AssignFails(h) PROVE LeftInv'
    <2>1. own[h] \in Procs /\ KillTree(own[h])
        BY <1>5 DEF AssignFails
    <2>2. OnlyOf(own[h]) /\ leader'[own[h]] # "running" /\ KidsAfter(own[h])
        BY <2>1, Killed, KilledKids
    <2> SUFFICES ASSUME NEW t \in Stoppers PROVE Left(t)'
        OBVIOUS
    <2>3. CASE victim'[t] = own[h]
        BY <1>5, <2>1, <2>2, <2>3 DEF AssignFails, OnlyOf, KidsAfter
    <2>4. CASE victim'[t] # own[h]
        BY <1>5, <2>1, <2>2, <2>4 DEF AssignFails, OnlyOf, KidsAfter
    <2> QED
        BY <2>3, <2>4
<1>6. ASSUME NEW h \in Handlers, ProbeOK(h) PROVE LeftInv'
    BY <1>6 DEF ProbeOK
<1>7. ASSUME NEW h \in Handlers, ProbeFails(h) PROVE LeftInv'
    <2>1. own[h] \in Procs /\ KillTree(own[h])
        BY <1>7 DEF ProbeFails
    <2>2. OnlyOf(own[h]) /\ leader'[own[h]] # "running" /\ KidsAfter(own[h])
        BY <2>1, Killed, KilledKids
    <2> SUFFICES ASSUME NEW t \in Stoppers PROVE Left(t)'
        OBVIOUS
    <2>3. CASE victim'[t] = own[h]
        BY <1>7, <2>1, <2>2, <2>3 DEF ProbeFails, OnlyOf, KidsAfter
    <2>4. CASE victim'[t] # own[h]
        BY <1>7, <2>1, <2>2, <2>4 DEF ProbeFails, OnlyOf, KidsAfter
    <2> QED
        BY <2>3, <2>4
<1>8. ASSUME NEW h \in Handlers, EnsureError(h) PROVE LeftInv'
    BY <1>8 DEF EnsureError
<1>9. ASSUME NEW h \in Handlers, EndRequest(h) PROVE LeftInv'
    <2>1. UNCHANGED <<fixedVars, kid, stopVars>>
        BY <1>9 DEF EndRequest
    <2>2. CASE UNCHANGED procVars
        BY <2>1, <2>2
    <2>3. CASE own[h] \in Procs /\ OnlyOf(own[h])
        BY <2>1, <2>3 DEF OnlyOf
    <2> QED
        BY <1>9, <2>2, <2>3, RequestEnded
<1>10. ASSUME NEW s \in Stoppers, Stop(s) PROVE LeftInv'
    BY <1>10 DEF Stop
<1>11. ASSUME NEW s \in Stoppers, NothingToStop(s) PROVE LeftInv'
    BY <1>11 DEF NothingToStop
<1>12. ASSUME NEW s \in Stoppers, StopExited(s) PROVE LeftInv'
    BY <1>12 DEF StopExited
<1>13. ASSUME NEW s \in Stoppers, StopGrace(s) PROVE LeftInv'
    <2>1. victim[s] \in Procs /\ KillTree(victim[s])
        BY <1>13 DEF StopGrace
    <2>2. OnlyOf(victim[s]) /\ leader'[victim[s]] # "running" /\ KidsAfter(victim[s])
        BY <2>1, Killed, KilledKids
    <2> SUFFICES ASSUME NEW t \in Stoppers PROVE Left(t)'
        OBVIOUS
    <2>3. CASE victim'[t] = victim[s]
        BY <1>13, <2>1, <2>2, <2>3 DEF StopGrace, OnlyOf, KidsAfter
    <2>4. CASE victim'[t] # victim[s]
        BY <1>13, <2>1, <2>2, <2>4 DEF StopGrace, OnlyOf, KidsAfter
    <2> QED
        BY <2>3, <2>4
<1>14. CASE NextPass
    BY <1>14 DEF NextPass
<1>15. CASE Snapshot
    BY <1>15 DEF Snapshot
<1>16. ASSUME NEW p \in Procs, Listen(p) PROVE LeftInv'
    BY <1>16 DEF Listen
<1>17. ASSUME NEW p \in Procs, Fork(p) PROVE LeftInv'
    BY <1>17 DEF Fork
<1>18. ASSUME NEW p \in Procs, LeaderExits(p) PROVE LeftInv'
    BY <1>18 DEF LeaderExits, PortAfter
<1>19. ASSUME NEW p \in Procs, KidsExit(p) PROVE LeftInv'
    BY <1>19 DEF KidsExit
<1>20. ASSUME NEW p \in Procs, Reap(p) PROVE LeftInv'
    BY <1>20 DEF Reap
<1>21. ASSUME NEW p \in Procs, Release(p) PROVE LeftInv'
    BY <1>21 DEF Release, PortAfter
<1>22. CASE UNCHANGED vars
    BY <1>22 DEF vars
<1> QED
    BY <1>1, <1>2, <1>3, <1>4, <1>5, <1>6, <1>7, <1>8, <1>9, <1>10,
       <1>11, <1>12, <1>13, <1>14, <1>15, <1>16, <1>17, <1>18, <1>19,
       <1>20, <1>21, <1>22
       DEF Next, Ensure, StopStep

\* DESIGN.md is right about every other stop: one that has to kill reclaims the
\* whole group or job, and no descendant appears after it.
THEOREM StopLeavesOnlyAlways == Spec => []StopLeavesOnly
<1>1. Init => LeftInv
    BY DEF Init, LeftInv, Left
<1>2. TypeOK /\ LeftInv => StopLeavesOnly
    BY SUTAssumption DEF TypeOK, LeftInv, Left, StopLeavesOnly, Lives, Procs
<1> QED
    BY <1>1, <1>2, NumberInvariant, LeftStep, PTL DEF Spec
=============================================================================
