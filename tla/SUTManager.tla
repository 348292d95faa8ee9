----------------------------- MODULE SUTManager -----------------------------
(***************************************************************************)
(* daemon/sut_manager.go with both process controls: one managed service   *)
(* under test, started and probed by Acquire handlers under sutManager.mu,  *)
(* stopped by the reaper and by shutdownServer, which wait for it after mu  *)
(* is free again.                                                          *)
(*                                                                         *)
(* SUT processes are numbered in the order they are started.  Each is the  *)
(* leader of a tree with perhaps a descendant (kid), in its process group  *)
(* or job or outside of it: in another group or session, or older than the *)
(* job.  port is the process whose tree listens on the probe addresses.    *)
(* waitCh of a process is readable, for ever, once it is "reaped".         *)
(***************************************************************************)
EXTENDS Naturals, FiniteSets

CONSTANTS
    Handlers,           \* requests that call ensureStarted
    Reaper, Closer,     \* loopReaper and shutdownServer, callers of stop
    Nobody,
    MaxProcs,           \* bound: SUT processes started
    Platforms,          \* the builds to look at: "unix", "windows"
    Forks,              \* may the SUT have descendants
    ExitsAlone,         \* may the SUT exit without being told to
    BoundToRequest      \* does GetCommand use exec.CommandContext (README)

Procs == 1 .. MaxProcs
Stoppers == {Reaper, Closer}

ASSUME SUTAssumption ==
    /\ IsFiniteSet(Handlers) /\ Nobody \notin Handlers /\ Reaper # Closer
    /\ MaxProcs \in Nat
    /\ Platforms \subseteq {"unix", "windows"} /\ Platforms # {}
    /\ {Forks, ExitsAlone, BoundToRequest} \subseteq BOOLEAN

VARIABLES
    platform,           \* runtime.GOOS; it does not change
    addrs,              \* what kinds of address GetProbeAddrs lists; nor does this
    mu,                 \* holder of sutManager.mu
    cmd,                \* sutManager.cmd and waitCh, 0 when nil
    born,               \* processes started so far
    leader, kid, port,
    job,                \* Windows: the handle of a process in sutJobStore
    hpc, own,           \* ensureStarted: where it is, and the process it started
    spc, victim         \* stop: where it is, and the process it took

vars == <<platform, addrs, mu, cmd, born, leader, kid, port, job, hpc, own, spc, victim>>
procVars == <<platform, addrs, leader, kid, port, job>>
fixedVars == <<platform, addrs>>
handlerVars == <<hpc, own>>
stopVars == <<spc, victim>>

\* The ranges, and that mu is held exactly from a start to its outcome.
TypeOK ==
    /\ mu \in Handlers \union {Nobody} /\ cmd \in 0 .. MaxProcs
    /\ born \in 0 .. MaxProcs /\ port \in 0 .. MaxProcs
    /\ platform \in Platforms /\ addrs \subseteq {"good", "bad"}
    /\ leader \in [Procs -> {"unborn", "running", "exited", "reaped"}]
    /\ kid \in [Procs -> {"none", "in", "out"}]
    /\ job \in [Procs -> {"none", "open", "closed"}]
    /\ hpc \in [Handlers -> {"idle", "assigning", "probing", "killing", "returned"}]
    /\ own \in [Handlers -> 0 .. MaxProcs]
    /\ spc \in [Stoppers -> {"idle", "waiting", "done"}]
    /\ victim \in [Stoppers -> 0 .. MaxProcs]
    /\ \A h \in Handlers : hpc[h] \in {"assigning", "probing", "killing"} <=> mu = h

Init ==
    /\ platform \in Platforms /\ addrs \in {{"good", "bad"}, {"bad"}}
    /\ mu = Nobody /\ cmd = 0 /\ born = 0 /\ port = 0
    /\ leader = [p \in Procs |-> "unborn"] /\ kid = [p \in Procs |-> "none"]
    /\ job = [p \in Procs |-> "none"]
    /\ hpc = [h \in Handlers |-> "idle"] /\ own = [h \in Handlers |-> 0]
    /\ spc = [s \in Stoppers |-> "idle"] /\ victim = [s \in Stoppers |-> 0]

\* isRunningLocked: waitCh has nothing to read.
RunningLocked == cmd # 0 /\ leader[cmd] # "reaped"

\* normalizeProbeAddrs drops what is not host:port; waitSUTReady probes the rest.
Probed == addrs \ {"bad"} # {}

\* Whether p's tree still listens when its leader is gone.
PortAfter(p) == port' \in IF port # p THEN {port}
                          ELSE IF kid'[p] # "none" THEN {0, p} ELSE {0}

\* A faulty variant, which only a mutant uses: only the leader is killed.
KillLeader(p) ==
    /\ leader' = [leader EXCEPT ![p] = IF @ = "running" THEN "exited" ELSE @]
    /\ UNCHANGED kid /\ PortAfter(p)
    /\ UNCHANGED <<fixedVars, job>>

\* terminateSUTProcess on Unix: SIGKILL for the whole group while the leader has
\* a pid, and for nothing else; once it is reaped neither the group nor the leader
\* is found.
KillGroup(p) ==
    /\ leader[p] # "reaped"
    /\ leader' = [leader EXCEPT ![p] = "exited"]
    /\ kid' = [kid EXCEPT ![p] = IF @ = "in" THEN "none" ELSE @]
    /\ PortAfter(p)
    /\ UNCHANGED <<fixedVars, job>>

\* terminateSUTProcess on Windows: what is in a job that is still open ends with
\* it.  taskkill /T finds descendants outside only through a leader that lives,
\* which the end of the job may have been faster to kill.
KillJob(p) ==
    /\ job' = [job EXCEPT ![p] = IF @ = "open" THEN "closed" ELSE @]
    /\ leader' = [leader EXCEPT ![p] = IF @ = "running" THEN "exited" ELSE @]
    /\ \/ kid[p] = "out" /\ UNCHANGED kid
       \/ (kid[p] = "out" => leader[p] = "running") /\ kid' = [kid EXCEPT ![p] = "none"]
    /\ PortAfter(p)
    /\ UNCHANGED fixedVars

KillTree(p) ==
    \/ platform = "unix" /\ leader[p] = "reaped" /\ UNCHANGED procVars
    \/ platform = "unix" /\ KillGroup(p)
    \/ platform = "windows" /\ KillJob(p)

-----------------------------------------------------------------------------
(* ensureStarted.                                                          *)

AlreadyUp(h) ==
    /\ hpc[h] = "idle" /\ mu = Nobody /\ RunningLocked
    /\ hpc' = [hpc EXCEPT ![h] = "returned"]
    /\ UNCHANGED <<mu, cmd, born, procVars, own, stopVars>>

Launch(h) ==
    /\ hpc[h] = "idle" /\ ~RunningLocked /\ born < MaxProcs
    /\ born' = born + 1 /\ cmd' = 0 /\ mu' = h
    /\ leader' = [leader EXCEPT ![born'] = "running"]
    /\ own' = [own EXCEPT ![h] = born']
    /\ hpc' = [hpc EXCEPT ![h] = IF platform = "windows" THEN "assigning" ELSE "probing"]
    /\ UNCHANGED <<fixedVars, kid, port, job, stopVars>>

\* A faulty variant, which only a mutant uses: a second caller does not wait for mu.
StartUnlocked(h) == Launch(h)

\* GetCommand and cmd.Start; mu is kept until the outcome is known.
Start(h) == mu = Nobody /\ Launch(h)

\* afterSUTStart on Windows: the process, which runs already, gets its job.
AssignJob(h) ==
    /\ hpc[h] = "assigning" /\ leader[own[h]] = "running"
    /\ job' = [job EXCEPT ![own[h]] = "open"]
    /\ hpc' = [hpc EXCEPT ![h] = "probing"]
    /\ UNCHANGED <<fixedVars, mu, cmd, born, leader, kid, port, own, stopVars>>

\* A faulty variant, which only a mutant uses: the process is not killed.
AssignFailsOnly(h) ==
    /\ hpc[h] = "assigning"
    /\ mu' = Nobody
    /\ hpc' = [hpc EXCEPT ![h] = "returned"]
    /\ UNCHANGED <<cmd, born, procVars, own, stopVars>>

\* One of the four calls fails: the process is killed, and nobody waits for it.
AssignFails(h) ==
    /\ hpc[h] = "assigning"
    /\ KillTree(own[h])
    /\ mu' = Nobody
    /\ hpc' = [hpc EXCEPT ![h] = "returned"] /\ own' = [own EXCEPT ![h] = 0]
    /\ UNCHANGED <<cmd, born, stopVars>>

\* The command, its directory, its log file or its start is no good.
StartFails(h) ==
    /\ hpc[h] = "idle" /\ mu = Nobody /\ ~RunningLocked
    /\ cmd' = 0
    /\ hpc' = [hpc EXCEPT ![h] = "returned"]
    /\ UNCHANGED <<mu, born, procVars, own, stopVars>>

\* waitSUTReady: every address answers, whoever listens there; without addresses
\* 400ms are over, when select may take the timer although waitCh is readable too.
Ready(h) == Probed => port # 0
ProbeOK(h) ==
    /\ hpc[h] = "probing" /\ Ready(h)
    /\ cmd' = own[h] /\ mu' = Nobody
    /\ hpc' = [hpc EXCEPT ![h] = "returned"]
    /\ UNCHANGED <<born, procVars, own, stopVars>>

\* A faulty variant, which only a mutant uses: the process is not killed.
ProbeFailsOnly(h) ==
    /\ hpc[h] = "probing"
    /\ hpc' = [hpc EXCEPT ![h] = "killing"]
    /\ UNCHANGED <<mu, cmd, born, procVars, own, stopVars>>

\* A dial failed, also to a process that listens by now, and the request ended, the
\* process exited or the time is up: forceStopLocked.
ProbeFails(h) ==
    /\ hpc[h] = "probing"
    /\ KillTree(own[h])
    /\ hpc' = [hpc EXCEPT ![h] = "killing"]
    /\ UNCHANGED <<mu, cmd, born, own, stopVars>>

\* A faulty variant, which only a mutant uses: mu is not released.
EnsureErrorLocked(h) ==
    /\ hpc[h] = "killing"
    /\ hpc' = [hpc EXCEPT ![h] = "returned"]
    /\ UNCHANGED <<mu, cmd, born, procVars, own, stopVars>>

\* terminateProcess waits for the end of the process, for 5s at most.
EnsureError(h) ==
    /\ hpc[h] = "killing"
    /\ mu' = Nobody
    /\ hpc' = [hpc EXCEPT ![h] = "returned"] /\ own' = [own EXCEPT ![h] = 0]
    /\ UNCHANGED <<cmd, born, procVars, stopVars>>

\* handleAcquire returns, which cancels the request's context; exec kills the
\* leader of a command that was bound to it.
EndRequest(h) ==
    /\ hpc[h] = "returned"
    /\ hpc' = [hpc EXCEPT ![h] = "idle"]
    /\ own' = [own EXCEPT ![h] = 0]
    /\ UNCHANGED kid
    /\ IF BoundToRequest /\ own[h] # 0 /\ leader[own[h]] = "running"
         THEN /\ leader' = [leader EXCEPT ![own[h]] = "exited"]
              /\ PortAfter(own[h])
         ELSE UNCHANGED <<leader, port>>
    /\ UNCHANGED <<fixedVars, mu, cmd, born, job, stopVars>>

\* handleState: snapshot clears the record of a process that has exited.
Snapshot ==
    /\ mu = Nobody /\ cmd # 0 /\ ~RunningLocked
    /\ cmd' = 0
    /\ UNCHANGED <<mu, born, procVars, handlerVars, stopVars>>

-----------------------------------------------------------------------------
(* stop.                                                                   *)

\* A faulty variant, which only a mutant uses: the record is not cleared.
StopKeeps(s) ==
    /\ spc[s] = "idle" /\ mu = Nobody /\ RunningLocked
    /\ victim' = [victim EXCEPT ![s] = cmd]
    /\ spc' = [spc EXCEPT ![s] = "waiting"]
    /\ UNCHANGED <<mu, cmd, born, procVars, handlerVars>>

\* The process leaves the manager under mu; SIGINT goes to its leader.
Stop(s) ==
    /\ spc[s] = "idle" /\ mu = Nobody /\ RunningLocked
    /\ victim' = [victim EXCEPT ![s] = cmd]
    /\ cmd' = 0
    /\ spc' = [spc EXCEPT ![s] = "waiting"]
    /\ UNCHANGED <<mu, born, procVars, handlerVars>>

NothingToStop(s) ==
    /\ spc[s] = "idle" /\ mu = Nobody /\ ~RunningLocked
    /\ cmd' = 0
    /\ spc' = [spc EXCEPT ![s] = "done"]
    /\ UNCHANGED <<mu, born, procVars, handlerVars, victim>>

\* <-waitCh: the leader has exited, and stop returns.
StopExited(s) ==
    /\ spc[s] = "waiting" /\ leader[victim[s]] = "reaped"
    /\ spc' = [spc EXCEPT ![s] = "done"]
    /\ UNCHANGED <<mu, cmd, born, procVars, handlerVars, victim>>

\* A faulty variant, which only a mutant uses: after gracePeriod stop gives up.
StopGraceGivesUp(s) ==
    /\ spc[s] = "waiting"
    /\ spc' = [spc EXCEPT ![s] = "done"]
    /\ UNCHANGED <<mu, cmd, born, procVars, handlerVars, victim>>

\* gracePeriod is over: terminateProcess, and a wait of 5s at most for the process.
StopGrace(s) ==
    /\ spc[s] = "waiting"
    /\ KillTree(victim[s])
    /\ spc' = [spc EXCEPT ![s] = "done"]
    /\ UNCHANGED <<mu, cmd, born, handlerVars, victim>>

\* The reaper stops the SUT again in a later pass; shutdownServer runs once.
NextPass ==
    /\ spc[Reaper] = "done"
    /\ spc' = [spc EXCEPT ![Reaper] = "idle"]
    /\ victim' = [victim EXCEPT ![Reaper] = 0]
    /\ UNCHANGED <<mu, cmd, born, procVars, handlerVars>>

-----------------------------------------------------------------------------
(* The processes.                                                          *)

Lives(p) == leader[p] = "running" \/ kid[p] # "none"

\* The tree binds the probe addresses, which another one may still hold.
Listen(p) ==
    /\ Lives(p) /\ port = 0 /\ Probed
    /\ port' = p
    /\ UNCHANGED <<fixedVars, mu, cmd, born, leader, kid, job, handlerVars, stopVars>>

\* A descendant is in the process group, if it makes no group or session of its own
\* (setpgid, setsid), or in the job, if there is one by now.
Fork(p) ==
    /\ Forks /\ leader[p] = "running" /\ kid[p] = "none"
    /\ \E where \in IF platform = "unix" THEN {"in", "out"}
                    ELSE IF job[p] = "open" THEN {"in"} ELSE {"out"} :
           kid' = [kid EXCEPT ![p] = where]
    /\ UNCHANGED <<fixedVars, mu, cmd, born, leader, port, job, handlerVars, stopVars>>

\* The leader exits, by itself or after the SIGINT of stop, which Windows cannot
\* deliver; a descendant may live on, and may be the one that listens.
LeaderExits(p) ==
    /\ leader[p] = "running"
    /\ ExitsAlone \/ (platform = "unix" /\ \E s \in Stoppers : victim[s] = p)
    /\ leader' = [leader EXCEPT ![p] = "exited"]
    /\ UNCHANGED kid /\ PortAfter(p)
    /\ UNCHANGED <<fixedVars, mu, cmd, born, job, handlerVars, stopVars>>

KidsExit(p) ==
    /\ kid[p] # "none" /\ ExitsAlone
    /\ kid' = [kid EXCEPT ![p] = "none"]
    /\ port' \in IF port # p THEN {port} ELSE IF leader[p] = "running" THEN {0, p} ELSE {0}
    /\ UNCHANGED <<fixedVars, mu, cmd, born, leader, job, handlerVars, stopVars>>

\* The goroutine that ensureStarted starts once the process has its job.
Waited(p) == platform = "unix" \/ job[p] # "none"

\* cmd.Wait returns, waitCh is sent to and closed.
Reap(p) ==
    /\ leader[p] = "exited" /\ Waited(p)
    /\ leader' = [leader EXCEPT ![p] = "reaped"]
    /\ UNCHANGED <<fixedVars, mu, cmd, born, kid, port, job, handlerVars, stopVars>>

\* A faulty variant, which only a mutant uses: JOB_OBJECT_LIMIT_KILL_ON_JOB_CLOSE
\* is not set, so what is in the job survives the last handle.
ReleaseKeeps(p) ==
    /\ leader[p] = "reaped" /\ job[p] = "open"
    /\ job' = [job EXCEPT ![p] = "closed"]
    /\ UNCHANGED <<fixedVars, mu, cmd, born, leader, kid, port, handlerVars, stopVars>>

\* Its deferred releaseSUTProcess: the job ends with its last handle.
Release(p) ==
    /\ leader[p] = "reaped" /\ job[p] = "open"
    /\ job' = [job EXCEPT ![p] = "closed"]
    /\ kid' = [kid EXCEPT ![p] = IF @ = "in" THEN "none" ELSE @]
    /\ UNCHANGED leader /\ PortAfter(p)
    /\ UNCHANGED <<fixedVars, mu, cmd, born, handlerVars, stopVars>>

-----------------------------------------------------------------------------
Ensure(h) ==
    \/ AlreadyUp(h) \/ Start(h) \/ StartFails(h) \/ AssignJob(h) \/ AssignFails(h)
    \/ ProbeOK(h) \/ ProbeFails(h) \/ EnsureError(h) \/ EndRequest(h)
StopStep(s) ==
    Stop(s) \/ NothingToStop(s) \/ StopExited(s) \/ StopGrace(s)

Next ==
    \/ \E h \in Handlers : Ensure(h)
    \/ \E s \in Stoppers : StopStep(s)
    \/ NextPass \/ Snapshot
    \/ \E p \in Procs : Listen(p) \/ Fork(p) \/ LeaderExits(p) \/ KidsExit(p)
                          \/ Reap(p) \/ Release(p)

Spec == Init /\ [][Next]_vars

-----------------------------------------------------------------------------
(* Properties.                                                             *)

Alive == {p \in Procs : leader[p] = "running"}
InProbe == {own[h] : h \in {g \in Handlers : hpc[g] \in {"assigning", "probing"}}}
InStop == {victim[s] : s \in {t \in Stoppers : spc[t] = "waiting"}}

\* No SUT process runs that nobody will stop: it is the recorded one, or a
\* handler is probing it, or a stop is waiting for it.  Every error path, every
\* forgotten record and every timeout has to see to that.
NoneForgotten == Alive \subseteq {cmd} \union InProbe \union InStop

\* Besides the processes that are being stopped at most one runs: two handlers
\* never start one each, and none is started beside a recorded one.
OneBesidesStopped == Cardinality(Alive \ InStop) <= 1

\* When a stop returns, the process it took out of the manager has exited,
\* although other goroutines may have read the same waitCh or started a new one.
StopEndsVictim ==
    \A s \in Stoppers :
        spc[s] = "done" /\ victim[s] # 0 => leader[victim[s]] # "running"

\* A descendant in the group or job of a process that ensureStarted gave up does
\* not outlive the kill, unless on Unix the leader had been reaped before: then
\* the group can no longer be found.
GiveUpKillsTree ==
    [][\A h \in Handlers :
         hpc[h] = "probing" /\ hpc'[h] = "killing" /\ kid'[own[h]] = "in"
         => platform = "unix" /\ leader[own[h]] = "reaped"]_vars

\* On Windows a descendant in the job outlives its leader only while the job is
\* open, hence until the waiter or a kill closes it: whichever of the two comes
\* first, and also after a graceful exit, which stop takes for the end.
JobEndsTree ==
    platform = "windows" =>
        \A p \in Procs : leader[p] # "running" /\ kid[p] = "in" => job[p] = "open"

\* What of its victim's tree a stop leaves behind: a descendant that outlived a
\* leader whose exit was waited for, or one outside of its group or job.  A stop that
\* has to kill reclaims all the rest, and no descendant appears after it.
StopLeavesOnly ==
    \A s \in Stoppers :
        spc[s] = "done" /\ victim[s] # 0 /\ Lives(victim[s]) =>
            leader[victim[s]] = "reaped" \/ kid[victim[s]] = "out"

\* The recorded process ends by itself, or with the request that it was bound to:
\* no kill by a handler, the reaper or the shutdown, however late, ever hits it,
\* whatever process they took out of the manager or gave up before.
Justly ==
    \/ ExitsAlone /\ LeaderExits(cmd)
    \/ BoundToRequest /\ \E h \in Handlers : own[h] = cmd /\ EndRequest(h)
RecordedEndsJustly ==
    [][cmd # 0 /\ cmd' = cmd /\ leader[cmd] = "running" /\ leader'[cmd] # "running"
       => Justly]_vars

\* The probe tells that some process listens, not which.  It is the one that was
\* started, or what is left of one on its way out: a process that a stop waits
\* for, or descendants of a dead leader.  It never is another service in use.
ProbeAnsweredBy ==
    [][\A h \in Handlers : hpc[h] = "probing" /\ hpc'[h] = "returned" /\ port # 0
         => port \in {own[h]} \union InStop \/ leader[port] # "running"]_vars

\* The manager implements the SUT of `Daemon': a process may die or be taken by a
\* stop at any moment, also between its start and the answer of the probe, yet
\* the manager never counts one as running but by the holder of mu that started it.
Service == INSTANCE SUTService WITH
    Users <- Handlers,
    sut <- IF RunningLocked THEN "up" ELSE "down",
    holder <- mu
SUTServiceSpec == Service!SUTServiceSpec

-----------------------------------------------------------------------------
(* Claims of the documents and comments that the code does not meet.       *)

\* DESIGN.md: stopping the SUT reclaims the whole tree of processes.
StopEndsTree ==
    \A s \in Stoppers : spc[s] = "done" /\ victim[s] # 0 => ~Lives(victim[s])

\* README.md: a SUT that was started by the example's GetCommand runs until it is
\* stopped for lack of use.
RecordedKeepsRunning ==
    [][cmd # 0 /\ cmd' = cmd /\ leader[cmd] = "running" => leader'[cmd] = "running"]_vars

=============================================================================
