----------------------------- MODULE Discovery -----------------------------
(***************************************************************************)
(* How test processes find or start the daemon of their project: the       *)
(* runtime file and the start lock beside it (client/client.go,            *)
(* client/autostart.go, tcdruntime/file.go), against the daemons that      *)
(* write and remove that file and clean up containers by name              *)
(* (daemon/server.go, daemon/cleanup.go).                                  *)
(*                                                                         *)
(* Daemons are numbered in the order they are started.  runtime is the     *)
(* daemon the file names, docker the one whose containers run; 0 is none.  *)
(* Every step is one access to a shared file or to docker, one dial, or    *)
(* one wait.  A project with a fixed port has one address for all its      *)
(* daemons, which only their tokens tell apart.                            *)
(***************************************************************************)
EXTENDS Naturals, FiniteSets

CONSTANTS
    Clients,            \* test processes
    Earlier,            \* a test process of an earlier run, which is dead
    Nobody,
    MaxDaemons,         \* bound: daemons started
    Mortal,             \* test processes that may die while they own the start lock
    MayDie,             \* may a daemon die without its exit path
    SlowBoot,           \* may a daemon take longer to boot than its starter waits
    Ports               \* the kinds of Config.Addr to look at: "random", "fixed"

Daemons == 1 .. MaxDaemons

ASSUME DiscoveryAssumption ==
    /\ IsFiniteSet(Clients) /\ {Earlier, Nobody} \intersect Clients = {}
    /\ Earlier # Nobody
    /\ MaxDaemons \in Nat \ {0}
    /\ Mortal \subseteq Clients /\ {MayDie, SlowBoot} \subseteq BOOLEAN
    /\ Ports \subseteq {"random", "fixed"} /\ Ports # {}

VARIABLES
    addr,               \* Config.Addr of the project; it does not change
    runtime,            \* runtime.json
    lock,               \* runtime.json.start.lock: the process that created it
    aged,               \* is that file older than 90s
    cpc, info, attempt, \* connectOrStart: where, the RuntimeInfo read, the turn
    dpc, listed,        \* Daemon.Start and its end, the containers it found
    docker,
    races               \* history: which of the Races have happened

vars == <<addr, runtime, lock, aged, cpc, info, attempt, dpc, listed, docker, races>>
lockVars == <<addr, lock, aged, races>>
daemonVars == <<dpc, listed, docker>>

\* What the locks and files of a project do not exclude: a lock is removed as stale
\* that was not; a daemon still boots when its starter, or the limit of a dead
\* starter's lock, has given it up; the runtime file of a daemon in service is removed.
Races == {"stolen", "overdue", "misfiled"}
Note(race, happens) == races' = IF happens THEN races \union {race} ELSE races

\* Where a client holds the start lock.
OwnerPCs == {"owner", "recheck", "ownerPurge", "spawn", "booting"}
ClientPCs == OwnerPCs \union
    {"read", "dial", "purge", "lock", "wait", "steal", "after", "dial2",
     "purge2", "failed", "connected", "session", "done", "error", "crashed"}
BootPCs == {"cleanup", "remove", "listen", "write"}
DaemonPCs == BootPCs \union {"unborn", "serving", "stopping", "closed", "gone"}

TypeOK ==
    /\ runtime \in 0 .. MaxDaemons /\ docker \in 0 .. MaxDaemons
    /\ lock \in Clients \union {Earlier, Nobody} /\ aged \in BOOLEAN
    /\ cpc \in [Clients -> ClientPCs] /\ info \in [Clients -> 0 .. MaxDaemons]
    /\ attempt \in [Clients -> 1 .. 2] /\ dpc \in [Daemons -> DaemonPCs]
    /\ listed \in [Daemons -> 0 .. MaxDaemons] /\ addr \in Ports /\ races \subseteq Races

\* Nothing is there, or the lock of a process that died as its owner, or what daemon 1
\* left when the machine went down.
Init ==
    /\ addr \in Ports /\ aged = FALSE /\ races = {}
    /\ listed = [d \in Daemons |-> 0]
    /\ cpc = [c \in Clients |-> "read"] /\ info = [c \in Clients |-> 0]
    /\ attempt = [c \in Clients |-> 1]
    /\ \/ /\ runtime = 0 /\ docker = 0 /\ lock \in {Earlier, Nobody}
          /\ dpc = [d \in Daemons |-> "unborn"]
       \/ /\ runtime = 1 /\ docker = 1 /\ lock = Nobody
          /\ dpc = [d \in Daemons |-> IF d = 1 THEN "gone" ELSE "unborn"]

Listening == {d \in Daemons : dpc[d] \in {"write", "serving", "stopping"}}
\* The address that d wrote accepts a connection, from whatever daemon.
Up(d) == IF addr = "fixed" THEN d # 0 /\ Listening # {} ELSE d \in Listening
Booting == \E d \in Daemons : dpc[d] \in BootPCs

To(c, pc) == cpc' = [cpc EXCEPT ![c] = pc]
\* The RuntimeInfo that was read goes out of scope.
Forget(c) == info' = [info EXCEPT ![c] = 0]
\* tcdruntime.Read, and where to go with and without a result.
ReadRuntime(c, found, none) ==
    IF runtime = 0 THEN To(c, none) /\ UNCHANGED info
                   ELSE To(c, found) /\ info' = [info EXCEPT ![c] = runtime]
InService(d) == dpc[d] \in {"serving", "stopping"}
Purge ==
    /\ runtime' = 0
    /\ Note("misfiled", \E d \in Daemons : runtime = d /\ InService(d))
\* The process that created the lock file does not live any more.
Abandoned == lock = Earlier \/ (lock \in Clients /\ cpc[lock] = "crashed")
\* releaseStartLock removes the file whoever created it.
Unlock == lock' = Nobody /\ aged' = FALSE /\ UNCHANGED addr

-----------------------------------------------------------------------------
(* connectOrStart.                                                         *)

Look(c) ==
    /\ cpc[c] = "read"
    /\ ReadRuntime(c, "dial", "lock")
    /\ UNCHANGED <<runtime, lockVars, attempt, daemonVars>>

\* runtimeAlive, before and after an attempt to start a daemon.
Dial(c) ==
    /\ cpc[c] \in {"dial", "dial2"}
    /\ IF Up(info[c])
       THEN To(c, "connected") /\ UNCHANGED info
       ELSE To(c, IF cpc[c] = "dial" THEN "purge" ELSE "purge2") /\ Forget(c)
    /\ UNCHANGED <<runtime, lockVars, attempt, daemonVars>>

\* os.Remove of a runtime file whose daemon did not answer.
PurgeStale(c) ==
    /\ cpc[c] = "purge"
    /\ Purge /\ To(c, "lock")
    /\ UNCHANGED <<addr, lock, aged, info, attempt, daemonVars>>

\* A faulty variant, which only a mutant uses: the loop has no end.
NextAttemptPast(c) ==
    /\ To(c, "read")
    /\ attempt' = [attempt EXCEPT ![c] = attempt[c] + 1]

\* The end of a turn of the loop.
NextAttempt(c) ==
    /\ To(c, IF attempt[c] = 1 THEN "read" ELSE "error")
    /\ attempt' = [attempt EXCEPT ![c] = 2]

PurgeAgain(c) ==
    /\ cpc[c] = "purge2"
    /\ Purge /\ NextAttempt(c)
    /\ UNCHANGED <<addr, lock, aged, info, daemonVars>>

\* autoStartDaemon returned: its runtime is read ...
AfterStart(c) ==
    /\ cpc[c] = "after" /\ runtime # 0
    /\ ReadRuntime(c, "dial2", "after")
    /\ UNCHANGED <<runtime, lockVars, attempt, daemonVars>>

\* ... or it is waited for in vain.
AfterTimeout(c) ==
    /\ cpc[c] = "after" /\ runtime = 0 /\ (SlowBoot \/ ~Booting)
    /\ NextAttempt(c)
    /\ UNCHANGED <<runtime, lockVars, info, daemonVars>>

\* autoStartDaemon failed: another process may have started a daemon.
StartFailed(c) ==
    /\ cpc[c] = "failed"
    /\ \/ runtime # 0 /\ To(c, "after") /\ UNCHANGED attempt
       \/ runtime = 0 /\ NextAttempt(c)
    /\ UNCHANGED <<runtime, lockVars, info, daemonVars>>

-----------------------------------------------------------------------------
(* autoStartDaemon.                                                        *)

\* A faulty variant, which only a mutant uses: the file is created without O_EXCL.
TryLockShared(c) ==
    /\ cpc[c] = "lock"
    /\ lock' = c /\ aged' = FALSE /\ To(c, "owner")
    /\ UNCHANGED <<addr, races, runtime, info, attempt, daemonVars>>

\* tryAcquireStartLock.
TryLock(c) ==
    /\ cpc[c] = "lock"
    /\ IF lock = Nobody THEN lock' = c /\ aged' = FALSE /\ To(c, "owner")
                        ELSE UNCHANGED <<lock, aged>> /\ To(c, "wait")
    /\ UNCHANGED <<addr, races, runtime, info, attempt, daemonVars>>

\* Its error when the file can be neither created nor found there.
LockFails(c) ==
    /\ cpc[c] = "lock"
    /\ To(c, "failed")
    /\ UNCHANGED <<runtime, lockVars, info, attempt, daemonVars>>

\* A faulty variant, which only a mutant uses: the owner starts a daemon without
\* another look at the runtime file.
OwnerLookNot(c) ==
    /\ cpc[c] = "owner"
    /\ To(c, "spawn")
    /\ UNCHANGED <<runtime, lockVars, info, attempt, daemonVars>>

\* The owner looks at the runtime file again.
OwnerLook(c) ==
    /\ cpc[c] = "owner"
    /\ ReadRuntime(c, "recheck", "spawn")
    /\ UNCHANGED <<runtime, lockVars, attempt, daemonVars>>

\* A faulty variant, which only a mutant uses: the owner does not dial.
RecheckNever(c) ==
    /\ cpc[c] = "recheck"
    /\ UNCHANGED lockVars /\ To(c, "ownerPurge")
    /\ UNCHANGED <<runtime, info, attempt, daemonVars>>

\* A faulty variant, which only a mutant uses: the lock is released with the look that
\* it was taken for, also when a daemon has to be started.
RecheckUnlocks(c) ==
    /\ cpc[c] = "recheck"
    /\ Unlock /\ To(c, IF Up(info[c]) THEN "after" ELSE "ownerPurge") /\ Forget(c)
    /\ UNCHANGED <<races, runtime, attempt, daemonVars>>

\* waitRuntimeAlive for up to 3s.
Recheck(c) ==
    /\ cpc[c] = "recheck"
    /\ IF Up(info[c]) THEN Unlock /\ To(c, "after")
                      ELSE UNCHANGED <<addr, lock, aged>> /\ To(c, "ownerPurge")
    /\ Forget(c)
    /\ UNCHANGED <<races, runtime, attempt, daemonVars>>

OwnerPurge(c) ==
    /\ cpc[c] = "ownerPurge"
    /\ Purge /\ To(c, "spawn")
    /\ UNCHANGED <<addr, lock, aged, info, attempt, daemonVars>>

\* The next daemon begins its Start.
Born ==
    \E d \in Daemons :
        /\ dpc[d] = "unborn" /\ \A e \in 1 .. (d - 1) : dpc[e] # "unborn"
        /\ dpc' = [dpc EXCEPT ![d] = "cleanup"]

\* A faulty variant, which only a mutant uses: the lock is released once the process
\* runs, not once its runtime file is there.
SpawnUnlocked(c) ==
    /\ cpc[c] = "spawn"
    /\ Born /\ Unlock /\ To(c, "booting")
    /\ UNCHANGED <<races, runtime, info, attempt, listed, docker>>

\* buildDaemonCommand and cmd.Start.
Spawn(c) ==
    /\ cpc[c] = "spawn"
    /\ Born /\ To(c, "booting")
    /\ UNCHANGED <<runtime, lockVars, info, attempt, listed, docker>>

SpawnFails(c) ==
    /\ cpc[c] = "spawn"
    /\ Unlock /\ To(c, IF runtime # 0 THEN "after" ELSE "failed")
    /\ UNCHANGED <<races, runtime, info, attempt, daemonVars>>

\* The runtime file appears within 10s, and waitRuntimeAlive for up to 5s.
Booted(c) ==
    /\ cpc[c] = "booting" /\ runtime # 0
    /\ Unlock /\ To(c, IF Up(runtime) THEN "after" ELSE "failed")
    /\ UNCHANGED <<races, runtime, info, attempt, daemonVars>>

\* No runtime file within 10s.
BootTimeout(c) ==
    /\ cpc[c] = "booting" /\ runtime = 0 /\ (SlowBoot \/ ~Booting)
    /\ Unlock /\ To(c, "failed") /\ Note("overdue", Booting)
    /\ UNCHANGED <<runtime, info, attempt, daemonVars>>

\* Somebody else owns the lock, and its daemon's runtime file is there.
WaitRuntime(c) ==
    /\ cpc[c] = "wait" /\ runtime # 0
    /\ To(c, "after")
    /\ UNCHANGED <<runtime, lockVars, info, attempt, daemonVars>>

\* A faulty variant, which only a mutant uses: isStaleStartLock wants the runtime
\* file to exist.
WaitTimeoutInverted(c) ==
    /\ cpc[c] = "wait" /\ runtime = 0
    /\ To(c, IF lock # Nobody /\ aged /\ runtime # 0 THEN "steal" ELSE "lock")
    /\ UNCHANGED <<runtime, lockVars, info, attempt, daemonVars>>

\* 1.5s without a runtime file: isStaleStartLock, and another try.
WaitTimeout(c) ==
    /\ cpc[c] = "wait" /\ runtime = 0
    /\ To(c, IF lock # Nobody /\ aged THEN "steal" ELSE "lock")
    /\ UNCHANGED <<runtime, lockVars, info, attempt, daemonVars>>

\* 3 minutes without the lock.  Its time is not said to come (FairSpec), so that no
\* process counts on it to get past a lock.
GiveUp(c) ==
    /\ cpc[c] = "wait" /\ runtime = 0
    /\ To(c, "failed")
    /\ UNCHANGED <<runtime, lockVars, info, attempt, daemonVars>>

\* os.Remove of the stale lock, or of another one that is there by now.
Steal(c) ==
    /\ cpc[c] = "steal"
    /\ Unlock /\ To(c, "lock")
    /\ Note("stolen", lock # Nobody /\ ~aged)
    /\ UNCHANGED <<runtime, info, attempt, daemonVars>>

CrashOwner(c) ==
    /\ c \in Mortal /\ cpc[c] \in OwnerPCs
    /\ To(c, "crashed") /\ Forget(c)
    /\ UNCHANGED <<runtime, lockVars, attempt, daemonVars>>

\* Nobody else keeps the lock for 90s, by when a daemon has booted that will.
Age ==
    /\ Abandoned /\ ~aged /\ (SlowBoot \/ ~Booting)
    /\ aged' = TRUE /\ Note("overdue", Booting)
    /\ UNCHANGED <<addr, runtime, lock, cpc, info, attempt, daemonVars>>

-----------------------------------------------------------------------------
(* The use of the daemon.                                                  *)

\* Acquire: the first one starts the containers.
Acquire(c) ==
    /\ cpc[c] = "connected" /\ info[c] \in Listening /\ docker \in {0, info[c]}
    /\ docker' = info[c]
    /\ To(c, "session")
    /\ UNCHANGED <<runtime, lockVars, info, attempt, dpc, listed>>

\* The daemon is gone, another one at its address does not know the token, or docker
\* refuses a second container of the same name.
AcquireFails(c) ==
    /\ cpc[c] = "connected"
    /\ info[c] \in Listening => docker \notin {0, info[c]}
    /\ To(c, "error") /\ Forget(c)
    /\ UNCHANGED <<runtime, lockVars, attempt, daemonVars>>

Finish(c) ==
    /\ cpc[c] = "session"
    /\ To(c, "done") /\ Forget(c)
    /\ UNCHANGED <<runtime, lockVars, attempt, daemonVars>>

-----------------------------------------------------------------------------
(* Daemon.Start.                                                           *)

DaemonTo(d, pc) == dpc' = [dpc EXCEPT ![d] = pc]

\* CleanupOrphans lists the containers of a registered name ...
ListOrphans(d) ==
    /\ dpc[d] = "cleanup"
    /\ listed' = [listed EXCEPT ![d] = docker]
    /\ DaemonTo(d, IF docker = 0 THEN "listen" ELSE "remove")
    /\ UNCHANGED <<runtime, lockVars, cpc, info, attempt, docker>>

\* ... and removes those by their ids, waiting for their end; another daemon may
\* have been faster, and what that one started since is not on the list.
RemoveOrphans(d) ==
    /\ dpc[d] = "remove" /\ docker = listed[d]
    /\ docker' = 0 /\ listed' = [listed EXCEPT ![d] = 0]
    /\ DaemonTo(d, "listen")
    /\ UNCHANGED <<runtime, lockVars, cpc, info, attempt>>

\* A port that is configured can be taken by another daemon of the project.
Listen(d) ==
    /\ dpc[d] = "listen"
    /\ addr = "fixed" => Listening = {}
    /\ DaemonTo(d, "write")
    /\ UNCHANGED <<runtime, lockVars, cpc, info, attempt, listed, docker>>

\* The log file, the list, a removal, the port or the runtime file fails, and so
\* does Start; what was removed stays so.
BootFails(d) ==
    /\ dpc[d] \in BootPCs
    /\ listed' = [listed EXCEPT ![d] = 0]
    /\ DaemonTo(d, "gone")
    /\ UNCHANGED <<runtime, lockVars, cpc, info, attempt, docker>>

WriteRuntime(d) ==
    /\ dpc[d] = "write"
    /\ runtime' = d
    /\ DaemonTo(d, "serving")
    /\ UNCHANGED <<lockVars, cpc, info, attempt, listed, docker>>

\* Idle for IdleTTL: shutdownServer stops the containers.
IdleExit(d) ==
    /\ dpc[d] = "serving"
    /\ \A c \in Clients : ~(cpc[c] = "session" /\ info[c] = d)
    /\ docker' = IF docker = d THEN 0 ELSE docker
    /\ DaemonTo(d, "stopping")
    /\ UNCHANGED <<runtime, lockVars, cpc, info, attempt, listed>>

CloseListener(d) ==
    /\ dpc[d] = "stopping"
    /\ DaemonTo(d, "closed")
    /\ UNCHANGED <<runtime, lockVars, cpc, info, attempt, listed, docker>>

\* tcdruntime.Remove, by shutdownServer and by Start.
RemoveRuntime(d) ==
    /\ dpc[d] = "closed"
    /\ Purge /\ DaemonTo(d, "gone")
    /\ UNCHANGED <<addr, lock, aged, cpc, info, attempt, listed, docker>>

Die(d) ==
    /\ MayDie /\ dpc[d] \in {"serving", "stopping", "closed"}
    /\ DaemonTo(d, "gone")
    /\ UNCHANGED <<runtime, lockVars, cpc, info, attempt, listed, docker>>

-----------------------------------------------------------------------------
\* What a test process does unless it dies or gives up.
Connect(c) ==
    \/ Look(c) \/ Dial(c) \/ PurgeStale(c) \/ PurgeAgain(c)
    \/ AfterStart(c) \/ AfterTimeout(c) \/ StartFailed(c)
    \/ TryLock(c) \/ LockFails(c) \/ OwnerLook(c) \/ Recheck(c) \/ OwnerPurge(c)
    \/ Spawn(c) \/ SpawnFails(c) \/ Booted(c) \/ BootTimeout(c)
    \/ WaitRuntime(c) \/ WaitTimeout(c) \/ Steal(c)
Boot(d) ==
    ListOrphans(d) \/ RemoveOrphans(d) \/ Listen(d) \/ WriteRuntime(d) \/ BootFails(d)

Next ==
    \/ \E c \in Clients : \/ Connect(c) \/ GiveUp(c) \/ CrashOwner(c)
                          \/ Acquire(c) \/ AcquireFails(c) \/ Finish(c)
    \/ \E d \in Daemons : \/ Boot(d) \/ IdleExit(d) \/ CloseListener(d)
                          \/ RemoveRuntime(d) \/ Die(d)
    \/ Age

Spec == Init /\ [][Next]_vars

\* Processes that can go on do, and time goes by.  Nothing makes a session
\* begin or end, a process die or a daemon exit.
FairSpec ==
    /\ Spec /\ WF_vars(Age)
    /\ \A c \in Clients : WF_vars(Connect(c))
    /\ \A d \in Daemons : WF_vars(Boot(d))

-----------------------------------------------------------------------------
(* Properties.                                                             *)

Owners == {c \in Clients : cpc[c] \in OwnerPCs}

\* The lock file, created with O_EXCL and removed without a look at who created it,
\* has at most one living owner, also after owners have died and their locks were
\* taken for stale: until the one race in which two processes find the same lock
\* stale and the second one removes the first one's.
OneOwner == "stolen" \notin races => Cardinality(Owners) <= 1

\* A lock that is in the way is that of a process on its way to release it, or of one
\* that died and whose lock grows stale: no early return and no theft leaves a lock
\* whose creator lives on without it, behind which the others would wait in turn.
LockIsSomebodys == lock # Nobody => Abandoned \/ lock \in Owners

\* Started on a clean machine, and as long as no daemon exits and no boot fails, any
\* number of test processes start one daemon between them, also when some of
\* them die at it.
LockHeld == races \intersect {"stolen", "overdue"} = {}
OneDaemon ==
    LockHeld /\ (\A d \in Daemons : dpc[d] \notin {"stopping", "closed", "gone"})
        => Cardinality({d \in Daemons : dpc[d] # "unborn"}) <= 1

\* Daemons boot one after the other, so two never list and remove containers at the
\* same time, nor write the one temporary file that Write has for the project:
\* the starter keeps the lock until the runtime file is there or the boot is over.
BootsOneByOne ==
    LockHeld => Cardinality({d \in Daemons : dpc[d] \in BootPCs}) <= 1

\* The owner removes the runtime file only after a dial that failed, and nothing
\* that happens in between makes the removed file that of a daemon in service:
\* all others that could start one wait for the lock.
OwnerSparesHealthy ==
    [][LockHeld => \A c \in Clients :
         cpc[c] = "ownerPurge" /\ cpc'[c] = "spawn" /\ runtime # 0
             => ~InService(runtime)]_vars

\* connectOrStart comes to an end in every process, with a daemon or an error,
\* whatever owners of the lock and daemons die, boot in vain or exit meanwhile: it
\* is not the deadline of 3 minutes that gets a process past a dead owner's lock.
Settled(c) == cpc[c] \in {"connected", "session", "done", "error", "crashed"}
AllSettle == \A c \in Clients : <>Settled(c)

-----------------------------------------------------------------------------
(* Claims of the documents and comments that the code does not meet.       *)

\* DESIGN.md: all test processes share one set of containers, which is not
\* created twice.  Nobody takes away the containers of a daemon in use.
Keeps(c) ==
    cpc[c] = "session" /\ docker = info[c] /\ Up(info[c]) => docker' = docker
SharedContainersStay == [][\A c \in Clients : Keeps(c)]_vars

\* What holds of it: the three races are the only ways.  Exits, deaths, failed boots,
\* ports that are taken and stale files that are removed do not get there.
SharedUnlessRaced == [][races = {} => \A c \in Clients : Keeps(c)]_vars

=============================================================================
