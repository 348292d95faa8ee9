# testcontainerd in TLA+

testcontainerd lets the test processes of one `go test ./...` share one set of containers
and one service under test (SUT). The first process starts a daemon, all of them ask it for
a lease, and the daemon brings the environment up, keeps it while somebody uses it, and
takes it down when nobody does. This directory models that code, model-checks it with TLC
and proves its safety properties with TLAPS. Line numbers refer to the repository's sources.

## 1. Inventory

### The parts, their state, their operations

| part | sources | state | operations | module |
|---|---|---|---|---|
| lease store | `daemon/lease_store.go`, `constant/lease.go` | map of leases with `ExpireAt`, under a mutex | acquire, heartbeat, release, activeCount, gc | `LeaseStore` |
| HTTP handlers | `daemon/server.go` | `acquireInFlight` | handleAcquire, handleHeartbeat, handleRelease, handleState | `Daemon` |
| reaper | `daemon/server.go:248-296` | ticker, `idleSince`, `sutIdleSince`, the `now` of a pass | one pass per tick | `Daemon` |
| lifecycle | `daemon/lifecycle.go`, `daemon/server.go:298` | `startMu`, `infraStarted`, `shutdownOnce`, `done` | ensureInfraStarted, stopContainersOnly, shutdownServer, Start | `Daemon` |
| client session | `testcontainerd.go:192`, `client/heartbeat.go`, `client/client.go` | lease id, heartbeat ticker | Acquire, StartHeartbeat, Run, Release | `Daemon` |
| container bundle | `container/bundle.go` | `started`, `startOrder`, `cleanup`, instances | StartAll, InitAll, rollback, StopAll | `Bundle` |
| SUT manager, process control of both builds | `daemon/sut_manager.go`, `daemon/process_control_unix.go`, `daemon/process_control_windows.go` | `mu`, `cmd`, `waitCh`; on Windows `sutJobStore` | ensureStarted, stop, snapshot; prepare, assign a job, terminate, release | `SUTManager` |
| discovery, auto-start | `client/client.go:92`, `client/autostart.go`, `tcdruntime/file.go` | the runtime file, the start lock beside it | connectOrStart, autoStartDaemon, Read, Write, Remove | `Discovery` |
| orphan cleanup | `daemon/cleanup.go` | none (docker's) | CleanupOrphans: list, remove each, wait | `Discovery` |
| entry, configuration | `testcontainerd.go`, `daemon.New`, `mergeEnv`, `withAuth` | configuration, environment, token | New, normalizeGlobal, Run, runDaemonMode, runClientMode | `Entry` |
| runtime paths, logs | `tcdruntime/path.go`, `tcdruntime/log.go` | none | DefaultRuntimePath, sanitizeProject | `Entry`, without logs |
| protocol, constants, options, examples, tests | the rest | none | | not modelled |

### How they interact

A test process reads the runtime file, dials the address in it and, when nobody answers,
competes for the start lock to spawn a daemon. The daemon removes left-over containers,
listens and writes the file. Then the process sends Acquire: the handler raises
`acquireInFlight`, starts the bundle under `startMu`, starts and probes the SUT under
`sutManager.mu`, stores the lease, lowers the counter and answers. Heartbeats renew the
lease and Release ends it. Concurrently, every 2s the reaper reads the clock, collects
expired leases, reads the lease count, then the counter, and on idleness stops first the SUT
and later the whole daemon. A signal runs the same shutdown in another goroutine.

### What is hard

 - The reaper takes four separate looks (clock, count, counter, idle timers) and may be
   blocked for seconds between two of them by stopping the SUT.
 - Acquire is served until the listener closes, so in all of a shutdown.
 - `startMu` and `sutManager.mu` are held while containers start and probes wait.
 - Clients die, time out while their handler goes on, and lose messages.
 - The stop of a SUT gives `mu` back before the process has exited; its descendants have a
   life of their own; the probe sees a port, not a process.
 - Containers start in a pool that can be cut short at any point by the first failure or by
   the end of the request; the clean-up may fail as well.
 - The runtime file and the start lock are shared files read, dialled and removed in
   separate steps by processes that may die between them.

### What makes each part correct

 - leases: an attentive process keeps its lease; a dead one loses it; a lease never comes
   back; a process is served only when the environment is up;
 - reaper and lifecycle: nobody past the start of the environment loses it before a shutdown
   begins; start and stop exclude each other; an unused daemon exits;
 - bundle: no container is forgotten except by docker's own failure; Inits see all
   containers; containers go in reverse order; flags agree with docker;
 - SUT: no process runs that nobody will stop; at most one besides those being stopped; stop
   waits for the process; giving up kills the group;
 - discovery: one owner of the lock, one daemon, boots one by one, healthy files spared by
   the owner; every process gets past dead owners and failed boots;
 - entry: a test and the daemon it spawns, which are one binary, agree on who is what, on
   the runtime file and on the token; packages of a project share a daemon, other projects
   do not.

## 2. The modules

`LeaseService` is the abstract specification: a service that is cold, serving or closing,
and grants each process at most one lease that never comes back, and never while it is cold.
`Daemon` implements it (`ServiceSpec`, with `held` mapped to itself, the phase to `shut` and
`infraStarted`, and the ended leases to the handlers that stored one whose lease is not in
the table any more).

`LeaseStore` is the table with the operations as formulas; `Daemon` EXTENDS it and composes
it with handlers, reaper, shutdown and client sessions. Goroutines are program counters:
`hpc[c]` is the handler of process `c`, `reaper` is loopReaper, `shut` is shutdownServer,
`cpc[c]` is the test process. An action is the code between two points where another
goroutine can be noticed, so both mutexes, the blocking calls and each shared counter have a
step of their own. Time is discrete and relative: `expiry`, `due`, `idleSince` and
`sutIdleSince` are times left or ages that saturate; `Tick` lets one unit go by; `lag` is
the age of the `now` a reaper pass has read. `StartAll`, `StopAll` and the SUT are one
outcome each here (up, down, partial, crowded; up, down), which `Bundle` and `SUTManager`
open.

`Bundle` is StartAll (the producer, `Workers` workers, the error that cancels the pool, the
collector, the undo), the Inits, rollback and StopAll, called by the daemon under startMu,
one call at a time. A container is the pair of its registration and the StartAll call that
created it; `docker` is the set of those that really run, `left` of those docker kept
although it was asked to remove them, `ctxDone` tells whether the request is over. Of the
registrations in `Named`, whose Start asks for a docker name as `options.go:11` recommends,
docker refuses a second container; of the others, like that of `README.md:56-64`, it runs
both.

`Environment` is what the daemon may assume of the containers: one call at a time, which
brings them up or takes them down or leaves them partly there, and a flag. `Bundle`
implements it: its property `EnvironmentSpec` maps docker to `env`, `infraStarted` to the
flag and the call under way to `busy`. If all containers have names (`AllNamed`), one that a
failed start leaves is in the way of every later start; otherwise the environment may come
up besides it (`crowded`). `Daemon` satisfies the same specification with its own
`containers`, so every outcome `Daemon` allows is one the abstract environment allows, and
neither side assumes more than the other gives. `SUTService` does the same for the SUT
between `SUTManager` and `Daemon`: it comes up only by the hand of one holder of the lock,
and may go down whenever nobody holds it.

`SUTManager` is ensureStarted, stop and the waiter goroutine, with the process control of
both builds (`platform`). Processes are numbered as they are started; each leads a tree with
at most one descendant, inside its process group or job or outside of it (`kid`: on Windows
one forked before the job was assigned, on Unix one that left the group), and `port` is the
process whose tree answers the probe. On Windows a process gets its job after its start, by
calls that may fail; `job` is the handle of which the waiter and a kill take whoever comes
first, and with it go the descendants inside. Where `Daemon` makes the SUT vanish in one
step, here `victim` is taken out of the manager first and exits later.

`Discovery` is connectOrStart and autoStartDaemon one file access, one dial or one wait at a
time, against daemons that list and remove orphans, listen on a random or a configured port,
write the file, serve, exit and remove it, and may fail at each step of their boot. A wait
with a time limit is a step to success when what it waits for is there, and a step to
failure that needs it to be absent and, unless `SlowBoot`, no daemon to be booting. The
limit of 3 minutes for the wait at a lock may always be over (`GiveUp`); creating the lock
may fail for another reason than that it exists (`LockFails`). The lock may be that of a
process of an earlier run (`Earlier`), and owners may die. A RuntimeInfo that went out of
scope is forgotten. `races` is a history variable: `stolen`, a lock was removed as stale
that was not; `overdue`, a daemon still booted when its starter, or the limit of a dead
starter's lock, had given it up; `misfiled`, the runtime file of a daemon in service was
removed. The properties of the lock hold until the first or the second, `SharedUnlessRaced`
until any of them, which says that these races are the only ways to break them.

`Entry` goes from a configuration to a session: New, Run, what a client hands to the daemon
it spawns, and the checks that daemon makes again. A string is a record of the text between
its blanks, a sequence of `Characters` (a word of a path counts as one), and whether there
are blanks around it. That is all that TrimSpace, comparison with "", sanitizeProject and
the joining of paths look at. New makes all its checks, those of the times and of the
registrations too. How a starter is elected is left to `Discovery`; here a
process spawns if there is no file and no other process waits at the same one.

The `MC` modules declare the model values and symmetry. Operators named in `mutants` of
PROJECT.json (`ExpiredEarly`, `TryLockShared`, ...) are faulty variants of the definition
that follows them; no specification uses them, and each shows that one property can fail.

## 3. The runs

| run | question | bounds |
|---|---|---|
| `daemon_safety` | the safety properties of the daemon, that no mutex is waited for in vain, that it implements `LeaseService` and uses the SUT as `SUTService` allows | 2 processes, one prompt and one not; TTL 2, heartbeat 1, reaper period 2, idle 2, SUT idle 1, a pass may take 1 unit; some containers have no docker name |
| `daemon_live` | does the daemon exit, reclaim and answer | the same processes, all times 1 except the TTL, no SUT, passes in no time |
| `bundle_safety` | is a start or stop ever half done without anybody knowing; does every call return; does it implement `Environment` | 4 registrations, two of them with docker names, 2 workers, 3 StartAll calls; Inits of 1 and 3; Start may leak and Terminate fail |
| `sut_safety` | are processes lost, doubled or left, or killed while in use; does it implement `SUTService` | 2 handlers, reaper and closer, 3 processes, both builds, good probe addresses or none that is usable, forks and exits of their own |
| `discovery` | who owns the lock, who starts a daemon, who removes the file, who takes containers away; does every process settle | 2 processes with 2 attempts, one of which may die as owner, 3 daemons, all may die; clean machine, crashed machine or stale lock; both kinds of port; no boot takes longer than its starter waits |
| `entry` | who is a daemon, which file and token do client and daemon come to | 2 test processes and their daemons; any two of 23 configurations, 2 directories, 4 environments |
| `claim_...` (6) | the documents' claims that the code does not meet | see section 5 |

A passing run takes seconds, except `daemon_safety`, `daemon_live`, `discovery`, `entry` and
`sut_safety`, which take one to four minutes.

Why the bounds suffice. Every race found or excluded here is between two clients, or a
client and one of reaper, shutdown, daemon; a third client adds no new pair of program
counters. Two processes contend for both mutexes, one can go on with heartbeats while the
other dies, and three daemons let one be old, one healthy and one a double. Four
registrations on two workers make two wait, let one fail while another runs and a third is
dropped, and leave two to undo in reverse after one that docker keeps; two with and two
without a docker name let a retry be refused and let it run besides what is left. Three SUT
processes are one being stopped by the reaper, one by the closer, and one new. In
`daemon_safety` a unit is a second and the times are the code's own: heartbeat 1s, TTL 2s,
reaper period 2s; the idle times are the smallest that can elapse between two passes, and a
pass may take half a period. The 23 configurations of `entry` vary one field at a time over
absent, blank, padded and plain values, relative and absolute paths, names that
sanitizeProject maps to one, and each way to fail a check of New. `discovery` has `SlowBoot`
FALSE because of its liveness property; its safety properties were also explored with TRUE,
where boots are overdue. For the safety properties the proofs of section 4 remove the bounds
altogether.

Deadlock checking is off in all runs, because the modelled system may stop: the daemon
process ends, all calls are made, all test processes are done. That nothing gets stuck
before is what `QuietThenExit`, `AcquireAnswered`, `CallReturns` and `AllSettle` say, and
`NobodyStuck` of the two mutexes. `daemon_live` has neither SUT nor slow passes, because its
state space with them takes longer than the run may; `QuietThenExit` was also explored for
one process with a SUT and passes of up to two units, and `NobodyStuck` covers
`sutManager.mu` in `daemon_safety`.

Fairness. In `Daemon`: handlers, reaper and shutdown run when they can (goroutines), and
StartAll, the probe and the stop of a SUT return, because each has a timeout or a request's
context in the code; replies and the messages of prompt processes travel; time goes by. Weak
fairness is enough for the mutexes because each is free again for good between two uses once
the finitely many handlers are through. Nothing makes a process call, finish, crash or time
out, a message get lost or a signal arrive. In `Bundle`: workers and calls make progress;
the request need not end. In `Discovery`: clients that can act do (every wait there has a
time limit), daemons boot or fail to, and the lock of a dead owner grows old; the limit of 3
minutes has no fairness, so that `AllSettle` does not hold by giving up. `SUTManager`
and `Entry` state safety only.

## 4. The proofs

`DaemonProofs` proves, for every set of processes, every choice of prompt ones and all
timing constants, from `DaemonAssumption` (finitely many clients, 0 < HeartbeatInterval <
LeaseTTL, positive periods) and `LeaseTTLAssumption`:

 - `TypeCorrect`: `TypeOK`, by one step per action. It is needed by all the others: the
   ranges of the timers are what the arithmetic rests on.
 - `InFlightCorrect`: `InFlightExact`. `TypeOK` and the property are inductive together; the
   lemmas `AddOne` and `RemoveOne` turn each change of a handler's counter into a change of
   cardinality. The theorem about `ReaperSparesBusySUT` below rests on it.
 - `PromptLeaseKeptAlways`: `PromptLeaseKept`. By itself it is not inductive. `PromptInv`
   adds the margin: while running, what is left of the lease plus one heartbeat interval is
   at least the TTL plus the time until the next heartbeat (0 when one is on the wire), and
   between the store of the lease and its receipt the TTL is untouched. Hence
   HeartbeatInterval < LeaseTTL suffices.
 - `ReaperSparesSettledAlways`: `ReaperSparesSettled`, with `ReaperInv`: after gc all
   entries are unexpired as of `now`, so a count of zero leaves only entries stored later.
 - `EnvironmentStaysAlways`, `StartStopExclusiveAlways`: with `InfraInv`, which relates the
   holder of `startMu`, the flag, docker and the program counters until the containers have
   been stopped.
 - `LeaseEndsJustlyAlways`: an action property, from the shape of each step.
 - `DaemonImplementsService`: initial states map to initial states, and every step to a step
   of `LeaseService` or a stutter; `InfraInv` gives that no lease is stored in the cold
   phase.
 - `DaemonUsesEnvironment`, `DaemonUsesSUTService`: the handlers and the shutdown call
   containers and SUT as the two abstract specifications allow. The exclusion comes from the
   holders of the two mutexes in `InfraInv` and `SUTInv`, the outcomes from the steps.
 - `NobodyStuckAlways`: `NobodyStuck`, from `InfraInv` and `SUTInv`: whoever waits for one
   of the two mutexes waits for one who waits for nobody. `AcquireGoesForwardAlways`: every
   step of a handler lowers the number of steps it has left, and nobody raises it. Together
   they are what `AcquireAnswered` rests on besides fairness.
 - `AbandonedOnlyAgesAlways`: what `AbandonedLeaseReclaimed` rests on: nothing renews the
   lease of a process that is gone once no heartbeat is on the wire. It needs that a process
   with a lease is past its store.acquire (`InfraInv`).
 - `NothingLeftUnlessLate`, `ReaperSparesBusyUnlessLate`: two claims that fail (section 5)
   hold in every run without the one thing that breaks them: a handler that brings something
   up after the shutdown has dealt with it (`NoLateStart`, with the invariant `DownInv`); an
   Acquire between the reaper's look at the counter and the stop (`NoArrivalBeforeStop`).

`BundleProofs`: for every number of registrations, workers and StartAll calls, any set of
Inits and of docker names, any docker. `BundleInv` says of each container that runs who is
going to remove it, by the call that is under way: the pool (`CreatingInv`), the undo
(`UndoInv`), the recordings (`InitInv`, `DownInv`), or nobody, because docker was asked in
vain (`left`); between calls `NoneInv`. `OrderInv` has that the recordings are those of one
call after the other, each in the order of the registrations, and none twice; `DockerInv`
that there is one container of a docker name. That StartAll records a prefix of the
registrations is the lemma `RecordedPrefix`, from the smallest registration without a
container. From it: `TypeOK`, `NothingForgotten`, `InitSeesAll`, `StartedMeansAll`,
`ContainersListsRunning`, the action property `ReverseOrder`, and that `Bundle` implements
`Environment`.

Three more theorems say what `CallReturns` rests on besides fairness: every step of a call
lowers `StepsLeft` (`CallShrinks`), and some step of the call can be taken until it has
returned (`CallGoesOn`, with `LoopInv`, which says of producer, workers and collector who
still has what for whom). And `NextStartIsCleanUnlessCancelled`: the claim
`NextStartIsClean` holds whenever docker does what it is told and no request ends before its
call, so that what section 5 says is the only other reason.

`SUTManagerProofs`: for any handlers and number of processes, both builds, forks, exits and
bound commands. `NumberInv` ties the numbers of processes to the places that hold them,
`KeptInv` has that record, holder of `mu` and stops cover all running processes, `JobInv`
that a descendant in a job is in an open one. From them: `TypeOK`, `NoneForgotten`,
`OneBesidesStopped`, `StopEndsVictim`, `JobEndsTree`, `ProbeAnsweredBy`, `GiveUpKillsTree`,
and that `SUTManager` implements `SUTService`. `ApartInv` has that what a stop took out of
the manager is neither recorded again nor in the hands of a handler; hence no kill hits the
recorded SUT (`RecordedEndsJustly`), and `RecordedKeepsRunning` holds for one that does not
exit by itself and is not bound to a request. `LeftInv` follows a tree past the end of its
stop: a descendant that still lives is one of a leader whose exit was waited for, or outside
of its group or job (`StopLeavesOnly`).

`DiscoveryProofs`: for any clients and daemons, ports, deaths and durations of a boot.
`LockInv` (the file names the one living owner) gives `OneOwner`. `BootInv` (while a daemon
boots, its starter, dead or alive, keeps the lock, and there is no runtime file) gives
`BootsOneByOne`. `LookInv` adds what an owner knows of the file from its second look on, for
`OwnerSparesHealthy`, and `ServeInv` that without an exit or a failure the file names the
one that serves, for `OneDaemon`. `FileInv` has that until a race a daemon in service is the
one the file names, so that the daemon that would remove the containers of another one does
not boot beside it: `SharedUnlessRaced`. None of them assumes anything of the durations; the
properties themselves say until which race they hold. `LockIsSomebodys` (a lock in the way
has an owner on its way to release it, or a dead one) and `ConnectGoesForward` (each step
takes a process forward, but for the loop that waits for the lock) are what `AllSettle`
rests on besides fairness.

`EntryProofs`: for any tests, configurations over any texts, directories and environments.
`RangeInv` types everything, `PathInv` and `SpawnInv` follow the path from the configuration
through the environment into the daemon, `FileInv` and `ReadInv` have that what is in a
file, and what a client has read of it, is what a daemon wrote. From them: `TypeOK`,
`SpawnedServes`, `ProjectShares`, `ProjectsApart` (sanitizeProject keeps plain names, of any
length, and so keeps them apart) and `TokenAccepted`.

The constants' assumptions are stated, named, in the modules that declare them. Each
invariant was explored by TLC before it was proved. All invariants, action properties and
refinements of the passing runs are proved. Only model-checked: what needs fairness, because
the prover has neither ENABLED nor a rule for weak fairness: `QuietThenExit`,
`AbandonedLeaseReclaimed`, `AcquireAnswered`, `CallReturns`, `AllSettle`. Of all but the
first, the bound on the steps and the absence of a stuck state are proved as said above.
Proved and, after they were explored by TLC, in no run any more: `InFlightExact`, on which
`ReaperSparesBusyUnlessLate` depends; `LeaseEndsJustly`, which `ServiceSpec` goes beyond;
`LockIsSomebodys`, without which `AllSettle` fails; `GiveUpKillsTree`; and that `Daemon`
satisfies `Environment`, which the runs show of `Bundle`.

## 5. Where code and documents disagree

Each has a run whose counterexample shows it, and an entry under `findings`; the theorem
named with it says what is true of the claim.

 - `ReaperSparesBusySUT`: between the reaper's look at `acquireInFlight` and the stop of the
   SUT an Acquire can find or start the SUT (`server.go:270-282`);
   `ReaperSparesBusyUnlessLate`.
 - `NothingLeft`: an Acquire after stopContainersOnly starts everything again and the
   process ends over it (`lifecycle.go:34`); `NothingLeftUnlessLate`.
 - `NextStartIsClean`: the rollback runs under the request's context, so the end of that
   request is also the end of the clean-up (`bundle.go:90`);
   `NextStartIsCleanUnlessCancelled`.
 - `StopEndsTree`: after a graceful exit of the leader nobody kills its group
   (`sut_manager.go:177`); `StopLeavesOnlyAlways`.
 - `RecordedKeepsRunning`: with the README's GetCommand the SUT is bound to the context of
   one Acquire (`sut_manager.go:84`); `RecordedKeepsRunningUnlessBound`.
 - `SharedContainersStay`: the removal of a stale runtime file without the lock can hit a
   new one, and lead to a second daemon that removes the containers in use
   (`client.go:103`). `Discovery` has more ways to the same end: a boot that takes longer
   than 10s (`autostart.go:59`), two waiters that both find the lock stale
   (`autostart.go:75`), an exiting daemon that removes its successor's file
   (`server.go:310`), and a configured port that is found taken only after the clean-up
   (`server.go:104`). `SharedUnlessRacedAlways` has that none does without a stolen lock, an
   overdue boot or the removal of a file in service.

Further ones the models contain, explored while building them, which have no run: two
waiters that both find a lock stale become owners at once, against the comment at
`autostart.go:22` (`OneOwner` holds until then); a boot slower than 10s is followed by
another one beside it, against `DESIGN.md:277` (`BootsOneByOne` holds until then); a handler
past ensureInfraStarted is served after a shutdown took the containers down
(`server.go:304`); a reaper pass takes an active lease for none, against `DESIGN.md:248`,
because it reads the count before and the counter after the handler moved from one to the
other (`server.go:262`), and by `ReaperSparesSettled` such a lease was stored after the pass
had read the clock; an Acquire between the two stops of a shutdown starts the SUT again, and
it loses its containers (`server.go:303`); idleness is sampled, so a session between two
passes does not restart `IdleTTL` (`README.md:160`, `README.md:97`); while a SUT is being
stopped another may run beside it (`DESIGN.md:372`), may be taken for ready on the old one's
port (`sut_manager.go:300`), and a second stop returns before the first one's process is
gone (`sut_manager.go:161`); without docker names a start after a failed clean-up runs a
second container of a registration, and `Containers()` lists both, because the recordings of
the failed start stay and go with the next stop only (`bundle.go:78`); projects whose names
differ in replaced characters only, such as a/b and a_b, share a daemon (`path.go:44`,
against `DESIGN.md:361`); projects that give their containers the same names remove each
other's, because CleanupOrphans looks at names only (`cleanup.go`, read, not modelled); a
configured Token with blanks around it turns all requests away (`server.go:152`); a relative
RuntimePath means a daemon for every package directory (`testcontainerd.go:122`).

## 6. What is not modelled

 - `handleState`: a query; `SUTManager` has the snapshot it takes, because that clears a
   dead process.
 - Logs, the copy of the runner on Windows, message formats, constants and container
   options: written once and read by nobody, or plain values.
 - The containers' own work: docker is what runs, and the answers it may give. In
   `Discovery` the containers of a project carry docker names, because CleanupOrphans finds
   them by name: it does not find others.
 - An observer's clock (for the sampled `IdleTTL`), which would be a module above `Daemon`.
 - Two daemons that write the runtime file through the same temporary name at once:
   `BootsOneByOne` excludes it but for the ways to two boots that section 5 names.
 - A configured Token is in `Entry`, a configured port in `Discovery`; several daemons that
   share both are not.
 - Some hazards are stated rather than caught, because the code does get there: a Token with
   blanks around it is the case that `TokenAccepted` excepts, projects whose names come to
   one that of `ProjectsApart`, a lease missed by a pass that of `ReaperSparesSettled`, and
   the races that `stolen`, `overdue` and `misfiled` record are
   where the properties of `Discovery` end. That the exit status of a process is sent once
   and its channel then closed, so that a second reader is not stuck, is built into
   `SUTManager` as `reaped`.
 - Project names that are "." or "..", which sanitizeProject leaves as they are, and limits
   on lengths of names and paths.
 - Differences of configuration other than the fields `Entry` has: the containers of all
   binaries of a project are taken to be the same.

## 7. Plan

Done, in this order: `LeaseStore`, `LeaseService`, `Daemon`, `DaemonProofs`; `Bundle`,
`SUTManager`, `Discovery`; `SUTService` and `Environment` with the refinements on both
sides; the Windows build; `Entry`; the four other proof modules; the theorems about the
claims that fail and about what the liveness properties rest on; containers without docker
names in `Bundle`, `Environment` and `Daemon`.

What is left:

 1. `System`, which composes `Discovery` with the start and the exit of `Daemon`: several
    daemons, leases across the exit of one and the start of the next. Today each has the
    other as a few steps (`Acquire`, `IdleExit`).
 2. An observer's clock above `Daemon`, for what `IdleTTL` promises.
 3. Fairness of the SUT: that a stop always returns.
