------------------------------- MODULE Daemon -------------------------------
(***************************************************************************)
(* One daemon process and the test processes that use it: the HTTP         *)
(* handlers and the reaper of daemon/server.go, the locks of               *)
(* daemon/lifecycle.go, and the client session of testcontainerd.go        *)
(* (Acquire, heartbeats, m.Run, Release) seen from the wire.               *)
(*                                                                         *)
(* Goroutines are program counters: hpc[c] is the Acquire handler serving  *)
(* process c, reaper is loopReaper, shut is shutdownServer.  One action is *)
(* the code between two points where another goroutine can be noticed: a   *)
(* lock, a call that blocks, a shared counter.                             *)
(*                                                                         *)
(* Time is discrete and relative.  Tick lets one unit go by; ages and time *)
(* left saturate, so the state space is finite without a horizon.  The     *)
(* reaper reads the clock once per pass and uses that reading after it has *)
(* blocked: lag is how old the reading is, and MaxLag bounds it.           *)
(*                                                                         *)
(* The model ends when the process does: shut = "exited" has no successor. *)
(***************************************************************************)
EXTENDS LeaseStore, Integers, FiniteSets

CONSTANTS
    Prompt,             \* processes whose messages take less than one unit
    HeartbeatInterval,  \* constant/lease.go: HeartbeatInterval
    ReaperPeriod,       \* the reaper's ticker, 2s in loopReaper
    IdleTTL,            \* Config.IdleTTL
    SUTIdleTTL,         \* sutManager.idleTTL()
    SUTEnabled,         \* SUTBootPlan.IsEnable()
    AllNamed,           \* has every container a docker name
    MaxLag,             \* bound: units of time one reaper pass may take
    Nobody,             \* the holder of a free mutex
    Closer              \* shutdownServer, as the holder of startMu

ASSUME DaemonAssumption ==
    /\ IsFiniteSet(Clients) /\ Prompt \subseteq Clients
    /\ Nobody \notin Clients /\ Closer \notin Clients /\ Closer # Nobody
    /\ HeartbeatInterval \in Nat \ {0} /\ HeartbeatInterval < LeaseTTL
    /\ ReaperPeriod \in Nat \ {0}
    /\ IdleTTL \in Nat \ {0} /\ SUTIdleTTL \in Nat \ {0}
    /\ MaxLag \in Nat /\ SUTEnabled \in BOOLEAN /\ AllNamed \in BOOLEAN

VARIABLES
    cpc,                \* runClientMode of each test process
    beat,               \* is a Heartbeat request of c on the wire
    rel,                \* is the Release request of c on the wire
    due,                \* time until the heartbeat ticker of c fires
    hpc,                \* handleAcquire for c
    acquireInFlight,    \* the counter of that name
    startMu,            \* holder of Daemon.startMu
    infraStarted,       \* the flag of that name
    containers,         \* what docker runs for the bundle (see Environment)
    sutMu,              \* holder of sutManager.mu
    sut,                \* the process of sutManager.cmd
    reaper,             \* loopReaper
    idleSince,          \* age of the variable of that name, Never when zero
    sutIdleSince,       \* the same for the SUT
    tick,               \* time until the reaper's ticker fires
    pending,            \* the one-element buffer of ticker.C
    lag,                \* time since the reaper read `now'
    shut                \* shutdownServer

clientVars == <<cpc, beat, rel, due>>
handlerVars == <<hpc, acquireInFlight>>
infraVars == <<startMu, infraStarted, containers>>
sutVars == <<sutMu, sut>>
reaperVars == <<reaper, idleSince, sutIdleSince, lag>>
clockVars == <<tick, pending>>
vars == <<leaseVars, clientVars, handlerVars, infraVars, sutVars,
          reaperVars, clockVars, shut>>

Never == -1

ClientPCs == {"idle", "acquiring", "running", "gone"}

\* Where the handler's deferred acquireInFlight.Add(-1) is still to come.
InHandler == {"infra", "starting", "sut", "probing", "store", "stored", "failing"}
HandlerPCs == {"idle", "sent", "granted", "received", "refused"} \union InHandler

ReaperPCs == {"select", "count", "inflight", "stopSUT", "sutGone", "idle",
              "shutdown", "over"}
\* The pcs of a reaper pass that still uses `now'.
InPass == {"count", "inflight", "stopSUT", "sutGone", "idle"}

ShutPCs == {"no", "stopSUT", "sutGone", "lock", "stopping", "http", "closed",
            "exited"}

\* httpServer accepts requests until Shutdown closes the listener.
Listening == shut \notin {"closed", "exited"}

Handlers == {c \in Clients : hpc[c] \in InHandler}

TypeOK ==
    /\ StoreTypeOK
    /\ cpc \in [Clients -> ClientPCs]
    /\ beat \in [Clients -> BOOLEAN] /\ rel \in [Clients -> BOOLEAN]
    /\ due \in [Clients -> 0 .. HeartbeatInterval]
    /\ hpc \in [Clients -> HandlerPCs] /\ acquireInFlight \in Int
    /\ startMu \in Clients \union {Nobody, Closer}
    /\ infraStarted \in BOOLEAN
    /\ containers \in {"down", "up", "partial", "crowded"}
    /\ sutMu \in Clients \union {Nobody} /\ sut \in {"down", "up"}
    /\ reaper \in ReaperPCs
    /\ idleSince \in {Never} \union 0 .. (IdleTTL + MaxLag)
    /\ sutIdleSince \in {Never} \union 0 .. (SUTIdleTTL + MaxLag)
    /\ tick \in 1 .. ReaperPeriod /\ pending \in BOOLEAN
    /\ lag \in 0 .. MaxLag
    /\ shut \in ShutPCs

Init ==
    /\ StoreInit
    /\ cpc = [c \in Clients |-> "idle"]
    /\ beat = [c \in Clients |-> FALSE] /\ rel = [c \in Clients |-> FALSE]
    /\ due = [c \in Clients |-> HeartbeatInterval]
    /\ hpc = [c \in Clients |-> "idle"] /\ acquireInFlight = 0
    /\ startMu = Nobody /\ infraStarted = FALSE /\ containers = "down"
    /\ sutMu = Nobody /\ sut = "down"
    /\ reaper = "select" /\ idleSince = Never /\ sutIdleSince = Never
    /\ tick = ReaperPeriod /\ pending = FALSE /\ lag = 0
    /\ shut = "no"

-----------------------------------------------------------------------------
(* The test processes.                                                     *)

\* c.Acquire: the request leaves; runClientMode tries once.
CallAcquire(c) ==
    /\ cpc[c] = "idle" /\ hpc[c] = "idle"
    /\ cpc' = [cpc EXCEPT ![c] = "acquiring"]
    /\ hpc' = [hpc EXCEPT ![c] = "sent"]
    /\ UNCHANGED <<beat, rel, due, acquireInFlight, leaseVars, infraVars,
                   sutVars, reaperVars, clockVars, shut>>

\* The lease id arrives; StartHeartbeat starts its ticker and m.Run begins.
ReceiveLease(c) ==
    /\ cpc[c] = "acquiring" /\ hpc[c] = "granted"
    /\ cpc' = [cpc EXCEPT ![c] = "running"]
    /\ hpc' = [hpc EXCEPT ![c] = "received"]
    /\ due' = [due EXCEPT ![c] = HeartbeatInterval]
    /\ UNCHANGED <<beat, rel, acquireInFlight, leaseVars, infraVars, sutVars,
                   reaperVars, clockVars, shut>>

\* An error reply arrives, or the connection was refused: Run returns 1.
ReceiveError(c) ==
    /\ cpc[c] = "acquiring" /\ hpc[c] = "refused"
    /\ cpc' = [cpc EXCEPT ![c] = "gone"]
    /\ UNCHANGED <<beat, rel, due, handlerVars, leaseVars, infraVars, sutVars,
                   reaperVars, clockVars, shut>>

\* HTTPTimeout, or the death of the process, cancels the request.  What the
\* handler still does for it is not undone.
AbandonAcquire(c) ==
    /\ cpc[c] = "acquiring" /\ hpc[c] # "refused"
    /\ cpc' = [cpc EXCEPT ![c] = "gone"]
    /\ UNCHANGED <<beat, rel, due, handlerVars, leaseVars, infraVars, sutVars,
                   reaperVars, clockVars, shut>>

\* The ticker of StartHeartbeat fires while no earlier call is under way.
SendHeartbeat(c) ==
    /\ cpc[c] = "running" /\ due[c] = 0 /\ ~beat[c]
    /\ beat' = [beat EXCEPT ![c] = TRUE]
    /\ due' = [due EXCEPT ![c] = HeartbeatInterval]
    /\ UNCHANGED <<cpc, rel, handlerVars, leaseVars, infraVars, sutVars,
                   reaperVars, clockVars, shut>>

\* The heartbeat fails on the way; StartHeartbeat ignores the error.
LoseHeartbeat(c) ==
    /\ beat[c] /\ (c \notin Prompt \/ ~Listening)
    /\ beat' = [beat EXCEPT ![c] = FALSE]
    /\ UNCHANGED <<cpc, rel, due, handlerVars, leaseVars, infraVars, sutVars,
                   reaperVars, clockVars, shut>>

\* m.Run returned: stopHB, then Release is sent.  A heartbeat already on the
\* wire is not recalled and may be handled after the release.
Finish(c) ==
    /\ cpc[c] = "running"
    /\ cpc' = [cpc EXCEPT ![c] = "gone"]
    /\ rel' = [rel EXCEPT ![c] = TRUE]
    /\ due' = [due EXCEPT ![c] = HeartbeatInterval]
    /\ UNCHANGED <<beat, handlerVars, leaseVars, infraVars, sutVars,
                   reaperVars, clockVars, shut>>

\* Release fails or times out; its error is ignored.
LoseRelease(c) ==
    /\ rel[c]
    /\ rel' = [rel EXCEPT ![c] = FALSE]
    /\ UNCHANGED <<cpc, beat, due, handlerVars, leaseVars, infraVars, sutVars,
                   reaperVars, clockVars, shut>>

\* The test process dies (panic, os.Exit, kill) without a Release.
Crash(c) ==
    /\ cpc[c] = "running"
    /\ cpc' = [cpc EXCEPT ![c] = "gone"]
    /\ due' = [due EXCEPT ![c] = HeartbeatInterval]
    /\ UNCHANGED <<beat, rel, handlerVars, leaseVars, infraVars, sutVars,
                   reaperVars, clockVars, shut>>

-----------------------------------------------------------------------------
(* handleAcquire, with ensureInfraStarted and ensureSUTStarted.            *)

\* The counter goes up before anything else; a body cut short by the death of
\* its sender does not decode.
AcquireEnter(c) ==
    /\ hpc[c] = "sent" /\ Listening
    /\ acquireInFlight' = acquireInFlight + 1
    /\ \E next \in {"infra"} \union (IF cpc[c] = "gone" THEN {"failing"} ELSE {}) :
           hpc' = [hpc EXCEPT ![c] = next]
    /\ UNCHANGED <<clientVars, leaseVars, infraVars, sutVars, reaperVars,
                   clockVars, shut>>

\* Nobody listens any more: the connection is refused.
AcquireRefused(c) ==
    /\ hpc[c] = "sent" /\ ~Listening
    /\ hpc' = [hpc EXCEPT ![c] = "refused"]
    /\ UNCHANGED <<clientVars, acquireInFlight, leaseVars, infraVars, sutVars,
                   reaperVars, clockVars, shut>>

\* startMu, and infraStarted already set: the lock is released at once.
InfraReady(c) ==
    /\ hpc[c] = "infra" /\ startMu = Nobody /\ infraStarted
    /\ hpc' = [hpc EXCEPT ![c] = "sut"]
    /\ UNCHANGED <<clientVars, acquireInFlight, leaseVars, infraVars, sutVars,
                   reaperVars, clockVars, shut>>

\* startMu, then bundle.StartAll under it.
InfraBegin(c) ==
    /\ hpc[c] = "infra" /\ startMu = Nobody /\ ~infraStarted
    /\ startMu' = c
    /\ hpc' = [hpc EXCEPT ![c] = "starting"]
    /\ UNCHANGED <<clientVars, acquireInFlight, leaseVars, infraStarted,
                   containers, sutVars, reaperVars, clockVars, shut>>

\* StartAll succeeded, which it cannot beside leftovers of the same docker names.
InfraUp(c) ==
    /\ hpc[c] = "starting"
    /\ \/ containers = "down" /\ containers' = "up"
       \/ containers = "partial" /\ ~AllNamed /\ containers' = "crowded"
    /\ infraStarted' = TRUE /\ startMu' = Nobody
    /\ hpc' = [hpc EXCEPT ![c] = "sut"]
    /\ UNCHANGED <<clientVars, acquireInFlight, leaseVars, sutVars, reaperVars,
                   clockVars, shut>>

\* Faulty variants of the error path, which only the mutants use: the flag is
\* set although StartAll failed; the mutex is not released.
InfraFailFlagged(c) ==
    /\ hpc[c] = "starting"
    /\ containers' = "down" /\ infraStarted' = TRUE /\ startMu' = Nobody
    /\ hpc' = [hpc EXCEPT ![c] = "failing"]
    /\ UNCHANGED <<clientVars, acquireInFlight, leaseVars, sutVars, reaperVars,
                   clockVars, shut>>
InfraFailLocked(c) ==
    /\ hpc[c] = "starting"
    /\ hpc' = [hpc EXCEPT ![c] = "failing"]
    /\ UNCHANGED <<clientVars, acquireInFlight, leaseVars, infraVars, sutVars,
                   reaperVars, clockVars, shut>>

\* StartAll failed and rolled back.  The rollback runs under the request's
\* context, so it may leave containers behind; it may also remove leftovers.
InfraFail(c) ==
    /\ hpc[c] = "starting"
    /\ containers' \in IF containers = "partial" /\ AllNamed THEN {"partial"}
                                                         ELSE {"down", "partial"}
    /\ startMu' = Nobody
    /\ hpc' = [hpc EXCEPT ![c] = "failing"]
    /\ UNCHANGED <<clientVars, acquireInFlight, leaseVars, infraStarted, sutVars,
                   reaperVars, clockVars, shut>>

\* sutManager.mu, and nothing to start.
SUTReady(c) ==
    /\ hpc[c] = "sut" /\ sutMu = Nobody /\ (~SUTEnabled \/ sut = "up")
    /\ hpc' = [hpc EXCEPT ![c] = "store"]
    /\ UNCHANGED <<clientVars, acquireInFlight, leaseVars, infraVars, sutVars,
                   reaperVars, clockVars, shut>>

\* A faulty variant, which only a mutant uses: mu is not taken for the start.
SUTBeginUnlocked(c) ==
    /\ hpc[c] = "sut" /\ SUTEnabled /\ sut = "down"
    /\ hpc' = [hpc EXCEPT ![c] = "probing"]
    /\ UNCHANGED <<clientVars, acquireInFlight, leaseVars, infraVars, sutVars,
                   reaperVars, clockVars, shut>>

\* sutManager.mu, kept while the process starts and waitSUTReady probes it.
SUTBegin(c) ==
    /\ hpc[c] = "sut" /\ sutMu = Nobody /\ SUTEnabled /\ sut = "down"
    /\ sutMu' = c
    /\ hpc' = [hpc EXCEPT ![c] = "probing"]
    /\ UNCHANGED <<clientVars, acquireInFlight, leaseVars, infraVars, sut,
                   reaperVars, clockVars, shut>>

SUTUp(c) ==
    /\ hpc[c] = "probing"
    /\ sut' = "up" /\ sutMu' = Nobody
    /\ hpc' = [hpc EXCEPT ![c] = "store"]
    /\ UNCHANGED <<clientVars, acquireInFlight, leaseVars, infraVars, reaperVars,
                   clockVars, shut>>

\* A faulty variant, which only a mutant uses: mu is not released.
SUTFailLocked(c) ==
    /\ hpc[c] = "probing"
    /\ hpc' = [hpc EXCEPT ![c] = "failing"]
    /\ UNCHANGED <<clientVars, acquireInFlight, leaseVars, infraVars, sutVars,
                   reaperVars, clockVars, shut>>

\* The command failed, exited or was not ready in time, and was killed.
SUTFail(c) ==
    /\ hpc[c] = "probing"
    /\ sutMu' = Nobody
    /\ hpc' = [hpc EXCEPT ![c] = "failing"]
    /\ UNCHANGED <<clientVars, acquireInFlight, leaseVars, infraVars, sut,
                   reaperVars, clockVars, shut>>

\* The SUT process exits by itself; isRunningLocked notices from waitCh.
SUTExit ==
    /\ sut = "up"
    /\ sut' = "down"
    /\ UNCHANGED <<clientVars, handlerVars, leaseVars, infraVars, sutMu,
                   reaperVars, clockVars, shut>>

StoreLease(c) ==
    /\ hpc[c] = "store"
    /\ StoreAcquire(c)
    /\ hpc' = [hpc EXCEPT ![c] = "stored"]
    /\ UNCHANGED <<clientVars, acquireInFlight, infraVars, sutVars, reaperVars,
                   clockVars, shut>>

\* The handler returns: the deferred decrement, then net/http flushes the reply.
HandlerReturn(c) ==
    /\ hpc[c] \in {"stored", "failing"}
    /\ acquireInFlight' = acquireInFlight - 1
    /\ hpc' = [hpc EXCEPT ![c] = IF hpc[c] = "stored" THEN "granted" ELSE "refused"]
    /\ UNCHANGED <<clientVars, leaseVars, infraVars, sutVars, reaperVars,
                   clockVars, shut>>

-----------------------------------------------------------------------------
(* handleHeartbeat and handleRelease.                                      *)

HandleHeartbeat(c) ==
    /\ beat[c] /\ Listening
    /\ StoreHeartbeat(c)
    /\ beat' = [beat EXCEPT ![c] = FALSE]
    /\ UNCHANGED <<cpc, rel, due, handlerVars, infraVars, sutVars, reaperVars,
                   clockVars, shut>>

HandleRelease(c) ==
    /\ rel[c] /\ Listening
    /\ StoreRelease(c)
    /\ rel' = [rel EXCEPT ![c] = FALSE]
    /\ UNCHANGED <<cpc, beat, due, handlerVars, infraVars, sutVars, reaperVars,
                   clockVars, shut>>

-----------------------------------------------------------------------------
(* loopReaper.                                                             *)

\* Leaving the switch: the reading of the clock is dropped.
EndPass ==
    /\ reaper' = "select"
    /\ lag' = 0

\* ticker.C delivers: `now' is read and gc removes what has expired.  With
\* done closed as well, select may still choose the ticker.
ReaperWake ==
    /\ reaper = "select" /\ pending
    /\ pending' = FALSE
    /\ StoreGC
    /\ reaper' = "count" /\ lag' = 0
    /\ UNCHANGED <<clientVars, handlerVars, infraVars, sutVars, idleSince,
                   sutIdleSince, tick, shut>>

\* Leaving the loop for good: its timers and its ticker are gone.
LeaveLoop ==
    /\ idleSince' = Never /\ sutIdleSince' = Never /\ lag' = 0
    /\ tick' = ReaperPeriod /\ pending' = FALSE

\* d.done is closed.
ReaperDone ==
    /\ reaper = "select" /\ shut # "no"
    /\ reaper' = "over" /\ LeaveLoop
    /\ UNCHANGED <<clientVars, handlerVars, leaseVars, infraVars, sutVars, shut>>

\* active > 0 resets both idle timers; otherwise the counter is looked at next.
ReaperCount ==
    /\ reaper = "count"
    /\ IF AnyActive(lag)
         THEN idleSince' = Never /\ sutIdleSince' = Never /\ EndPass
         ELSE reaper' = "inflight" /\ UNCHANGED <<idleSince, sutIdleSince, lag>>
    /\ UNCHANGED <<clientVars, handlerVars, leaseVars, infraVars, sutVars,
                   clockVars, shut>>

\* now.Sub(since) >= ttl.
Elapsed(since, ttl) == since - lag >= ttl

\* An Acquire in flight counts as busy; otherwise the SUT's idle timer.
ReaperInFlight ==
    /\ reaper = "inflight"
    /\ IF acquireInFlight > 0
         THEN idleSince' = Never /\ sutIdleSince' = Never /\ EndPass
         ELSE /\ sutIdleSince' = IF sutIdleSince = Never THEN lag ELSE sutIdleSince
              /\ reaper' = IF sutIdleSince # Never /\ Elapsed(sutIdleSince, SUTIdleTTL)
                             THEN "stopSUT" ELSE "idle"
              /\ UNCHANGED <<idleSince, lag>>
    /\ UNCHANGED <<clientVars, handlerVars, leaseVars, infraVars, sutVars,
                   clockVars, shut>>

\* sutManager.stop takes the process out of the manager under mu, and waits
\* for it to exit after mu is free again.
ReaperStopSUT ==
    /\ reaper = "stopSUT" /\ sutMu = Nobody
    /\ sut' = "down"
    /\ reaper' = IF sut = "up" THEN "sutGone" ELSE "idle"
    /\ UNCHANGED <<clientVars, handlerVars, leaseVars, infraVars, sutMu,
                   idleSince, sutIdleSince, lag, clockVars, shut>>

ReaperSUTGone ==
    /\ reaper = "sutGone"
    /\ reaper' = "idle"
    /\ UNCHANGED <<clientVars, handlerVars, leaseVars, infraVars, sutVars,
                   idleSince, sutIdleSince, lag, clockVars, shut>>

\* A faulty variant, which only a mutant uses: a daemon whose containers never
\* started is not shut down.
ReaperIdleNeedsInfra ==
    /\ reaper = "idle"
    /\ IF idleSince # Never /\ Elapsed(idleSince, IdleTTL) /\ infraStarted
         THEN /\ reaper' = "shutdown" /\ LeaveLoop
              /\ shut' = IF shut = "no" THEN "stopSUT" ELSE shut
         ELSE /\ idleSince' = IF idleSince = Never THEN lag ELSE idleSince
              /\ EndPass
              /\ UNCHANGED <<sutIdleSince, clockVars, shut>>
    /\ UNCHANGED <<clientVars, handlerVars, leaseVars, infraVars, sutVars>>

\* The daemon's own idle timer: it starts, or runs on, or the daemon shuts down.
ReaperIdle ==
    /\ reaper = "idle"
    /\ IF idleSince # Never /\ Elapsed(idleSince, IdleTTL)
         THEN /\ reaper' = "shutdown" /\ LeaveLoop
              /\ shut' = IF shut = "no" THEN "stopSUT" ELSE shut
         ELSE /\ idleSince' = IF idleSince = Never THEN lag ELSE idleSince
              /\ EndPass
              /\ UNCHANGED <<sutIdleSince, clockVars, shut>>
    /\ UNCHANGED <<clientVars, handlerVars, leaseVars, infraVars, sutVars>>

-----------------------------------------------------------------------------
(* shutdownServer: once, by the reaper or by SIGINT / SIGTERM.             *)

Signal ==
    /\ shut = "no"
    /\ shut' = "stopSUT"
    /\ UNCHANGED <<clientVars, handlerVars, leaseVars, infraVars, sutVars,
                   reaperVars, clockVars>>

ShutdownStopSUT ==
    /\ shut = "stopSUT" /\ sutMu = Nobody
    /\ sut' = "down"
    /\ shut' = IF sut = "up" THEN "sutGone" ELSE "lock"
    /\ UNCHANGED <<clientVars, handlerVars, leaseVars, infraVars, sutMu,
                   reaperVars, clockVars>>

ShutdownSUTGone ==
    /\ shut = "sutGone"
    /\ shut' = "lock"
    /\ UNCHANGED <<clientVars, handlerVars, leaseVars, infraVars, sutVars,
                   reaperVars, clockVars>>

\* A faulty variant, which only a mutant uses: stopping takes no lock.
ShutdownLockFree ==
    /\ shut = "lock"
    /\ shut' = IF infraStarted \/ startMu # Nobody THEN "stopping" ELSE "http"
    /\ UNCHANGED <<clientVars, handlerVars, leaseVars, infraVars, sutVars,
                   reaperVars, clockVars>>

\* stopContainersOnly: startMu, and nothing to do unless infraStarted.
ShutdownLock ==
    /\ shut = "lock" /\ startMu = Nobody
    /\ IF infraStarted
         THEN startMu' = Closer /\ shut' = "stopping"
         ELSE UNCHANGED startMu /\ shut' = "http"
    /\ UNCHANGED <<clientVars, handlerVars, leaseVars, infraStarted, containers,
                   sutVars, reaperVars, clockVars>>

\* bundle.StopAll ends.  When a Terminate fails the flag stays set, the other
\* containers are gone, and the error is ignored; without an error, leftovers that
\* the bundle does not know of stay.
ShutdownStopped ==
    /\ shut = "stopping"
    /\ \/ containers' = "down" /\ infraStarted' = FALSE
       \/ containers' = "partial" /\ UNCHANGED infraStarted
       \/ containers = "crowded" /\ containers' = "partial" /\ infraStarted' = FALSE
    /\ startMu' = Nobody
    /\ shut' = "http"
    /\ UNCHANGED <<clientVars, handlerVars, leaseVars, sutVars, reaperVars,
                   clockVars>>

\* httpServer.Shutdown closes the listener: Serve returns ErrServerClosed.
ShutdownHTTP ==
    /\ shut = "http"
    /\ shut' = "closed"
    /\ UNCHANGED <<clientVars, handlerVars, leaseVars, infraVars, sutVars,
                   reaperVars, clockVars>>

\* Start returns and the process ends, whatever its other goroutines are doing:
\* nothing makes it wait for the drain of up to 3s.
Exit ==
    /\ shut = "closed"
    /\ shut' = "exited"
    /\ UNCHANGED <<clientVars, handlerVars, leaseVars, infraVars, sutVars,
                   reaperVars, clockVars>>

-----------------------------------------------------------------------------
(* Time.                                                                   *)

\* A prompt process lets no unit go by before its lease reply has arrived, its
\* heartbeat has left when due, and has been handled.
MustMove(c) ==
    /\ Listening
    /\ \/ cpc[c] = "acquiring" /\ hpc[c] \in {"stored", "granted"}
       \/ cpc[c] = "running" /\ (beat[c] \/ due[c] = 0)

Older(since, ttl) == IF since \in {Never, ttl + MaxLag} THEN since ELSE since + 1

Tick ==
    /\ \A c \in Prompt : ~MustMove(c)
    /\ reaper \in InPass => lag < MaxLag
    /\ StoreElapse
    /\ due' = [c \in Clients |-> IF cpc[c] = "running" /\ due[c] > 0
                                  THEN due[c] - 1 ELSE due[c]]
    /\ lag' = IF reaper \in InPass THEN lag + 1 ELSE lag
    /\ idleSince' = Older(idleSince, IdleTTL)
    /\ sutIdleSince' = Older(sutIdleSince, SUTIdleTTL)
    /\ IF reaper \in {"shutdown", "over"}
         THEN UNCHANGED clockVars
         ELSE /\ tick' = IF tick = 1 THEN ReaperPeriod ELSE tick - 1
              /\ pending' = (pending \/ tick = 1)
    /\ UNCHANGED <<cpc, beat, rel, handlerVars, infraVars, sutVars, reaper, shut>>

-----------------------------------------------------------------------------
ClientStep(c) ==
    \/ CallAcquire(c) \/ ReceiveLease(c) \/ ReceiveError(c) \/ AbandonAcquire(c)
    \/ SendHeartbeat(c) \/ LoseHeartbeat(c)
    \/ Finish(c) \/ LoseRelease(c) \/ Crash(c)

AcquireStep(c) ==
    \/ AcquireEnter(c) \/ AcquireRefused(c)
    \/ InfraReady(c) \/ InfraBegin(c) \/ InfraUp(c) \/ InfraFail(c)
    \/ SUTReady(c) \/ SUTBegin(c) \/ SUTUp(c) \/ SUTFail(c)
    \/ StoreLease(c) \/ HandlerReturn(c)

ReaperStep ==
    \/ ReaperWake \/ ReaperDone \/ ReaperCount \/ ReaperInFlight
    \/ ReaperStopSUT \/ ReaperSUTGone \/ ReaperIdle

ShutdownStep ==
    \/ ShutdownStopSUT \/ ShutdownSUTGone \/ ShutdownLock \/ ShutdownStopped
    \/ ShutdownHTTP \/ Exit

Alive == shut # "exited"

Next ==
    /\ Alive
    /\ \/ \E c \in Clients : \/ ClientStep(c) \/ AcquireStep(c)
                              \/ HandleHeartbeat(c) \/ HandleRelease(c)
       \/ SUTExit \/ ReaperStep \/ Signal \/ ShutdownStep \/ Tick

Spec == Init /\ [][Next]_vars

(***************************************************************************)
(* Fairness: goroutines that can run do run, StartAll, the probe and stop  *)
(* return (each has a timeout or a context), replies and the heartbeats of *)
(* prompt processes travel, and time goes by.  Nothing makes a process     *)
(* call, finish, crash or time out, a message get lost, the SUT exit or a  *)
(* signal arrive.                                                          *)
(***************************************************************************)
Fairness ==
    /\ \A c \in Clients :
           /\ WF_vars(Alive /\ AcquireStep(c))
           /\ WF_vars(Alive /\ (ReceiveLease(c) \/ ReceiveError(c)))
    /\ \A c \in Prompt :
           /\ WF_vars(Alive /\ SendHeartbeat(c))
           /\ WF_vars(Alive /\ HandleHeartbeat(c))
    /\ WF_vars(Alive /\ ReaperStep)
    /\ WF_vars(Alive /\ ShutdownStep)
    /\ WF_vars(Alive /\ Tick)

FairSpec == Spec /\ Fairness

-----------------------------------------------------------------------------
(* Safety.                                                                 *)

\* acquireInFlight counts the Acquire handlers between their first statement
\* and their deferred decrement, on every path out of handleAcquire: the
\* reaper would never stop anything again after one missed decrement.
InFlightExact == acquireInFlight = Cardinality(Handlers)

\* Until a shutdown has startMu for its StopAll, a process past ensureInfraStarted,
\* and so every process with a lease, has all containers running: no later failed
\* start, no reaper pass and no other handler takes them away, and neither does a
\* shutdown that still waits for the SUT to end.
ContainersUp == containers \in {"up", "crowded"}
Served(c) == hpc[c] \in {"sut", "probing", "store", "stored", "granted", "received"}
EnvironmentStays ==
    shut \in {"no", "stopSUT", "sutGone", "lock"} =>
        \A c \in Clients : Served(c) => ContainersUp

\* A process that runs its tests and whose heartbeats are prompt has an
\* unexpired lease for as long as the daemon listens: with a TTL longer than
\* the heartbeat interval neither gc nor a late pass of the reaper ends it.
PromptLeaseKept ==
    \A c \in Prompt :
        cpc[c] = "running" /\ Listening => c \in held /\ expiry[c] > 0

\* Past the count of active leases, a pass of the reaper can only harm leases
\* stored after it read the clock, however long it has been blocked in
\* stopSUTOnly: no lease older than `now' is held any more.
ReaperSparesSettled ==
    reaper \in {"inflight", "stopSUT", "sutGone", "idle"} =>
        \A c \in held : expiry[c] + lag >= LeaseTTL

\* A lease ends only because its process asked for it or its time was up.
LeaseEndsJustly ==
    [][\A c \in held : c \notin held' => rel[c] \/ expiry[c] = 0]_vars

\* The bundle is never started and stopped at the same time, and no process is
\* past ensureInfraStarted while another one still starts the containers.
StartStopExclusive ==
    /\ Cardinality({c \in Clients : hpc[c] = "starting"}) <= 1
    /\ shut = "stopping" => \A c \in Clients : hpc[c] # "starting"
    /\ shut = "no" /\ (\E c \in Clients : hpc[c] = "starting") =>
           held = {} /\ \A c \in Clients : ~Served(c)

\* The next step of c's handler waits for nobody.
CanStep(c) ==
    \/ hpc[c] \in {"starting", "probing", "store", "stored", "failing"}
    \/ hpc[c] = "infra" /\ startMu = Nobody
    \/ hpc[c] = "sut" /\ sutMu = Nobody

\* No cycle and no chain of waiting: a handler that waits for startMu waits for StopAll
\* or for a handler that waits for nobody, one that waits for sutManager.mu waits for
\* such a handler, and the same is true of the shutdown and of the reaper.  No failed
\* start, stop or probe leaves a mutex to somebody who is gone.
NobodyStuck ==
    /\ \A c \in Handlers :
           \/ CanStep(c)
           \/ hpc[c] = "infra" /\ startMu = Closer /\ shut = "stopping"
           \/ hpc[c] = "infra" /\ startMu \in Clients /\ CanStep(startMu)
           \/ hpc[c] = "sut" /\ sutMu \in Clients /\ CanStep(sutMu)
    /\ shut = "lock" /\ startMu # Nobody => startMu \in Clients /\ CanStep(startMu)
    /\ "stopSUT" \in {shut, reaper} /\ sutMu # Nobody =>
           sutMu \in Clients /\ CanStep(sutMu)

\* The daemon implements the abstract lease service.
Stored == {c \in Clients : hpc[c] \in {"stored", "granted", "received"}}
Service == INSTANCE LeaseService WITH
    phase <- IF shut # "no" THEN "closing"
             ELSE IF infraStarted THEN "serving" ELSE "cold",
    over <- Stored \ held
ServiceSpec == Service!ServiceSpec

\* Its handlers and its shutdown use the containers as `Environment' allows, which
\* `Bundle' implements: the two meet in that specification.
Containers == INSTANCE Environment WITH
    env <- containers,
    flag <- infraStarted,
    busy <- IF startMu = Nobody THEN "no" ELSE IF startMu = Closer THEN "stop" ELSE "start"
EnvironmentSpec == Containers!EnvironmentSpec

\* They use the SUT as `SUTService' allows, which `SUTManager' implements: nobody
\* stops it or finds it ready while another one is bringing it up.
SUT == INSTANCE SUTService WITH Users <- Clients, holder <- sutMu
SUTServiceSpec == SUT!SUTServiceSpec

-----------------------------------------------------------------------------
(* Liveness, under FairSpec.                                               *)

\* When no test process is left, or none has come yet, the daemon shuts itself
\* down unless another one comes, whether or not the containers ever started.
Quiet == \A c \in Clients : cpc[c] \in {"idle", "gone"}
QuietThenExit == Quiet ~> shut = "exited" \/ ~Quiet

\* The lease of a process that is gone is reclaimed, whatever became of its
\* Release and while other processes go on with their heartbeats.
AbandonedLeaseReclaimed ==
    \A c \in Clients :
        c \in held /\ cpc[c] = "gone" ~> c \notin held \/ shut = "exited"

\* Every Acquire is answered or cut off by the end of the daemon: no path
\* through the two locks leaves a handler waiting.
AcquireAnswered ==
    \A c \in Clients :
        hpc[c] = "sent" ~>
            hpc[c] \in {"granted", "received", "refused"} \/ shut = "exited"

-----------------------------------------------------------------------------
(* Claims of the documents and comments that the code does not meet.       *)

\* server.go, the comment at acquireInFlight in loopReaper: an Acquire that
\* has not stored its lease yet counts as busy, so that the reaper does not
\* stop the SUT it is about to get.
ReaperSparesBusySUT ==
    [][reaper = "stopSUT" /\ reaper' = "sutGone" => acquireInFlight = 0]_vars

\* DESIGN.md and README: when the tests are over the daemon cleans up containers
\* and SUT and exits, and leaves nothing.  The property is about a daemon that
\* found itself idle; what a failed start or stop leaves behind is not counted.
NothingLeft ==
    shut = "exited" /\ reaper = "shutdown" => ~ContainersUp /\ sut = "down"

=============================================================================
