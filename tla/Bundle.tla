------------------------------- MODULE Bundle -------------------------------
(***************************************************************************)
(* container/bundle.go: starting all containers with a pool of workers,    *)
(* running their Init functions, rolling back and stopping; called the way *)
(* daemon/lifecycle.go calls it, one call at a time under startMu.         *)
(*                                                                         *)
(* A registration is its position in regs.  A container is the pair of its *)
(* registration and of the StartAll call that created it.  Where the Start *)
(* of a registration asks for a docker name, as the documents recommend,   *)
(* docker refuses it while an earlier container of that name is there      *)
(* (daemon/cleanup.go); where it asks for none, docker runs both.          *)
(***************************************************************************)
EXTENDS Integers, Sequences, FiniteSets

CONSTANTS
    N,                  \* len(regs)
    Workers,            \* maxCreateConcurrency
    WithInit,           \* the registrations whose Init is not nil
    Named,              \* the registrations whose container has a docker name
    MaxStarts,          \* bound: StartAll calls
    StartMayLeak,       \* may a Start that fails leave a container behind
    TerminateMayFail    \* may docker refuse a Terminate with a live context

Regs == 1 .. N

ASSUME BundleAssumption ==
    /\ N \in Nat \ {0} /\ Workers \in Nat \ {0} /\ MaxStarts \in Nat \ {0}
    /\ WithInit \subseteq Regs /\ Named \subseteq Regs
    /\ StartMayLeak \in BOOLEAN /\ TerminateMayFail \in BOOLEAN

VARIABLES
    call,           \* where the call of StartAll or StopAll is
    at,             \* the index of its current loop
    starts,         \* StartAll calls so far; the latest one's number
    ctxDone,        \* is the context of the call cancelled
    job,            \* each registration in the pool of startAllContainers
    stopErr,        \* firstErr of stopAllContainers
    started, startOrder, cleanup,
    infraStarted,   \* Daemon.infraStarted
    stopAsked,      \* has the daemon called StopAll (it does so once)
    docker,         \* the containers that docker runs
    left            \* history: those it kept after a failed Start or Terminate

vars == <<call, at, starts, ctxDone, job, stopErr, started, startOrder, cleanup,
          infraStarted, stopAsked, docker, left>>
bundleVars == <<started, startOrder, cleanup>>
callerVars == <<infraStarted, stopAsked, starts>>
dockerVars == <<docker, left>>

\* A worker is busy with a registration from the receive to the end of the body.
Busy == {r \in Regs : job[r] \in {"taken", "starting", "failing"}}
JobStates == {"none", "queued", "taken", "starting", "failing", "failed",
              "skipped", "created"}
Containers == Regs \X (1 .. MaxStarts)

\* createCtx: a child of the call's context, cancelled by the first failure.
CreateCtxDone == ctxDone \/ \E r \in Regs : job[r] = "failed"

TypeOK ==
    /\ call \in {"none", "creating", "undo", "init", "rollback", "stopping"}
    /\ at \in Nat /\ starts \in 0 .. MaxStarts
    /\ ctxDone \in BOOLEAN /\ stopErr \in BOOLEAN /\ started \in BOOLEAN
    /\ infraStarted \in BOOLEAN /\ stopAsked \in BOOLEAN
    /\ job \in [Regs -> JobStates]
    /\ docker \subseteq Containers /\ left \subseteq docker
    /\ startOrder \in Seq(Regs) /\ cleanup \in Seq(Containers)

Init ==
    /\ call = "none" /\ at = 0 /\ starts = 0 /\ ctxDone = FALSE
    /\ job = [r \in Regs |-> "none"] /\ stopErr = FALSE
    /\ started = FALSE /\ startOrder = <<>> /\ cleanup = <<>>
    /\ infraStarted = FALSE /\ stopAsked = FALSE
    /\ docker = {} /\ left = {}

\* The call returns, with or without an error.
Return ==
    /\ call' = "none" /\ at' = 0 /\ ctxDone' = FALSE /\ stopErr' = FALSE
    /\ job' = [r \in Regs |-> "none"]

ResetState == started' = FALSE /\ startOrder' = <<>> /\ cleanup' = <<>>

\* Terminate of one container under ctx, with and without an error.  For one
\* that is gone already it may be an error or not.
Terminated(h) ==
    /\ ~ctxDone
    /\ docker' = docker \ {h} /\ left' = left \ {h}
NotTerminated(h) ==
    /\ ctxDone \/ TerminateMayFail \/ h \notin docker
    /\ left' = left \union ({h} \intersect docker)
    /\ UNCHANGED docker

-----------------------------------------------------------------------------
(* StartAll.                                                               *)

\* ensureInfraStarted calls StartAll, which puts every registration in the channel.
StartAll ==
    /\ call = "none" /\ ~infraStarted /\ starts < MaxStarts
    /\ starts' = starts + 1
    /\ IF started
         THEN infraStarted' = TRUE /\ UNCHANGED <<call, job>>
         ELSE /\ call' = "creating"
              /\ job' = [r \in Regs |-> "queued"]
              /\ UNCHANGED infraStarted
    /\ UNCHANGED <<at, ctxDone, stopErr, bundleVars, stopAsked, dockerVars>>

\* The request of the Acquire that made the call is cancelled.
CtxEnds ==
    /\ call \in {"creating", "undo", "init", "rollback"} /\ ~ctxDone
    /\ ctxDone' = TRUE
    /\ UNCHANGED <<call, at, job, stopErr, bundleVars, callerVars, dockerVars>>

\* A free worker receives the next registration from the channel.
Take(r) ==
    /\ call = "creating" /\ job[r] = "queued"
    /\ \A q \in 1 .. (r - 1) : job[q] # "queued"
    /\ Cardinality(Busy) < Workers
    /\ job' = [job EXCEPT ![r] = "taken"]
    /\ UNCHANGED <<call, at, ctxDone, stopErr, bundleVars, callerVars, dockerVars>>

\* createCtx.Err(): after a cancel the registration is dropped, without a result.
CheckCtx(r) ==
    /\ job[r] = "taken"
    /\ job' = [job EXCEPT ![r] = IF CreateCtxDone THEN "skipped" ELSE "starting"]
    /\ UNCHANGED <<call, at, ctxDone, stopErr, bundleVars, callerVars, dockerVars>>

\* Docker takes the name of the container, when it has one.
Free(r) == r \in Named => \A h \in docker : h[1] # r

StartOK(r) ==
    /\ job[r] = "starting" /\ Free(r)
    /\ docker' = docker \union {<<r, starts>>}
    /\ job' = [job EXCEPT ![r] = "created"]
    /\ UNCHANGED <<call, at, ctxDone, stopErr, bundleVars, callerVars, left>>

\* Start returns an error, which is put in results; a container it created
\* before it failed is not known to the bundle.
StartError(r) ==
    /\ job[r] = "starting"
    /\ job' = [job EXCEPT ![r] = "failing"]
    /\ \/ UNCHANGED dockerVars
       \/ /\ StartMayLeak /\ Free(r)
          /\ docker' = docker \union {<<r, starts>>}
          /\ left' = left \union {<<r, starts>>}
    /\ UNCHANGED <<call, at, ctxDone, stopErr, bundleVars, callerVars>>

\* cancel(), after the result was sent.
Cancel(r) ==
    /\ job[r] = "failing"
    /\ job' = [job EXCEPT ![r] = "failed"]
    /\ UNCHANGED <<call, at, ctxDone, stopErr, bundleVars, callerVars, dockerVars>>

\* The registrations that startAllContainers gives back a container for.
Created == {r \in Regs : job[r] = "created"}
\* A faulty variant, which only a mutant uses: len(regs) results are awaited.
PoolAnswered == \A r \in Regs : job[r] \in {"failed", "created"}
\* wg.Wait returned and results is closed.
PoolDrained == \A r \in Regs : job[r] \in {"failed", "skipped", "created"}

\* The loop over regs that follows a start without an error records containers
\* up to the first registration that has none.
Recorded == {r \in Regs : 1 .. r \subseteq Created}
Record ==
    /\ startOrder' = startOrder \o [r \in Recorded |-> r]
    /\ cleanup' = cleanup \o [r \in Recorded |-> <<r, starts>>]
    /\ UNCHANGED started

\* A faulty variant, which only a mutant uses: nothing is checked before Init.
CollectUnchecked ==
    /\ call = "creating" /\ PoolDrained
    /\ IF \E r \in Regs : job[r] = "failed"
         THEN call' = "undo" /\ at' = N /\ UNCHANGED bundleVars
         ELSE call' = "init" /\ at' = 1 /\ Record
    /\ UNCHANGED <<ctxDone, job, stopErr, callerVars, dockerVars>>

\* results is closed: a failure, a registration that has no container, or success.
Collect ==
    /\ call = "creating" /\ PoolDrained
    /\ \/ /\ \E r \in Regs : job[r] = "failed"
          /\ call' = "undo" /\ at' = N
          /\ UNCHANGED bundleVars
       \/ /\ \A r \in Regs : job[r] # "failed"
          /\ Record
          /\ IF Created = Regs THEN call' = "init" /\ at' = 1
                               ELSE call' = "undo" /\ at' = N
    /\ UNCHANGED <<ctxDone, job, stopErr, callerVars, dockerVars>>

\* A faulty variant, which only a mutant uses: the loop runs once too often.
UndoOnePast ==
    /\ call = "undo" /\ at >= 0
    /\ at' = at - 1
    /\ IF at \in Created THEN Terminated(<<at, starts>>) \/ NotTerminated(<<at, starts>>)
                         ELSE UNCHANGED dockerVars
    /\ UNCHANGED <<call, ctxDone, job, stopErr, bundleVars, callerVars>>

\* terminateCreatedContainers, from the last registration to the first.
UndoOne ==
    /\ call = "undo" /\ at > 0
    /\ at' = at - 1
    /\ IF at \in Created THEN Terminated(<<at, starts>>) \/ NotTerminated(<<at, starts>>)
                         ELSE UNCHANGED dockerVars
    /\ UNCHANGED <<call, ctxDone, job, stopErr, bundleVars, callerVars>>

UndoReturn ==
    /\ call = "undo" /\ at = 0
    /\ Return
    /\ UNCHANGED <<bundleVars, callerVars, dockerVars>>

\* reg.Init succeeded, or is nil.
InitOK ==
    /\ call = "init" /\ at <= N
    /\ at' = at + 1
    /\ UNCHANGED <<call, ctxDone, job, stopErr, bundleVars, callerVars, dockerVars>>

\* A faulty variant, which only a mutant uses: a failed Init is not rolled back.
InitErrorNoRollback ==
    /\ call = "init" /\ at \in WithInit
    /\ Return
    /\ UNCHANGED <<bundleVars, callerVars, dockerVars>>

\* reg.Init returns an error.
InitError ==
    /\ call = "init" /\ at \in WithInit
    /\ call' = "rollback" /\ at' = Len(cleanup)
    /\ UNCHANGED <<ctxDone, job, stopErr, bundleVars, callerVars, dockerVars>>

StartReturn ==
    /\ call = "init" /\ at > N
    /\ Return
    /\ started' = TRUE /\ infraStarted' = TRUE
    /\ UNCHANGED <<startOrder, cleanup, starts, stopAsked, dockerVars>>

-----------------------------------------------------------------------------
(* StopAll and rollback.                                                   *)

\* stopContainersOnly, with a context that is never cancelled.
StopAll ==
    /\ call = "none" /\ infraStarted /\ ~stopAsked
    /\ call' = "stopping" /\ at' = Len(cleanup) /\ stopAsked' = TRUE
    /\ UNCHANGED <<ctxDone, job, stopErr, bundleVars, infraStarted, starts, dockerVars>>

\* A faulty variant, which only a mutant uses: containers stop in start order.
StopOneForward ==
    /\ call \in {"rollback", "stopping"} /\ at > 0
    /\ at' = at - 1
    /\ LET h == cleanup[Len(cleanup) + 1 - at] IN
         \/ Terminated(h) /\ UNCHANGED stopErr
         \/ NotTerminated(h) /\ stopErr' = TRUE
    /\ UNCHANGED <<call, ctxDone, job, bundleVars, callerVars>>

\* One turn of the loop of stopAllContainers; an error does not end it.
StopOne ==
    /\ call \in {"rollback", "stopping"} /\ at > 0
    /\ at' = at - 1
    /\ \/ Terminated(cleanup[at]) /\ UNCHANGED stopErr
       \/ NotTerminated(cleanup[at]) /\ stopErr' = TRUE
    /\ UNCHANGED <<call, ctxDone, job, bundleVars, callerVars>>

\* A faulty variant, which only a mutant uses: rollback does not reset the bundle.
RollbackReturnKeeps ==
    /\ call = "rollback" /\ at = 0
    /\ Return
    /\ UNCHANGED <<bundleVars, callerVars, dockerVars>>

\* rollback resets the bundle whatever became of the containers.
RollbackReturn ==
    /\ call = "rollback" /\ at = 0
    /\ Return /\ ResetState
    /\ UNCHANGED <<callerVars, dockerVars>>

\* A faulty variant, which only a mutant uses: StopAll resets before it looks at
\* the error, as rollback does.
StopReturnResets ==
    /\ call = "stopping" /\ at = 0
    /\ Return /\ ResetState
    /\ infraStarted' = (IF stopErr THEN infraStarted ELSE FALSE)
    /\ UNCHANGED <<starts, stopAsked, dockerVars>>

\* StopAll resets the bundle, and the daemon its flag, only without an error.
StopReturn ==
    /\ call = "stopping" /\ at = 0
    /\ Return
    /\ IF stopErr THEN UNCHANGED <<bundleVars, infraStarted>>
                  ELSE ResetState /\ infraStarted' = FALSE
    /\ UNCHANGED <<starts, stopAsked, dockerVars>>

Next ==
    \/ StartAll \/ CtxEnds
    \/ \E r \in Regs : Take(r) \/ CheckCtx(r) \/ StartOK(r) \/ StartError(r) \/ Cancel(r)
    \/ Collect \/ UndoOne \/ UndoReturn
    \/ InitOK \/ InitError \/ StartReturn
    \/ StopAll \/ StopOne \/ RollbackReturn \/ StopReturn

Spec == Init /\ [][Next]_vars

\* Workers run, Start, Init and Terminate return, and the call goes on.  Nothing
\* makes the daemon call or the request end.
Progress ==
    \/ \E r \in Regs : Take(r) \/ CheckCtx(r) \/ StartOK(r) \/ StartError(r) \/ Cancel(r)
    \/ Collect \/ UndoOne \/ UndoReturn
    \/ InitOK \/ InitError \/ StartReturn
    \/ StopOne \/ RollbackReturn \/ StopReturn
FairSpec == Spec /\ WF_vars(Progress)

-----------------------------------------------------------------------------
(* Properties.                                                             *)

\* Between calls, a bundle that is not started has nothing running except what
\* docker kept after a failed Start or a failed Terminate: neither the pool,
\* cut short at any point, nor a failed Init loses a container it could remove.
NothingForgotten ==
    call = "none" /\ ~infraStarted => docker \subseteq left

\* Every Init runs with all containers of this call up, although registrations
\* may be dropped by the pool without any error.
InitSeesAll == call = "init" => Regs \X {starts} \subseteq docker

\* The daemon's flag and the bundle's agree whenever no call is under way, and a
\* started bundle that was not asked to stop has every container of its last
\* call running and recorded in cleanup.
StartedMeansAll ==
    call = "none" =>
        /\ infraStarted = started
        /\ started /\ ~stopAsked =>
               \A r \in Regs :
                   /\ <<r, starts>> \in docker
                   /\ \E i \in DOMAIN cleanup : cleanup[i] = <<r, starts>>

\* Was g started after h, or registered later and started by the same call?
Later(g, h) == g[2] > h[2] \/ (g[2] = h[2] /\ g[1] > h[1])

\* Containers are removed from the last one to the first, also when some
\* Terminate fails on the way: whatever is later than a removed one is gone, or
\* is what docker would not remove.
ReverseOrder ==
    [][\A h \in docker \ docker' :
           \A g \in docker : Later(g, h) => g \in left]_vars

\* Containers(), which is documented to list what is started, lists nothing that is
\* not running, although a StartAll that failed half-way keeps what it had
\* recorded and the next one appends; and it lists nothing twice that has a docker
\* name, because docker's refusal makes the next StartAll fail before it records.
ContainersListsRunning ==
    call = "none" /\ ~stopAsked =>
        /\ \A i \in DOMAIN startOrder : cleanup[i][1] = startOrder[i] /\ cleanup[i] \in docker
        /\ \A i, j \in DOMAIN startOrder :
               startOrder[i] \in Named /\ startOrder[i] = startOrder[j] => i = j

\* Every call returns: no failure, cancel or skipped registration leaves the
\* reader of results or a worker waiting.
CallReturns == call # "none" ~> call = "none"

\* The bundle implements the environment that `Daemon' calls: what an earlier call
\* left is a part of it while the next one is under way, also when it is recorded
\* and so is removed with the containers of that call.
LeftOver == \E h \in docker \union {cleanup[i] : i \in DOMAIN cleanup} : h[2] # starts
EnvironmentNow ==
    CASE call = "stopping" -> IF LeftOver THEN "crowded" ELSE "up"
      [] call \notin {"none", "stopping"} -> IF LeftOver THEN "partial" ELSE "down"
      [] call = "none" ->
            IF docker = {} THEN "down"
            ELSE IF ~(Regs \X {starts} \subseteq docker \ left) THEN "partial"
            ELSE IF LeftOver THEN "crowded" ELSE "up"
BusyNow == CASE call = "none" -> "no" [] call = "stopping" -> "stop" [] OTHER -> "start"
Promised == INSTANCE Environment WITH
    AllNamed <- Named = Regs, env <- EnvironmentNow, flag <- infraStarted, busy <- BusyNow
EnvironmentSpec == Promised!EnvironmentSpec

-----------------------------------------------------------------------------
(* A claim of the documents and comments that the code does not meet.      *)

\* bundle.go, the comment at rollback, and DESIGN.md: after a failed StartAll the
\* next one begins in a clean environment.
NextStartIsClean == [][call = "none" /\ call' = "creating" => docker = {}]_vars

=============================================================================
