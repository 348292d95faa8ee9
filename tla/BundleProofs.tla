---------------------------- MODULE BundleProofs ----------------------------
(***************************************************************************)
(* Proofs about `Bundle', for every number of registrations, workers and   *)
(* calls, and whatever docker does.  The invariant says of each container  *)
(* that runs who will remove it, by the call that is under way: the pool   *)
(* (it is marked created), the undo (not passed yet), the recordings, or   *)
(* nobody, because docker was asked in vain.                               *)
(***************************************************************************)
EXTENDS Bundle, SequenceTheorems, FiniteSetTheorems, WellFoundedInduction, TLAPS

-----------------------------------------------------------------------------
(* The invariant.                                                          *)

\* The container that the current call of StartAll, or the latest one, creates for r.
This(r) == <<r, starts>>
\* The containers that docker was not asked in vain to remove.
Safe == docker \ left
Recordings == 1 .. Len(cleanup)
\* What is up is of the latest call, complete and recorded, but for leftovers.
AllUp ==
    /\ \A r \in Regs : This(r) \in Safe /\ \E i \in Recordings : cleanup[i] = This(r)
    /\ \A h \in Safe : h[2] = starts
    /\ \A i \in Recordings : cleanup[i] \in docker

\* The recordings are those of some calls, one after the other.
OrderInv ==
    /\ Len(startOrder) = Len(cleanup)
    /\ \A i \in Recordings : startOrder[i] = cleanup[i][1] /\ cleanup[i][2] <= starts
    /\ \A i, j \in Recordings : i < j => Later(cleanup[j], cleanup[i])

\* There is one container of each docker name.
DockerInv ==
    /\ \A h \in docker : h[2] <= starts
    /\ \A g, h \in docker : g[1] = h[1] /\ g[1] \in Named => g = h

\* The flags, by the call under way.
FlagInv ==
    /\ call \in {"none", "stopping"} => ~ctxDone /\ infraStarted = started
    /\ call \in {"creating", "undo", "init", "rollback"} =>
           ~started /\ ~infraStarted /\ starts # 0
    /\ call = "stopping" => started /\ stopAsked
    /\ call \notin {"rollback", "stopping"} => ~stopErr

\* Workers work only while the pool is there.
PoolInv ==
    call # "creating" => \A r \in Regs : job[r] \in {"none", "failed", "skipped", "created"}

\* Between calls.  What a failed start recorded and did not remove stays.
NoneInv ==
    call = "none" =>
        IF started THEN AllUp \/ (stopAsked /\ Safe = {})
                   ELSE Safe = {} /\ \A i \in Recordings : cleanup[i] \in docker

\* The pool is at work.
CreatingInv ==
    call = "creating" =>
        /\ \A h \in Safe : h[2] = starts /\ job[h[1]] = "created"
        /\ \A r \in Regs :
               /\ job[r] = "created" => This(r) \in Safe
               /\ job[r] \in {"queued", "taken", "starting"} => This(r) \notin docker
               /\ job[r] = "skipped" => ctxDone \/ \E q \in Regs : job[q] = "failed"
        /\ \A i \in Recordings : cleanup[i] \in docker /\ cleanup[i][2] < starts

\* What the pool created is being removed, from the last one on.
UndoInv ==
    call = "undo" =>
        /\ at <= N
        /\ \A h \in Safe : h[2] = starts /\ job[h[1]] = "created" /\ h[1] <= at
        /\ \A r \in Regs : job[r] = "created" /\ r <= at => This(r) \in Safe
        /\ \A i \in Recordings : cleanup[i] \in docker /\ (cleanup[i][2] = starts => ctxDone)

InitInv == call = "init" => AllUp

\* Everything recorded is being taken down, from the last recording on.
DownInv ==
    call \in {"rollback", "stopping"} =>
        /\ at <= Len(cleanup)
        /\ \A i \in 1 .. at : cleanup[i] \in docker
        /\ \A h \in docker :
               h \notin left \/ (h[2] = starts /\ ~stopErr) => \E i \in 1 .. at : cleanup[i] = h
        /\ stopErr => \E i \in Recordings : i > at /\ cleanup[i] \in left
        /\ call = "rollback" /\ Named = Regs => ~LeftOver

BundleInv ==
    /\ OrderInv /\ DockerInv /\ FlagInv /\ PoolInv
    /\ NoneInv /\ CreatingInv /\ UndoInv /\ InitInv /\ DownInv

-----------------------------------------------------------------------------
(* What a start records, types and flags.                                  *)

\* StartAll's loop records up to the first registration without a container.
LEMMA RecordedPrefix == \E k \in 0 .. N : Recorded = 1 .. k
<1> DEFINE Missing == {r \in Regs : r \notin Created}
<1>1. CASE Missing = {}
    <2>1. Recorded = 1 .. N
        BY <1>1, BundleAssumption DEF Recorded, Regs
    <2> QED
        BY <2>1, BundleAssumption
<1>2. CASE Missing # {}
    <2>1. PICK m \in Missing : \A r \in Missing : ~(<<r, m>> \in OpToRel(<, Nat))
        <3>1. Missing \subseteq Nat
            BY BundleAssumption DEF Regs
        <3> HIDE DEF Missing
        <3> QED
            BY <1>2, <3>1, NatLessThanWellFounded, WFMin
    <2>2. \A r \in Missing : ~(r < m)
        <3>1. ASSUME NEW r \in Nat, NEW q \in Nat, r < q PROVE <<r, q>> \in OpToRel(<, Nat)
            BY <3>1 DEF OpToRel
        <3>2. Missing \subseteq Nat
            BY BundleAssumption DEF Regs
        <3> QED
            BY <2>1, <3>1, <3>2
    <2>3. Recorded = 1 .. (m - 1)
        BY <2>2, BundleAssumption DEF Recorded, Regs
    <2> QED
        BY <2>3, BundleAssumption DEF Regs
<1> QED
    BY <1>1, <1>2

LEMMA RecordAppends ==
    ASSUME TypeOK, starts # 0, Record
    PROVE  \E k \in 0 .. N :
        /\ Recorded = 1 .. k
        /\ startOrder' \in Seq(Regs) /\ Len(startOrder') = Len(startOrder) + k
        /\ cleanup' \in Seq(Containers) /\ Len(cleanup') = Len(cleanup) + k
        /\ \A i \in 1 .. Len(startOrder) : startOrder'[i] = startOrder[i]
        /\ \A i \in 1 .. Len(cleanup) : cleanup'[i] = cleanup[i]
        /\ \A i \in 1 .. k : /\ startOrder'[Len(startOrder) + i] = i
                             /\ cleanup'[Len(cleanup) + i] = <<i, starts>>
<1>1. PICK k \in 0 .. N : Recorded = 1 .. k
    BY RecordedPrefix
<1> DEFINE names == [r \in 1 .. k |-> r]
           handles == [r \in 1 .. k |-> <<r, starts>>]
<1>2. startOrder' = startOrder \o names /\ cleanup' = cleanup \o handles
    BY <1>1 DEF Record
<1>3. startOrder \in Seq(Regs) /\ cleanup \in Seq(Containers)
    BY DEF TypeOK
<1>4. names \in Seq(Regs) /\ Len(names) = k
    BY IsASeq, BundleAssumption DEF Regs
<1>5. handles \in Seq(Containers) /\ Len(handles) = k
    <2>1. \A r \in 1 .. k : <<r, starts>> \in Containers
        BY BundleAssumption DEF TypeOK, Containers, Regs
    <2> QED
        BY <2>1, IsASeq
<1>6. /\ Len(startOrder) \in Nat /\ Len(cleanup) \in Nat
      /\ \A i \in 1 .. k : names[i] = i /\ handles[i] = <<i, starts>>
    BY <1>3
<1> HIDE DEF names, handles
<1>7. /\ startOrder' \in Seq(Regs) /\ Len(startOrder') = Len(startOrder) + k
      /\ \A i \in 1 .. Len(startOrder) + k :
             startOrder'[i] = IF i <= Len(startOrder) THEN startOrder[i]
                                                      ELSE names[i - Len(startOrder)]
    BY <1>2, <1>3, <1>4, ConcatProperties
<1>8. /\ cleanup' \in Seq(Containers) /\ Len(cleanup') = Len(cleanup) + k
      /\ \A i \in 1 .. Len(cleanup) + k :
             cleanup'[i] = IF i <= Len(cleanup) THEN cleanup[i] ELSE handles[i - Len(cleanup)]
    BY <1>2, <1>3, <1>5, ConcatProperties
<1>9. /\ \A i \in 1 .. Len(startOrder) : startOrder'[i] = startOrder[i]
      /\ \A i \in 1 .. k : startOrder'[Len(startOrder) + i] = i
    BY <1>6, <1>7, BundleAssumption
<1>10. /\ \A i \in 1 .. Len(cleanup) : cleanup'[i] = cleanup[i]
       /\ \A i \in 1 .. k : cleanup'[Len(cleanup) + i] = <<i, starts>>
    <2>1. ASSUME NEW i \in 1 .. Len(cleanup) PROVE cleanup'[i] = cleanup[i]
        BY <1>6, <1>8, BundleAssumption
    <2>2. ASSUME NEW i \in 1 .. k PROVE cleanup'[Len(cleanup) + i] = <<i, starts>>
        <3>1. /\ Len(cleanup) + i \in 1 .. Len(cleanup) + k /\ ~(Len(cleanup) + i <= Len(cleanup))
              /\ Len(cleanup) + i - Len(cleanup) = i
            BY <1>6, BundleAssumption
        <3>2. cleanup'[Len(cleanup) + i] = handles[Len(cleanup) + i - Len(cleanup)]
            BY <3>1, <1>8
        <3>3. handles[i] = <<i, starts>>
            BY <1>6
        <3> QED
            BY <3>1, <3>2, <3>3
    <2> QED
        BY <2>1, <2>2
<1> QED
    BY <1>1, <1>7, <1>8, <1>9, <1>10

\* What Terminate of a container may change.
LEMMA TerminateTypes ==
    ASSUME TypeOK, NEW h, Terminated(h) \/ NotTerminated(h)
    PROVE  docker' \subseteq Containers /\ left' \subseteq docker'
<1> QED
    BY DEF Terminated, NotTerminated, TypeOK

LEMMA RecordingsType ==
    ASSUME TypeOK, NEW i \in Recordings
    PROVE  i \in DOMAIN cleanup /\ cleanup[i] \in Containers
<1> QED
    BY DEF TypeOK, Recordings

\* A container of this call is <<r, starts>> for its registration.
LEMMA ThisOne ==
    /\ \A h \in Containers : h = <<h[1], h[2]>> /\ h[1] \in Regs /\ h[2] \in 1 .. MaxStarts
    /\ \A r : This(r)[1] = r /\ This(r)[2] = starts
    /\ \A h \in Containers : h[2] = starts => h = This(h[1])
    /\ \A q, r : This(q) = This(r) => q = r
<1> QED
    BY DEF Containers, This

LEMMA CleanupHandle ==
    ASSUME TypeOK, DownInv, call \in {"rollback", "stopping"}, at > 0
    PROVE  at \in Recordings /\ cleanup[at] \in docker
<1> QED
    BY DEF TypeOK, DownInv, Recordings

LEMMA TypeStep == TypeOK /\ BundleInv /\ [Next]_vars => TypeOK'
<1> SUFFICES ASSUME TypeOK, FlagInv, PoolInv, [Next]_vars PROVE TypeOK'
    BY DEF BundleInv
<1> USE BundleAssumption
<1>1. CASE StartAll
    <2>1. starts' \in 0 .. MaxStarts
        BY <1>1 DEF StartAll, TypeOK
    <2>2. infraStarted' \in BOOLEAN
        BY <1>1 DEF StartAll, TypeOK
    <2>3. call' \in {call, "creating"} /\ job' \in [Regs -> JobStates]
        BY <1>1 DEF StartAll, TypeOK, JobStates
    <2> QED
        BY <1>1, <2>1, <2>2, <2>3 DEF StartAll, TypeOK, bundleVars, dockerVars
<1>2. CASE CtxEnds
    BY <1>2 DEF CtxEnds, TypeOK, bundleVars, callerVars, dockerVars
<1>3. ASSUME NEW r \in Regs, Take(r) PROVE TypeOK'
    BY <1>3 DEF Take, TypeOK, JobStates, bundleVars, callerVars, dockerVars
<1>4. ASSUME NEW r \in Regs, CheckCtx(r) PROVE TypeOK'
    BY <1>4 DEF CheckCtx, TypeOK, JobStates, bundleVars, callerVars, dockerVars
<1>5. ASSUME NEW r \in Regs, StartOK(r) PROVE TypeOK'
    <2>1. starts' = starts /\ <<r, starts>> \in Containers
        BY <1>5 DEF StartOK, TypeOK, FlagInv, PoolInv, Containers, callerVars
    <2> QED
        BY <1>5, <2>1 DEF StartOK, TypeOK, JobStates, bundleVars, callerVars
<1>6. ASSUME NEW r \in Regs, StartError(r) PROVE TypeOK'
    <2>1. starts' = starts /\ <<r, starts>> \in Containers
        BY <1>6 DEF StartError, TypeOK, FlagInv, PoolInv, Containers, callerVars
    <2>2. docker' \subseteq Containers /\ left' \subseteq docker'
        BY <1>6, <2>1 DEF StartError, TypeOK, dockerVars
    <2> QED
        BY <1>6, <2>1, <2>2 DEF StartError, TypeOK, JobStates, bundleVars, callerVars
<1>7. ASSUME NEW r \in Regs, Cancel(r) PROVE TypeOK'
    BY <1>7 DEF Cancel, TypeOK, JobStates, bundleVars, callerVars, dockerVars
<1>8. CASE Collect
    <2>1. startOrder' \in Seq(Regs) /\ cleanup' \in Seq(Containers)
        BY <1>8, RecordAppends DEF Collect, FlagInv, TypeOK, bundleVars
    <2>2. call' \in {"init", "undo"} /\ at' \in Nat /\ started' = started
        BY <1>8, BundleAssumption DEF Collect, Record, bundleVars
    <2> QED
        BY <1>8, <2>1, <2>2 DEF Collect, TypeOK, callerVars, dockerVars
<1>9. CASE UndoOne
    <2>1. docker' \subseteq Containers /\ left' \subseteq docker'
        <3>1. CASE at \in Created
            BY <1>9, <3>1, TerminateTypes DEF UndoOne
        <3>2. CASE at \notin Created
            BY <1>9, <3>2 DEF UndoOne, TypeOK, dockerVars
        <3> QED
            BY <3>1, <3>2
    <2> QED
        BY <1>9, <2>1 DEF UndoOne, TypeOK, bundleVars, callerVars
<1>10. CASE UndoReturn
    BY <1>10 DEF UndoReturn, TypeOK, JobStates, Return, bundleVars, callerVars, dockerVars
<1>11. CASE InitOK
    BY <1>11 DEF InitOK, TypeOK, bundleVars, callerVars, dockerVars
<1>12. CASE InitError
    BY <1>12 DEF InitError, TypeOK, bundleVars, callerVars, dockerVars
<1>13. CASE StartReturn
    BY <1>13 DEF StartReturn, TypeOK, JobStates, Return, dockerVars
<1>14. CASE StopAll
    BY <1>14 DEF StopAll, TypeOK, bundleVars, dockerVars
<1>15. CASE StopOne
    <2>1. docker' \subseteq Containers /\ left' \subseteq docker'
        BY <1>15, TerminateTypes DEF StopOne
    <2>2. stopErr' \in BOOLEAN
        BY <1>15 DEF StopOne, TypeOK
    <2> QED
        BY <1>15, <2>1, <2>2 DEF StopOne, TypeOK, bundleVars, callerVars
<1>16. CASE RollbackReturn
    <2>1. startOrder' \in Seq(Regs) /\ cleanup' \in Seq(Containers)
        BY <1>16, EmptySeq DEF RollbackReturn, ResetState
    <2> QED
        BY <1>16, <2>1
           DEF RollbackReturn, Return, ResetState, TypeOK, JobStates, callerVars, dockerVars
<1>17. CASE StopReturn
    <2>1. startOrder' \in Seq(Regs) /\ cleanup' \in Seq(Containers)
        BY <1>17, EmptySeq DEF StopReturn, ResetState, TypeOK, bundleVars
    <2>2. started' \in BOOLEAN /\ infraStarted' \in BOOLEAN
        BY <1>17 DEF StopReturn, ResetState, TypeOK, bundleVars
    <2> QED
        BY <1>17, <2>1, <2>2 DEF StopReturn, Return, TypeOK, JobStates, dockerVars
<1>18. CASE UNCHANGED vars
    BY <1>18
       DEF vars, TypeOK, JobStates, Return, ResetState,
           bundleVars, callerVars, dockerVars
<1> QED
    BY <1>1, <1>2, <1>3, <1>4, <1>5, <1>6, <1>7, <1>8, <1>9,
       <1>10, <1>11, <1>12, <1>13, <1>14, <1>15, <1>16, <1>17, <1>18
       DEF Next

LEMMA FlagStep == TypeOK /\ FlagInv /\ [Next]_vars => FlagInv'
<1> SUFFICES ASSUME TypeOK, FlagInv, [Next]_vars PROVE FlagInv'
    OBVIOUS
<1> USE BundleAssumption DEF TypeOK
<1>1. CASE StartAll
    BY <1>1 DEF StartAll, FlagInv, bundleVars
<1>2. CASE CtxEnds
    BY <1>2 DEF CtxEnds, FlagInv, bundleVars, callerVars
<1>3. ASSUME NEW r \in Regs, Take(r) PROVE FlagInv'
    BY <1>3 DEF Take, FlagInv, bundleVars, callerVars
<1>4. ASSUME NEW r \in Regs, CheckCtx(r) PROVE FlagInv'
    BY <1>4 DEF CheckCtx, FlagInv, bundleVars, callerVars
<1>5. ASSUME NEW r \in Regs, StartOK(r) PROVE FlagInv'
    BY <1>5 DEF StartOK, FlagInv, bundleVars, callerVars
<1>6. ASSUME NEW r \in Regs, StartError(r) PROVE FlagInv'
    BY <1>6 DEF StartError, FlagInv, bundleVars, callerVars
<1>7. ASSUME NEW r \in Regs, Cancel(r) PROVE FlagInv'
    BY <1>7 DEF Cancel, FlagInv, bundleVars, callerVars
<1>8. CASE Collect
    BY <1>8 DEF Collect, Record, FlagInv, bundleVars, callerVars
<1>9. CASE UndoOne
    BY <1>9 DEF UndoOne, FlagInv, bundleVars, callerVars
<1>10. CASE UndoReturn
    BY <1>10 DEF UndoReturn, FlagInv, Return, bundleVars, callerVars
<1>11. CASE InitOK
    BY <1>11 DEF InitOK, FlagInv, bundleVars, callerVars
<1>12. CASE InitError
    BY <1>12 DEF InitError, FlagInv, bundleVars, callerVars
<1>13. CASE StartReturn
    BY <1>13 DEF StartReturn, FlagInv, Return
<1>14. CASE StopAll
    <2>1. started' = started /\ infraStarted' = infraStarted /\ stopAsked' = TRUE
        BY <1>14 DEF StopAll, bundleVars
    <2>2. started /\ infraStarted /\ ~ctxDone
        BY <1>14 DEF StopAll, FlagInv
    <2> QED
        BY <1>14, <2>1, <2>2 DEF StopAll, FlagInv
<1>15. CASE StopOne
    BY <1>15 DEF StopOne, FlagInv, bundleVars, callerVars
<1>16. CASE RollbackReturn
    BY <1>16 DEF RollbackReturn, FlagInv, Return, ResetState, callerVars
<1>17. CASE StopReturn
    BY <1>17 DEF StopReturn, FlagInv, Return, ResetState, bundleVars
<1>18. CASE UNCHANGED vars
    BY <1>18 DEF vars, FlagInv, Return, ResetState, bundleVars, callerVars
<1> QED
    BY <1>1, <1>2, <1>3, <1>4, <1>5, <1>6, <1>7, <1>8, <1>9,
       <1>10, <1>11, <1>12, <1>13, <1>14, <1>15, <1>16, <1>17, <1>18
       DEF Next

-----------------------------------------------------------------------------
(* What the larger steps do, given the invariant.                          *)

LEMMA CollectRecords ==
    ASSUME TypeOK, BundleInv, Collect
    PROVE  /\ OrderInv'
           /\ call' = "undo" => \A i \in Recordings' :
                  cleanup'[i] \in docker /\ (cleanup'[i][2] = starts => ctxDone)
           /\ call' = "init" => AllUp'
<1> USE BundleAssumption
<1>1. /\ call = "creating" /\ starts # 0 /\ CreatingInv /\ OrderInv
      /\ UNCHANGED <<ctxDone, job, starts, docker, left>>
    BY DEF Collect, BundleInv, FlagInv, callerVars, dockerVars
<1>2. CASE \E r \in Regs : job[r] = "failed"
    <2>1. call' = "undo" /\ startOrder' = startOrder /\ cleanup' = cleanup
        BY <1>2 DEF Collect, bundleVars
    <2>2. Recordings' = Recordings
        BY <2>1 DEF Recordings
    <2>3. OrderInv'
        BY <1>1, <2>1, <2>2 DEF OrderInv, Later
    <2>4. \A i \in Recordings : cleanup[i] \in docker /\ cleanup[i][2] # starts
        <3>1. \A i \in Recordings : cleanup[i][2] \in Nat /\ cleanup[i][2] < starts
            BY <1>1, RecordingsType, ThisOne DEF CreatingInv
        <3> QED
            BY <1>1, <3>1 DEF CreatingInv, TypeOK
    <2> QED
        BY <2>1, <2>2, <2>3, <2>4
<1>3. CASE \A r \in Regs : job[r] # "failed"
    <2>1. Record /\ (IF Created = Regs THEN call' = "init" ELSE call' = "undo")
        BY <1>3 DEF Collect
    <2>2. PICK k \in 0 .. N :
             /\ Recorded = 1 .. k
             /\ startOrder' \in Seq(Regs) /\ Len(startOrder') = Len(startOrder) + k
             /\ cleanup' \in Seq(Containers) /\ Len(cleanup') = Len(cleanup) + k
             /\ \A i \in 1 .. Len(startOrder) : startOrder'[i] = startOrder[i]
             /\ \A i \in 1 .. Len(cleanup) : cleanup'[i] = cleanup[i]
             /\ \A i \in 1 .. k : /\ startOrder'[Len(startOrder) + i] = i
                                  /\ cleanup'[Len(cleanup) + i] = <<i, starts>>
        BY <1>1, <2>1, RecordAppends
    <2>3. PICK n \in Nat : n = Len(cleanup) /\ n = Len(startOrder)
        BY <1>1 DEF TypeOK, OrderInv
    \* The old recordings and the new ones.
    <2>4. ASSUME NEW i \in Recordings'
          PROVE  \/ /\ i \in Recordings /\ cleanup'[i] = cleanup[i]
                    /\ startOrder'[i] = startOrder[i] /\ i <= n
                 \/ /\ i > n /\ i - n \in 1 .. k
                    /\ cleanup'[i] = This(i - n) /\ startOrder'[i] = i - n
        <3>1. CASE i <= n
            BY <2>2, <2>3, <3>1 DEF Recordings
        <3>2. CASE i > n
            <4>1. i - n \in 1 .. k /\ n + (i - n) = i
                BY <2>2, <2>3, <3>2 DEF Recordings
            <4>2. cleanup'[n + (i - n)] = <<i - n, starts>> /\ startOrder'[n + (i - n)] = i - n
                BY <2>2, <2>3, <4>1
            <4> QED
                BY <3>2, <4>1, <4>2 DEF This
        <3> QED
            BY <2>3, <3>1, <3>2 DEF Recordings
    <2>5. ASSUME NEW r \in 1 .. k PROVE r \in Regs /\ job[r] = "created" /\ This(r) \in Safe
        <3>1. r \in Recorded /\ r \in 1 .. r
            BY <2>2
        <3> QED
            BY <1>1, <3>1 DEF Recorded, Created, CreatingInv
    <2>6. starts \in Nat /\ \A i \in Recordings : cleanup[i][2] \in Nat /\ cleanup[i][2] < starts
        BY <1>1, RecordingsType, ThisOne DEF CreatingInv, TypeOK
    <2>7. OrderInv'
        <3>1. \A i \in Recordings' : startOrder'[i] = cleanup'[i][1] /\ cleanup'[i][2] <= starts
            BY <1>1, <2>4, <2>6, ThisOne DEF OrderInv
        <3>2. ASSUME NEW i \in Recordings', NEW j \in Recordings', i < j
              PROVE  Later(cleanup'[j], cleanup'[i])
            <4>0. i \in Nat /\ j \in Nat
                BY DEF Recordings
            <4>1. CASE j <= n
                BY <1>1, <2>3, <2>4, <3>2, <4>0, <4>1 DEF OrderInv
            <4>2. CASE i <= n /\ j > n
                <5>1. cleanup'[i] = cleanup[i] /\ cleanup[i][2] < starts
                    BY <2>3, <2>4, <2>6, <4>0, <4>2
                <5>2. cleanup'[j][2] = starts
                    BY <2>3, <2>4, <4>0, <4>2, ThisOne
                <5>3. cleanup[i][2] \in Nat /\ starts \in Nat
                    BY <2>3, <2>4, <2>6, <4>0, <4>2
                <5> QED
                    BY <5>1, <5>2, <5>3 DEF Later
            <4>3. CASE i > n /\ j > n
                <5>1. cleanup'[i] = This(i - n) /\ cleanup'[j] = This(j - n)
                    BY <2>3, <2>4, <4>0, <4>3
                <5> QED
                    BY <2>3, <3>2, <4>0, <5>1, ThisOne DEF Later
            <4> QED
                BY <2>3, <3>2, <4>0, <4>1, <4>2, <4>3
        <3>3. Len(startOrder') = Len(cleanup')
            BY <2>2, <2>3
        <3> QED
            BY <1>1, <3>1, <3>2, <3>3 DEF OrderInv
    <2>8. \A i \in Recordings' : cleanup'[i] \in docker
        BY <1>1, <2>4, <2>5 DEF CreatingInv, Safe
    <2>9. CASE Created = Regs
        <3>1. call' = "init" /\ k = N
            <4>1. N \in Recorded
                BY <2>9 DEF Recorded, Regs
            <4> QED
                BY <2>1, <2>2, <2>9, <4>1
        <3>2. ASSUME NEW r \in Regs
              PROVE  /\ This(r) \in Safe
                     /\ \E i \in Recordings' : cleanup'[i] = This(r)
            <4>1. n + r \in Recordings' /\ r \in 1 .. k
                BY <2>2, <2>3, <3>1 DEF Recordings, Regs
            <4>2. cleanup'[n + r] = This(r)
                BY <2>2, <2>3, <4>1 DEF This
            <4> QED
                BY <2>5, <4>1, <4>2
        <3>3. \A h \in Safe : h[2] = starts
            BY <1>1 DEF CreatingInv
        <3>4. Safe' = Safe /\ \A r : This(r)' = This(r)
            BY <1>1 DEF Safe, This
        <3>5. AllUp'
            BY <1>1, <2>8, <3>2, <3>3, <3>4 DEF AllUp
        <3> QED
            BY <2>7, <3>1, <3>5
    <2>10. CASE Created # Regs
        <3>1. call' = "undo"
            BY <2>1, <2>10
        <3>2. ctxDone
            BY <1>1, <1>3, <2>10 DEF Created, Collect, PoolDrained, CreatingInv
        <3> QED
            BY <2>7, <2>8, <3>1, <3>2
    <2> QED
        BY <2>9, <2>10
<1> QED
    BY <1>2, <1>3

LEMMA UndoEffect ==
    ASSUME TypeOK, UndoInv, UndoOne
    PROVE  /\ at \in Regs /\ at' = at - 1
           /\ \/ at \notin Created /\ docker' = docker /\ left' = left
              \/ at \in Created /\ ~ctxDone /\ docker' = docker \ {This(at)} /\ left' = left
              \/ at \in Created /\ docker' = docker /\ left' = left \union {This(at)}
<1> USE BundleAssumption
<1>1. at \in Regs /\ at' = at - 1 /\ call = "undo"
    BY DEF UndoOne, UndoInv, TypeOK, Regs
<1>2. at \in Created => This(at) \in docker /\ This(at) \notin left
    BY <1>1 DEF UndoInv, Created, Safe, Regs
<1> QED
    BY <1>1, <1>2 DEF UndoOne, Terminated, NotTerminated, dockerVars, This

LEMMA StopEffect ==
    ASSUME TypeOK, DownInv, StopOne
    PROVE  /\ at \in Recordings /\ at' = at - 1 /\ cleanup[at] \in docker
           /\ \/ /\ ~ctxDone /\ stopErr' = stopErr
                 /\ docker' = docker \ {cleanup[at]} /\ left' = left \ {cleanup[at]}
              \/ docker' = docker /\ left' = left \union {cleanup[at]} /\ stopErr' = TRUE
<1>1. at \in Recordings /\ at' = at - 1 /\ cleanup[at] \in docker
    BY CleanupHandle DEF StopOne
<1> QED
    BY <1>1 DEF StopOne, Terminated, NotTerminated

\* No container is recorded twice.
LEMMA RecordedOnce ==
    ASSUME TypeOK, OrderInv, NEW i \in Recordings, NEW j \in Recordings,
           cleanup[i] = cleanup[j]
    PROVE  i = j
<1>1. cleanup[i][1] \in Int /\ cleanup[i][2] \in Int
    BY RecordingsType, ThisOne DEF Regs
<1>2. ~Later(cleanup[i], cleanup[i])
    BY <1>1 DEF Later
<1> QED
    BY <1>2 DEF OrderInv, Recordings

\* Where all are named, nothing that is complete stands besides leftovers.
LEMMA CrowdedUnnamed ==
    ASSUME TypeOK, DockerInv, AllUp, LeftOver
    PROVE  Named # Regs
<1>1. PICK h \in docker : h[2] # starts
    BY RecordingsType DEF LeftOver, AllUp, TypeOK, Recordings
<1>2. This(h[1]) \in docker /\ h[1] \in Regs
    BY ThisOne DEF AllUp, Safe, TypeOK
<1>3. h # This(h[1])
    BY <1>1, ThisOne
<1>4. This(h[1])[1] = h[1]
    BY ThisOne
<1> QED
    BY <1>1, <1>2, <1>3, <1>4 DEF DockerInv

LEMMA CallStep ==
    ASSUME TypeOK, BundleInv, [Next]_vars
    PROVE  /\ OrderInv' /\ DockerInv' /\ PoolInv'
           /\ NoneInv' /\ CreatingInv' /\ UndoInv' /\ InitInv' /\ DownInv'
<1> DEFINE Goal == /\ OrderInv' /\ DockerInv' /\ PoolInv'
                   /\ NoneInv' /\ CreatingInv' /\ UndoInv' /\ InitInv' /\ DownInv'
<1> SUFFICES Goal
    OBVIOUS
<1> USE BundleAssumption
<1> USE DEF BundleInv
<1>t. /\ docker \subseteq Containers /\ left \subseteq docker /\ starts \in 0 .. MaxStarts
      /\ at \in Nat /\ Len(cleanup) \in Nat /\ job \in [Regs -> JobStates]
    BY DEF TypeOK
<1>c. \A h \in docker : h[1] \in Regs /\ h[2] \in 1 .. MaxStarts
    BY <1>t, ThisOne
\* What follows where containers and recordings stay.
<1>s. ASSUME UNCHANGED <<starts, bundleVars>>
      PROVE  OrderInv' /\ Recordings' = Recordings /\ \A r : This(r)' = This(r)
    BY <1>s DEF OrderInv, Recordings, This, Later, bundleVars
<1>d. ASSUME UNCHANGED <<starts, dockerVars>>
      PROVE  DockerInv' /\ Safe' = Safe
    BY <1>d DEF DockerInv, Safe, dockerVars
<1>u. ASSUME UNCHANGED <<starts, bundleVars, dockerVars>>
      PROVE  (AllUp' <=> AllUp) /\ (LeftOver' <=> LeftOver)
    BY <1>u, <1>s, <1>d DEF AllUp, LeftOver, bundleVars, dockerVars
<1>1. CASE StartAll
    <2>1. ~started /\ Safe = {} /\ \A i \in Recordings : cleanup[i] \in docker
        BY <1>1 DEF StartAll, FlagInv, NoneInv
    <2>2. call' = "creating" /\ starts' = starts + 1 /\ job' = [r \in Regs |-> "queued"]
        BY <1>t, <1>1, <2>1 DEF StartAll
    <2>3. UNCHANGED <<bundleVars, dockerVars>> /\ Safe' = {} /\ Recordings' = Recordings
        BY <1>1, <2>1 DEF StartAll, Safe, Recordings, bundleVars, dockerVars
    <2>4. \A i \in Recordings : cleanup[i][2] \in Nat /\ cleanup[i][2] <= starts
        BY RecordingsType, ThisOne DEF OrderInv
    <2>5. OrderInv'
        BY <1>t, <2>2, <2>3, <2>4 DEF OrderInv, Later, bundleVars
    <2>6. DockerInv'
        BY <1>t, <1>c, <2>2, <2>3 DEF DockerInv, dockerVars
    <2>7. CreatingInv'
        <3>1. ASSUME NEW r \in Regs PROVE This(r)' \notin docker'
            <4>1. This(r)'[2] = starts + 1
                BY <2>2 DEF This
            <4>2. \A h \in docker : h[2] # starts + 1
                BY <1>t, <1>c DEF DockerInv
            <4> QED
                BY <2>3, <4>1, <4>2 DEF dockerVars
        <3>2. \A i \in Recordings : cleanup'[i] \in docker' /\ cleanup'[i][2] < starts'
            BY <1>t, <2>1, <2>2, <2>3, <2>4 DEF bundleVars, dockerVars
        <3> QED
            BY <2>2, <2>3, <3>1, <3>2 DEF CreatingInv
    <2>8. PoolInv' /\ NoneInv' /\ UndoInv' /\ InitInv' /\ DownInv'
        BY <2>2 DEF PoolInv, NoneInv, UndoInv, InitInv, DownInv
    <2> QED
        BY <2>5, <2>6, <2>7, <2>8
<1>2. CASE CtxEnds
    <2>1. /\ call \in {"creating", "undo", "init", "rollback"} /\ ctxDone'
          /\ UNCHANGED <<call, at, job, stopErr, bundleVars, starts, dockerVars>>
        BY <1>2 DEF CtxEnds, callerVars
    <2>2. OrderInv' /\ DockerInv' /\ PoolInv'
        BY <1>s, <1>d, <2>1 DEF PoolInv
    <2>3. CreatingInv'
        BY <1>s, <1>d, <2>1 DEF CreatingInv, bundleVars, dockerVars
    <2>4. UndoInv'
        BY <1>s, <1>d, <2>1 DEF UndoInv, bundleVars, dockerVars
    <2>5. InitInv'
        BY <1>u, <2>1 DEF InitInv
    <2>6. DownInv'
        BY <1>s, <1>u, <2>1 DEF DownInv, bundleVars, dockerVars
    <2> QED
        BY <2>1, <2>2, <2>3, <2>4, <2>5, <2>6 DEF NoneInv
\* The steps of the workers.
<1>p. ASSUME call = "creating", call' = call
      PROVE  PoolInv' /\ NoneInv' /\ UndoInv' /\ InitInv' /\ DownInv'
    BY <1>p DEF PoolInv, NoneInv, UndoInv, InitInv, DownInv
<1>3. ASSUME NEW r \in Regs, Take(r) \/ CheckCtx(r) \/ Cancel(r) PROVE Goal
    <2>1. /\ call = "creating" /\ call' = call
          /\ UNCHANGED <<ctxDone, bundleVars, starts, dockerVars>>
        BY <1>3 DEF Take, CheckCtx, Cancel, PoolInv, callerVars
    <2>2. /\ job[r] \notin {"created", "failed"}
          /\ \/ job' = [job EXCEPT ![r] = "taken"] /\ job[r] = "queued"
             \/ /\ job' = [job EXCEPT ![r] = "skipped"] /\ job[r] = "taken"
                /\ ctxDone \/ \E q \in Regs : job[q] = "failed"
             \/ job' = [job EXCEPT ![r] = "starting"] /\ job[r] = "taken"
             \/ job' = [job EXCEPT ![r] = "failed"] /\ job[r] = "failing"
        BY <1>3 DEF Take, CheckCtx, Cancel, CreateCtxDone
    <2>3. ASSUME NEW q \in Regs
          PROVE  /\ job'[q] = "created" <=> job[q] = "created"
                 /\ job'[q] \in {"queued", "taken", "starting"}
                        => job[q] \in {"queued", "taken", "starting"}
                 /\ job[q] = "failed" => job'[q] = "failed"
                 /\ job'[q] = "skipped" =>
                        job[q] = "skipped" \/ ctxDone \/ \E p \in Regs : job[p] = "failed"
        BY <1>t, <2>2
    <2>4. CreatingInv'
        <3>1. CreatingInv /\ UNCHANGED <<docker, cleanup>>
            BY <2>1 DEF bundleVars, dockerVars
        <3>2. ASSUME NEW q \in Regs, job'[q] = "skipped"
              PROVE  ctxDone' \/ \E p \in Regs : job'[p] = "failed"
            BY <2>1, <2>3, <3>1, <3>2 DEF CreatingInv
        <3>3. \A h \in Safe : h[1] \in Regs
            BY <1>c DEF Safe
        <3> QED
            BY <1>s, <1>d, <2>1, <2>3, <3>1, <3>2, <3>3 DEF CreatingInv
    <2> QED
        BY <1>s, <1>d, <1>p, <2>1, <2>4
<1>5. ASSUME NEW r \in Regs, StartOK(r) \/ StartError(r) PROVE Goal
    <2>1. /\ call = "creating" /\ call' = call /\ job[r] = "starting"
          /\ UNCHANGED <<ctxDone, bundleVars, starts>>
        BY <1>5 DEF StartOK, StartError, PoolInv, callerVars
    <2>2. /\ OrderInv' /\ Recordings' = Recordings /\ cleanup' = cleanup
          /\ \A q : This(q)' = This(q)
        BY <1>s, <2>1 DEF bundleVars
    <2>3. \/ docker' = docker /\ left' = left /\ job' = [job EXCEPT ![r] = "failing"]
          \/ /\ Free(r) /\ docker' = docker \union {This(r)}
             /\ \/ left' = left /\ job' = [job EXCEPT ![r] = "created"]
                \/ left' = left \union {This(r)} /\ job' = [job EXCEPT ![r] = "failing"]
        BY <1>5 DEF StartOK, StartError, dockerVars, This
    <2>4. This(r) \notin docker
        BY <2>1 DEF CreatingInv
    <2>5. DockerInv'
        <3>1. \A h \in docker' : h[2] <= starts'
            BY <1>t, <2>1, <2>3, ThisOne DEF DockerInv
        <3>2. Free(r) /\ r \in Named => \A h \in docker : h[1] # This(r)[1]
            BY ThisOne DEF Free
        <3>3. ASSUME NEW g \in docker', NEW h \in docker', g[1] = h[1], g[1] \in Named
              PROVE  g = h
            <4>1. CASE docker' = docker
                BY <3>3, <4>1 DEF DockerInv
            <4>2. CASE Free(r) /\ docker' = docker \union {This(r)}
                <5>1. CASE g \in docker /\ h \in docker
                    BY <3>3, <5>1 DEF DockerInv
                <5>2. CASE g = This(r) /\ h \in docker
                    BY <3>2, <3>3, <4>2, <5>2, ThisOne
                <5>3. CASE h = This(r) /\ g \in docker
                    BY <3>2, <3>3, <4>2, <5>3, ThisOne
                <5> QED
                    BY <4>2, <5>1, <5>2, <5>3
            <4> QED
                BY <2>3, <4>1, <4>2
        <3> QED
            BY <3>1, <3>3 DEF DockerInv
    <2>6. CreatingInv'
        <3>1. /\ docker' \in {docker, docker \union {This(r)}}
              /\ Safe' = IF job'[r] = "created" THEN Safe \union {This(r)} ELSE Safe
              /\ job'[r] \in {"created", "failing"}
              /\ \A q \in Regs : q # r => job'[q] = job[q]
              /\ job'[r] = "created" => docker' = docker \union {This(r)}
            BY <1>t, <2>3, <2>4 DEF Safe
        <3>2. ASSUME NEW h \in Safe' PROVE h[2] = starts' /\ job'[h[1]] = "created"
            <4>1. CASE h \in Safe
                <5>1. h[2] = starts /\ job[h[1]] = "created" /\ h[1] \in Regs
                    BY <1>c, <2>1, <4>1 DEF CreatingInv, Safe
                <5> QED
                    BY <2>1, <3>1, <5>1
            <4>2. CASE h \notin Safe
                BY <2>1, <3>1, <4>2, ThisOne
            <4> QED
                BY <4>1, <4>2
        <3>3. ASSUME NEW q \in Regs
              PROVE  /\ job'[q] = "created" => This(q) \in Safe'
                     /\ job'[q] \in {"queued", "taken", "starting"} => This(q) \notin docker'
                     /\ job'[q] = "skipped" => ctxDone \/ \E p \in Regs : job'[p] = "failed"
            <4>1. CASE q = r
                BY <3>1, <4>1
            <4>2. CASE q # r
                <5>1. This(q) # This(r)
                    BY <4>2, ThisOne
                <5>2. \A p \in Regs : job[p] = "failed" => job'[p] = "failed"
                    BY <2>1, <3>1
                <5> QED
                    BY <2>1, <3>1, <4>2, <5>1, <5>2 DEF CreatingInv
            <4> QED
                BY <4>1, <4>2
        <3>4. \A i \in Recordings : cleanup[i] \in docker' /\ cleanup[i][2] < starts
            BY <2>1, <3>1 DEF CreatingInv
        <3> QED
            BY <2>1, <2>2, <3>2, <3>3, <3>4 DEF CreatingInv
    <2> QED
        BY <1>p, <2>1, <2>2, <2>5, <2>6
<1>8. CASE Collect
    <2>1. /\ call = "creating" /\ call' \in {"undo", "init"} /\ (call' = "undo" => at' = N)
          /\ UNCHANGED <<ctxDone, job, starts, dockerVars>>
        BY <1>8 DEF Collect, callerVars
    <2>2. OrderInv' /\ DockerInv'
        BY <1>8, <1>d, <2>1, CollectRecords
    <2>3. UndoInv'
        <3> SUFFICES ASSUME call' = "undo" PROVE UndoInv'
            BY DEF UndoInv
        <3>1. \A i \in Recordings' : cleanup'[i] \in docker /\ (cleanup'[i][2] = starts => ctxDone)
            BY <1>8, CollectRecords
        <3>2. \A h \in Safe : h[2] = starts /\ job[h[1]] = "created" /\ h[1] <= N
            BY <1>c, <2>1 DEF CreatingInv, Safe, Regs
        <3>3. \A r \in Regs : job[r] = "created" => This(r) \in Safe
            BY <2>1 DEF CreatingInv
        <3>4. Safe' = Safe /\ \A r : This(r)' = This(r)
            BY <2>1 DEF Safe, This, dockerVars
        <3> QED
            BY <2>1, <3>1, <3>2, <3>3, <3>4 DEF UndoInv, dockerVars
    <2>4. InitInv'
        BY <1>8, CollectRecords DEF InitInv
    <2>5. PoolInv'
        BY <1>8 DEF Collect, PoolDrained, PoolInv
    <2>6. NoneInv' /\ CreatingInv' /\ DownInv'
        BY <2>1 DEF NoneInv, CreatingInv, DownInv
    <2> QED
        BY <2>2, <2>3, <2>4, <2>5, <2>6
<1>9. CASE UndoOne
    <2>1. call = "undo" /\ call' = "undo" /\ UNCHANGED <<ctxDone, job, bundleVars, starts>>
        BY <1>9 DEF UndoOne, callerVars
    <2>2. /\ at \in Regs /\ at' = at - 1
          /\ \/ at \notin Created /\ docker' = docker /\ left' = left
             \/ at \in Created /\ ~ctxDone /\ docker' = docker \ {This(at)} /\ left' = left
             \/ at \in Created /\ docker' = docker /\ left' = left \union {This(at)}
        BY <1>9, UndoEffect
    <2>3. /\ OrderInv' /\ Recordings' = Recordings /\ cleanup' = cleanup
          /\ \A q : This(q)' = This(q)
        BY <1>s, <2>1 DEF bundleVars
    <2>4. docker' \subseteq docker
        BY <2>2
    <2>5. DockerInv' /\ PoolInv'
        BY <2>1, <2>4 DEF DockerInv, PoolInv
    <2>6. UndoInv'
        <3>1. at' <= N
            BY <2>2 DEF Regs
        <3>2. /\ Safe' = Safe \/ Safe' = Safe \ {This(at)}
              /\ This(at) \in Safe' => at \notin Created
            BY <2>2 DEF Safe
        <3>3. ASSUME NEW h \in Safe'
              PROVE  h[2] = starts /\ job[h[1]] = "created" /\ h[1] <= at'
            <4>1. h[2] = starts /\ h[1] <= at /\ h \in docker /\ h = This(h[1]) /\ h[1] \in Regs
                BY <1>t, <2>1, <3>2, ThisOne DEF UndoInv, Safe
            <4>2. h[1] \in Created
                BY <2>1, <3>2, <4>1 DEF UndoInv, Created
            <4>3. h[1] # at
                BY <3>2, <4>1, <4>2
            <4> QED
                BY <2>1, <2>2, <3>2, <4>1, <4>3 DEF Regs, UndoInv
        <3>4. ASSUME NEW r \in Regs, job[r] = "created", r <= at' PROVE This(r) \in Safe'
            <4>1. r # at /\ r <= at
                BY <2>2, <3>4 DEF Regs
            <4>2. This(r) \in Safe /\ This(r) # This(at)
                BY <2>1, <3>4, <4>1, ThisOne DEF UndoInv
            <4> QED
                BY <3>2, <4>2
        <3>5. ASSUME NEW i \in Recordings
              PROVE  cleanup[i] \in docker' /\ (cleanup[i][2] = starts => ctxDone)
            <4>1. cleanup[i] \in docker /\ (cleanup[i][2] = starts => ctxDone)
                BY <2>1 DEF UndoInv
            <4>2. ~ctxDone => cleanup[i] # This(at)
                BY <4>1, ThisOne
            <4> QED
                BY <2>2, <4>1, <4>2
        <3> QED
            BY <2>1, <2>3, <3>1, <3>3, <3>4, <3>5 DEF UndoInv
    <2>7. NoneInv' /\ CreatingInv' /\ InitInv' /\ DownInv'
        BY <2>1 DEF NoneInv, CreatingInv, InitInv, DownInv
    <2> QED
        BY <2>3, <2>5, <2>6, <2>7
<1>10. CASE UndoReturn
    <2>1. /\ call = "undo" /\ call' = "none" /\ at = 0 /\ UNCHANGED <<bundleVars, starts, dockerVars>>
          /\ job' = [r \in Regs |-> "none"]
        BY <1>10 DEF UndoReturn, Return, callerVars
    <2>2. Safe = {}
        BY <1>c, <2>1 DEF UndoInv, Safe, Regs
    <2>3. NoneInv'
        <3>1. ~started' /\ \A i \in Recordings : cleanup[i] \in docker
            BY <2>1 DEF UndoInv, FlagInv, bundleVars
        <3> QED
            BY <1>s, <1>d, <2>1, <2>2, <3>1 DEF NoneInv, bundleVars, dockerVars
    <2>4. PoolInv' /\ CreatingInv' /\ UndoInv' /\ InitInv' /\ DownInv'
        BY <2>1 DEF PoolInv, CreatingInv, UndoInv, InitInv, DownInv
    <2> QED
        BY <1>s, <1>d, <2>1, <2>3, <2>4
<1>11. CASE InitOK
    <2>1. call = "init" /\ call' = "init" /\ UNCHANGED <<job, bundleVars, starts, dockerVars>>
        BY <1>11 DEF InitOK, callerVars
    <2>2. InitInv' /\ PoolInv'
        BY <1>u, <2>1 DEF InitInv, PoolInv
    <2>3. NoneInv' /\ CreatingInv' /\ UndoInv' /\ DownInv'
        BY <2>1 DEF NoneInv, CreatingInv, UndoInv, DownInv
    <2> QED
        BY <1>s, <1>d, <2>1, <2>2, <2>3
\* Everything that is up and not left over is recorded.
<1>a. ASSUME AllUp
      PROVE  \A h \in docker : h \notin left \/ h[2] = starts => \E i \in Recordings : cleanup[i] = h
    <2>1. \A h \in docker : h[2] = starts => h = This(h[1]) /\ h[1] \in Regs
        BY <1>t, ThisOne
    <2> QED
        BY <1>a, <2>1 DEF AllUp, Safe
<1>12. CASE InitError
    <2>1. /\ call = "init" /\ call' = "rollback" /\ at' = Len(cleanup)
          /\ UNCHANGED <<ctxDone, job, stopErr, bundleVars, starts, dockerVars>>
        BY <1>12 DEF InitError, callerVars
    <2>2. AllUp /\ ~stopErr
        BY <2>1 DEF InitInv, FlagInv
    <2>3. Named = Regs => ~LeftOver
        BY <2>2, CrowdedUnnamed
    <2>4. DownInv'
        <3>1. 1 .. at' = Recordings /\ UNCHANGED <<cleanup, docker, left>> /\ at' = Len(cleanup')
            BY <2>1 DEF Recordings, bundleVars, dockerVars
        <3>2. \A i \in Recordings : cleanup[i] \in docker
            BY <2>2 DEF AllUp
        <3> QED
            BY <1>a, <1>t, <1>u, <2>1, <2>2, <2>3, <3>1, <3>2 DEF DownInv
    <2>5. PoolInv' /\ NoneInv' /\ CreatingInv' /\ UndoInv' /\ InitInv'
        BY <2>1 DEF PoolInv, NoneInv, CreatingInv, UndoInv, InitInv
    <2> QED
        BY <1>s, <1>d, <2>1, <2>4, <2>5
<1>13. CASE StartReturn
    <2>1. /\ call = "init" /\ call' = "none" /\ started' = TRUE
          /\ UNCHANGED <<startOrder, cleanup, starts, dockerVars>>
          /\ job' = [r \in Regs |-> "none"]
        BY <1>13 DEF StartReturn, Return
    <2>2. OrderInv' /\ DockerInv'
        BY <1>d, <2>1 DEF OrderInv, Recordings, Later
    <2>3. AllUp'
        BY <1>d, <2>1 DEF InitInv, AllUp, Recordings, This, dockerVars
    <2>4. NoneInv' /\ PoolInv' /\ CreatingInv' /\ UndoInv' /\ InitInv' /\ DownInv'
        BY <2>1, <2>3 DEF NoneInv, PoolInv, CreatingInv, UndoInv, InitInv, DownInv
    <2> QED
        BY <2>2, <2>4
<1>14. CASE StopAll
    <2>1. /\ call = "none" /\ call' = "stopping" /\ at' = Len(cleanup)
          /\ UNCHANGED <<ctxDone, job, stopErr, bundleVars, starts, dockerVars>>
        BY <1>14 DEF StopAll
    <2>2. AllUp /\ ~stopErr
        BY <1>14 DEF StopAll, FlagInv, NoneInv
    <2>3. DownInv'
        <3>1. 1 .. at' = Recordings /\ UNCHANGED <<cleanup, docker, left>> /\ at' = Len(cleanup')
            BY <2>1 DEF Recordings, bundleVars, dockerVars
        <3>2. \A i \in Recordings : cleanup[i] \in docker
            BY <2>2 DEF AllUp
        <3> QED
            BY <1>a, <1>t, <2>1, <2>2, <3>1, <3>2 DEF DownInv
    <2>4. PoolInv' /\ NoneInv' /\ CreatingInv' /\ UndoInv' /\ InitInv'
        BY <2>1 DEF PoolInv, NoneInv, CreatingInv, UndoInv, InitInv
    <2> QED
        BY <1>s, <1>d, <2>1, <2>3, <2>4
<1>15. CASE StopOne
    <2>1. /\ call \in {"rollback", "stopping"} /\ call' = call
          /\ UNCHANGED <<ctxDone, job, bundleVars, starts>>
        BY <1>15 DEF StopOne, callerVars
    <2>2. /\ at \in Recordings /\ at' = at - 1 /\ cleanup[at] \in docker
          /\ \/ /\ stopErr' = stopErr
                /\ docker' = docker \ {cleanup[at]} /\ left' = left \ {cleanup[at]}
             \/ docker' = docker /\ left' = left \union {cleanup[at]} /\ stopErr' = TRUE
        BY <1>15, StopEffect
    <2>3. OrderInv' /\ Recordings' = Recordings /\ cleanup' = cleanup
        BY <1>s, <2>1 DEF bundleVars
    <2>4. DockerInv' /\ PoolInv'
        BY <2>1, <2>2 DEF DockerInv, PoolInv
    <2>5. \A i \in Recordings : i # at => cleanup[i] # cleanup[at]
        BY <2>2, RecordedOnce
    <2>6. at \in Nat \ {0} /\ at <= Len(cleanup) /\ 1 .. at = (1 .. at') \union {at}
          /\ 1 .. at \subseteq Recordings
        BY <1>t, <2>2 DEF Recordings
    <2>7. DownInv'
        <3>1. at' <= Len(cleanup')
            BY <1>t, <2>2, <2>3, <2>6
        <3>2. ASSUME NEW i \in 1 .. at' PROVE cleanup[i] \in docker'
            <4>1. i # at /\ i \in 1 .. at /\ i \in Recordings
                BY <2>2, <2>6
            <4>2. cleanup[i] \in docker /\ cleanup[i] # cleanup[at]
                BY <2>1, <2>5, <4>1 DEF DownInv
            <4> QED
                BY <2>2, <4>2
        <3>3. ASSUME NEW h \in docker', h \notin left' \/ (h[2] = starts /\ ~stopErr')
              PROVE  \E i \in 1 .. at' : cleanup[i] = h
            <4>1. h \in docker /\ h # cleanup[at] /\ (h \notin left \/ (h[2] = starts /\ ~stopErr))
                <5>1. CASE docker' = docker \ {cleanup[at]} /\ left' = left \ {cleanup[at]}
                           /\ stopErr' = stopErr
                    BY <3>3, <5>1
                <5>2. CASE docker' = docker /\ left' = left \union {cleanup[at]} /\ stopErr' = TRUE
                    BY <3>3, <5>2
                <5> QED
                    BY <2>2, <5>1, <5>2
            <4>2. PICK i \in 1 .. at : cleanup[i] = h
                BY <2>1, <4>1 DEF DownInv
            <4> QED
                BY <2>6, <4>1, <4>2
        <3>4. ASSUME stopErr' PROVE \E i \in Recordings : i > at' /\ cleanup[i] \in left'
            <4>1. CASE left' = left \union {cleanup[at]}
                BY <2>2, <2>6, <4>1
            <4>2. CASE stopErr' = stopErr /\ left' = left \ {cleanup[at]}
                <5>1. PICK i \in Recordings : i > at /\ cleanup[i] \in left
                    BY <2>1, <3>4, <4>2 DEF DownInv
                <5>2. i # at /\ i > at'
                    BY <2>2, <2>6, <5>1 DEF Recordings
                <5> QED
                    BY <2>5, <4>2, <5>1, <5>2
            <4> QED
                BY <2>2, <4>1, <4>2
        <3>5. call = "rollback" /\ Named = Regs => ~LeftOver'
            <4>1. LeftOver' => LeftOver
                BY <2>1, <2>2 DEF LeftOver, bundleVars
            <4> QED
                BY <2>1, <4>1 DEF DownInv
        <3> QED
            BY <2>1, <2>3, <3>1, <3>2, <3>3, <3>4, <3>5 DEF DownInv
    <2>8. NoneInv' /\ CreatingInv' /\ UndoInv' /\ InitInv'
        BY <2>1 DEF NoneInv, CreatingInv, UndoInv, InitInv
    <2> QED
        BY <2>3, <2>4, <2>7, <2>8
\* Nothing but leftovers is up at the end of the loop.
<1>e. ASSUME call \in {"rollback", "stopping"}, at = 0 PROVE Safe = {}
    BY <1>e DEF DownInv, Safe
<1>r. ASSUME ResetState, UNCHANGED <<starts, dockerVars>>, call' = "none", Safe = {}
      PROVE  OrderInv' /\ NoneInv'
    <2>1. cleanup' = <<>> /\ startOrder' = <<>> /\ ~started' /\ Safe' = {}
        BY <1>r, <1>d DEF ResetState
    <2>2. Recordings' = {}
        BY <2>1 DEF Recordings
    <2> QED
        BY <2>1, <2>2 DEF OrderInv, NoneInv
<1>n. ASSUME Return PROVE PoolInv' /\ CreatingInv' /\ UndoInv' /\ InitInv' /\ DownInv'
    BY <1>n DEF Return, PoolInv, CreatingInv, UndoInv, InitInv, DownInv
<1>16. CASE RollbackReturn
    <2>1. /\ call = "rollback" /\ at = 0 /\ Return /\ ResetState /\ call' = "none"
          /\ UNCHANGED <<starts, dockerVars>>
        BY <1>16 DEF RollbackReturn, Return, callerVars
    <2> QED
        BY <1>d, <1>e, <1>n, <1>r, <2>1
<1>17. CASE StopReturn
    <2>1. /\ call = "stopping" /\ at = 0 /\ Return /\ call' = "none"
          /\ UNCHANGED <<starts, stopAsked, dockerVars>>
        BY <1>17 DEF StopReturn, Return
    <2>2. CASE stopErr
        <3>1. UNCHANGED bundleVars
            BY <1>17, <2>2 DEF StopReturn
        <3>2. started' /\ stopAsked' /\ Safe' = {}
            BY <1>d, <1>e, <2>1, <3>1 DEF FlagInv, bundleVars
        <3> QED
            BY <1>s, <1>d, <1>n, <2>1, <3>1, <3>2 DEF NoneInv
    <2>3. CASE ~stopErr
        BY <1>d, <1>e, <1>n, <1>r, <1>17, <2>1, <2>3 DEF StopReturn
    <2> QED
        BY <2>2, <2>3
<1>18. CASE UNCHANGED vars
    <2>1. /\ UNCHANGED <<call, at, ctxDone, job, stopErr, bundleVars, starts, dockerVars>>
          /\ UNCHANGED stopAsked
        BY <1>18 DEF vars, bundleVars, dockerVars
    <2>2. UNCHANGED <<started, cleanup, docker, left>>
        BY <2>1 DEF bundleVars, dockerVars
    <2>3. NoneInv' /\ InitInv' /\ PoolInv'
        BY <1>s, <1>d, <1>u, <2>1, <2>2 DEF NoneInv, InitInv, PoolInv
    <2>4. CreatingInv' /\ UndoInv'
        BY <1>s, <1>d, <2>1, <2>2 DEF CreatingInv, UndoInv
    <2>5. DownInv'
        BY <1>s, <1>u, <2>1, <2>2 DEF DownInv
    <2> QED
        BY <1>s, <1>d, <2>1, <2>3, <2>4, <2>5
<1> QED
    BY <1>1, <1>2, <1>3, <1>5, <1>8, <1>9, <1>10, <1>11, <1>12, <1>13, <1>14, <1>15, <1>16,
       <1>17, <1>18
       DEF Next

-----------------------------------------------------------------------------
LEMMA BundleInvariant == Spec => [](TypeOK /\ BundleInv)
<1>1. ASSUME Init PROVE TypeOK
    <2>1. startOrder \in Seq(Regs) /\ cleanup \in Seq(Containers)
        BY <1>1, EmptySeq DEF Init
    <2>2. docker = {} /\ left = {} /\ starts \in 0 .. MaxStarts
        BY <1>1, BundleAssumption DEF Init
    <2> QED
        BY <1>1, <2>1, <2>2 DEF Init, TypeOK, JobStates
<1>2. ASSUME Init PROVE BundleInv
    <2>1. /\ cleanup = <<>> /\ startOrder = <<>> /\ call = "none" /\ ~started /\ docker = {}
          /\ left = {}
        BY <1>2 DEF Init
    <2>2. Recordings = {} /\ Safe = {}
        BY <2>1 DEF Recordings, Safe
    <2>3. OrderInv /\ DockerInv
        BY <2>1, <2>2 DEF OrderInv, DockerInv
    <2>4. FlagInv /\ PoolInv
        BY <1>2 DEF Init, FlagInv, PoolInv
    <2>5. NoneInv
        BY <2>1, <2>2 DEF NoneInv
    <2> QED
        BY <2>1, <2>3, <2>4, <2>5 DEF BundleInv, CreatingInv, UndoInv, InitInv, DownInv
<1>3. TypeOK /\ BundleInv /\ [Next]_vars => TypeOK' /\ BundleInv'
    BY TypeStep, FlagStep, CallStep DEF BundleInv
<1> QED
    BY <1>1, <1>2, <1>3, PTL DEF Spec

\* Every variable keeps its range; the loops that count down end at 0; what is held to
\* be left over does run.
THEOREM TypeCorrect == Spec => []TypeOK
<1> QED
    BY BundleInvariant, PTL

\* Whatever fails or is cut short, for any number of registrations and workers.
THEOREM NothingForgottenAlways == Spec => []NothingForgotten
<1>1. BundleInv => NothingForgotten
    BY DEF BundleInv, FlagInv, NoneInv, NothingForgotten, Safe
<1> QED
    BY <1>1, BundleInvariant, PTL

\* No Init runs with a container of its call missing.
THEOREM InitSeesAllAlways == Spec => []InitSeesAll
<1>1. BundleInv => InitSeesAll
    <2> SUFFICES ASSUME BundleInv, call = "init", NEW h \in Regs \X {starts} PROVE h \in docker
        BY DEF InitSeesAll
    <2>1. h[1] \in Regs /\ h = <<h[1], starts>>
        OBVIOUS
    <2>2. <<h[1], starts>> \in docker
        BY <2>1 DEF BundleInv, InitInv, AllUp, Safe, This
    <2> QED
        BY <2>1, <2>2
<1> QED
    BY <1>1, BundleInvariant, PTL

\* The flags of daemon and bundle agree with each other and with docker.
THEOREM StartedMeansAllAlways == Spec => []StartedMeansAll
<1>1. TypeOK /\ BundleInv => StartedMeansAll
    <2> SUFFICES ASSUME TypeOK, BundleInv, call = "none" PROVE StartedMeansAll
        BY DEF StartedMeansAll
    <2>1. infraStarted = started
        BY DEF BundleInv, FlagInv
    <2>2. ASSUME started, ~stopAsked, NEW r \in Regs
          PROVE  <<r, starts>> \in docker /\ \E i \in DOMAIN cleanup : cleanup[i] = <<r, starts>>
        <3>1. AllUp
            BY <2>2 DEF BundleInv, NoneInv
        <3>2. PICK i \in Recordings : cleanup[i] = This(r)
            BY <3>1 DEF AllUp
        <3> QED
            BY <3>1, <3>2, RecordingsType DEF AllUp, Safe, This
    <2> QED
        BY <2>1, <2>2 DEF StartedMeansAll
<1> QED
    BY <1>1, BundleInvariant, PTL

\* Every recording is of a container that runs, and there is one of each docker name,
\* although a failed StartAll leaves its recordings and the next one appends.
THEOREM ContainersListsRunningAlways == Spec => []ContainersListsRunning
<1>1. TypeOK /\ BundleInv => ContainersListsRunning
    <2> SUFFICES ASSUME TypeOK, BundleInv, call = "none", ~stopAsked
                 PROVE  ContainersListsRunning
        BY DEF ContainersListsRunning
    <2>1. DOMAIN startOrder = Recordings
        BY DEF TypeOK, BundleInv, OrderInv, Recordings
    <2>2. \A i \in Recordings : startOrder[i] = cleanup[i][1] /\ cleanup[i] \in docker
        BY DEF BundleInv, OrderInv, NoneInv, AllUp
    <2>3. ASSUME NEW i \in Recordings, NEW j \in Recordings,
                 startOrder[i] \in Named, startOrder[i] = startOrder[j]
          PROVE  i = j
        <3>1. cleanup[i] = cleanup[j]
            BY <2>2, <2>3 DEF BundleInv, DockerInv
        <3> QED
            BY <3>1, RecordedOnce DEF BundleInv
    <2> QED
        BY <2>1, <2>2, <2>3 DEF ContainersListsRunning
<1> QED
    BY <1>1, BundleInvariant, PTL

-----------------------------------------------------------------------------
\* Only the two loops remove containers, the one they are at.
LEMMA OnlyLoopsRemove ==
    ASSUME TypeOK, BundleInv, [Next]_vars, NEW h \in docker, h \notin docker'
    PROVE  (UndoOne /\ h = This(at)) \/ (StopOne /\ h = cleanup[at])
<1>1. CASE UndoOne
    BY <1>1, UndoEffect DEF BundleInv
<1>2. CASE StopOne
    BY <1>2, StopEffect DEF BundleInv
<1>3. ASSUME NEW q \in Regs, StartOK(q) \/ StartError(q) PROVE FALSE
    BY <1>3 DEF StartOK, StartError, dockerVars
<1>4. CASE docker' = docker
    BY <1>4
<1> QED
    BY <1>1, <1>2, <1>3, <1>4
    DEF Next, vars, dockerVars, StartAll, CtxEnds, Take, CheckCtx, Cancel, Collect, UndoReturn,
        InitOK, InitError, StartReturn, StopAll, RollbackReturn, StopReturn

\* Removal goes from the last container to the first, in undo, rollback and stop.
THEOREM ReverseOrderAlways == Spec => ReverseOrder
<1>1. ASSUME TypeOK, BundleInv, [Next]_vars,
             NEW h \in docker, h \notin docker', NEW g \in docker, Later(g, h)
      PROVE  g \in left
    <2>0. /\ g[1] \in Int /\ g[2] \in Int /\ h[1] \in Int /\ h[2] \in Int /\ starts \in Int
          /\ g[2] <= starts
        BY <1>1, ThisOne DEF TypeOK, BundleInv, DockerInv, Regs
    <2>1. CASE UndoOne /\ h = This(at)
        <3>1. h[1] = at /\ h[2] = starts /\ call = "undo"
            BY <2>1, ThisOne DEF UndoOne
        <3>2. g[1] > at
            BY <1>1, <2>0, <3>1 DEF Later
        <3> QED
            BY <1>1, <2>0, <3>1, <3>2 DEF BundleInv, UndoInv, Safe
    <2>2. CASE StopOne /\ h = cleanup[at]
        <3>1. call \in {"rollback", "stopping"} /\ at \in Recordings
            BY <1>1, <2>2, StopEffect DEF BundleInv, StopOne
        <3>2. SUFFICES ASSUME g \notin left PROVE FALSE
            OBVIOUS
        <3>3. PICK i \in 1 .. at : cleanup[i] = g
            BY <1>1, <3>1, <3>2 DEF BundleInv, DownInv
        <3>4. i \in Recordings
            BY <3>1, <3>3 DEF Recordings
        <3>5. i # at
            BY <1>1, <2>0, <2>2, <3>3 DEF Later
        <3>6. Later(h, g)
            BY <1>1, <2>2, <3>1, <3>3, <3>4, <3>5 DEF BundleInv, OrderInv, Recordings
        <3> QED
            BY <1>1, <2>0, <3>6 DEF Later
    <2> QED
        BY <1>1, <2>1, <2>2, OnlyLoopsRemove
<1>2. TypeOK /\ BundleInv /\ [Next]_vars
        => \A h \in docker \ docker' : \A g \in docker : Later(g, h) => g \in left
    BY <1>1
<1> QED
    BY <1>2, BundleInvariant, PTL DEF Spec, ReverseOrder

-----------------------------------------------------------------------------
(* The bundle implements `Environment'.                                    *)

\* While a call is under way what an earlier one left counts, removed by now or not.
LEMMA LeftOverStays ==
    ASSUME TypeOK, BundleInv, [Next]_vars, call # "none", call' # "none"
    PROVE  LeftOver' <=> LeftOver
<1> USE BundleAssumption
<1> DEFINE Recordeds == {cleanup[i] : i \in DOMAIN cleanup}
<1>d. Recordeds = {cleanup[i] : i \in Recordings}
    BY DEF TypeOK, Recordings
<1>1. starts' = starts
    BY DEF Next, vars, callerVars, StartAll, CtxEnds, Take, CheckCtx, StartOK, StartError,
           Cancel, Collect, UndoOne, UndoReturn, InitOK, InitError, StartReturn, StopAll,
           StopOne, RollbackReturn, StopReturn
<1>2. CASE UndoOne
    <2>1. cleanup' = cleanup /\ (docker' = docker \/ docker' = docker \ {This(at)})
        BY <1>2, UndoEffect DEF UndoOne, BundleInv, bundleVars
    <2> QED
        BY <1>1, <2>1, ThisOne DEF LeftOver
<1>3. CASE StopOne
    <2>1. /\ cleanup' = cleanup /\ (docker' = docker \/ docker' = docker \ {cleanup[at]})
          /\ cleanup[at] \in Recordeds
        BY <1>3, <1>d, StopEffect DEF StopOne, BundleInv, bundleVars
    <2>2. docker' \union Recordeds = docker \union Recordeds
        BY <2>1
    <2> QED
        BY <1>1, <2>1, <2>2 DEF LeftOver
<1>4. ASSUME NEW q \in Regs, StartOK(q) \/ StartError(q) PROVE LeftOver' <=> LeftOver
    <2>1. cleanup' = cleanup /\ (docker' = docker \/ docker' = docker \union {This(q)})
        BY <1>4 DEF StartOK, StartError, bundleVars, dockerVars, This
    <2> QED
        BY <1>1, <2>1, ThisOne DEF LeftOver
<1>5. CASE Collect
    <2>1. docker' = docker
        BY <1>5 DEF Collect, dockerVars
    <2>2. CASE cleanup' = cleanup
        BY <1>1, <2>1, <2>2 DEF LeftOver
    <2>3. CASE Record
        <3>1. PICK k \in 0 .. N :
                 /\ cleanup' \in Seq(Containers) /\ Len(cleanup') = Len(cleanup) + k
                 /\ \A i \in 1 .. Len(cleanup) : cleanup'[i] = cleanup[i]
                 /\ \A i \in 1 .. k : cleanup'[Len(cleanup) + i] = <<i, starts>>
            BY <1>5, <2>3, RecordAppends DEF Collect, BundleInv, FlagInv
        <3>2. PICK n \in Nat : n = Len(cleanup)
            BY DEF TypeOK
        <3>3. DOMAIN cleanup = 1 .. n /\ DOMAIN cleanup' = 1 .. (n + k)
            BY <3>1, <3>2 DEF TypeOK
        <3>4. ASSUME NEW i \in 1 .. (n + k)
              PROVE  \/ i \in 1 .. n /\ cleanup'[i] = cleanup[i]
                     \/ cleanup'[i][2] = starts
            <4>1. CASE i <= n
                BY <3>1, <3>2, <4>1
            <4>2. CASE i > n
                <5>1. i - n \in 1 .. k /\ n + (i - n) = i
                    BY <3>2, <4>2
                <5>2. cleanup'[n + (i - n)] = <<i - n, starts>>
                    BY <3>1, <3>2, <5>1
                <5> QED
                    BY <5>1, <5>2
            <4> QED
                BY <3>2, <4>1, <4>2
        <3>5. ASSUME NEW i \in 1 .. n PROVE i \in 1 .. (n + k) /\ cleanup'[i] = cleanup[i]
            BY <3>1, <3>2
        <3>6. LeftOver => LeftOver'
            BY <1>1, <2>1, <3>3, <3>5 DEF LeftOver
        <3>7. LeftOver' => LeftOver
            BY <1>1, <2>1, <3>3, <3>4 DEF LeftOver
        <3> QED
            BY <3>6, <3>7
    <2> QED
        BY <1>5, <2>2, <2>3 DEF Collect, bundleVars
<1>6. CASE UNCHANGED <<docker, cleanup>>
    BY <1>1, <1>6 DEF LeftOver
<1> QED
    BY <1>2, <1>3, <1>4, <1>5, <1>6
    DEF Next, vars, bundleVars, dockerVars, StartAll, CtxEnds, Take, CheckCtx, Cancel,
        UndoReturn, InitOK, InitError, StartReturn, StopAll, RollbackReturn, StopReturn, Return

\* The mapping, by the call under way.
Complete == Regs \X {starts} \subseteq Safe
EnvironmentShape ==
    /\ call \in {"creating", "undo", "init", "rollback"} =>
           BusyNow = "start" /\ EnvironmentNow = IF LeftOver THEN "partial" ELSE "down"
    /\ call = "stopping" =>
           BusyNow = "stop" /\ EnvironmentNow = IF LeftOver THEN "crowded" ELSE "up"
    /\ call = "none" =>
           /\ BusyNow = "no"
           /\ EnvironmentNow = IF docker = {} THEN "down"
                               ELSE IF ~Complete THEN "partial"
                               ELSE IF LeftOver THEN "crowded" ELSE "up"

LEMMA EnvironmentValues == EnvironmentShape
BY DEF EnvironmentShape, EnvironmentNow, BusyNow, Complete, Safe

LEMMA UpIsComplete ==
    ASSUME AllUp
    PROVE  docker # {} /\ Complete
<1>1. 1 \in Regs
    BY BundleAssumption DEF Regs
<1>2. ASSUME NEW h \in Regs \X {starts} PROVE h \in Safe
    <2>1. h[1] \in Regs /\ h = <<h[1], starts>>
        OBVIOUS
    <2> QED
        BY <2>1 DEF AllUp, This
<1> QED
    BY <1>1, <1>2 DEF AllUp, Safe, Complete

LEMMA LeftIsNotComplete ==
    ASSUME Safe = {}
    PROVE  ~Complete
<1>1. <<1, starts>> \in Regs \X {starts}
    BY BundleAssumption DEF Regs
<1> QED
    BY <1>1 DEF Complete

\* What each step is to the environment.
LEMMA EnvironmentStep ==
    ASSUME TypeOK, BundleInv, [Next]_vars, TypeOK', BundleInv'
    PROVE  [Promised!EnvironmentNext]_(Promised!environmentVars)
<1> USE BundleAssumption
<1> DEFINE Same == EnvironmentNow' = EnvironmentNow /\ infraStarted' = infraStarted /\ BusyNow' = BusyNow
           Goal == Promised!EnvironmentNext \/ Same
<1>0. SUFFICES Goal
    BY DEF Promised!environmentVars
<1>v. EnvironmentShape /\ EnvironmentShape'
    BY EnvironmentValues, PTL
<1>a. ASSUME call \in {"creating", "undo", "init", "rollback"},
             call' \in {"creating", "undo", "init", "rollback"}
      PROVE  Goal
    <2>1. LeftOver' <=> LeftOver
        BY <1>a, LeftOverStays
    <2>2. ~infraStarted /\ ~infraStarted' /\ infraStarted \in BOOLEAN /\ infraStarted' \in BOOLEAN
        BY <1>a DEF BundleInv, FlagInv, TypeOK
    <2>3. /\ BusyNow = "start" /\ BusyNow' = "start"
          /\ EnvironmentNow = IF LeftOver THEN "partial" ELSE "down"
          /\ EnvironmentNow' = IF LeftOver' THEN "partial" ELSE "down"
        BY <1>a, <1>v DEF EnvironmentShape
    <2> QED
        BY <2>1, <2>2, <2>3
\* Without a container that is safe, nothing is complete.
<1>b. ASSUME Safe = {}, call = "none"
      PROVE  EnvironmentNow = IF docker = {} THEN "down" ELSE "partial"
    BY <1>b, <1>v, LeftIsNotComplete DEF EnvironmentShape
<1>c. ASSUME Safe' = {}, call' = "none"
      PROVE  EnvironmentNow' = IF docker' = {} THEN "down" ELSE "partial"
    <2>1. ~Complete'
        <3>1. <<1, starts'>> \in Regs \X {starts'}
            BY DEF Regs
        <3> QED
            BY <1>c, <3>1 DEF Complete
    <2> QED
        BY <1>c, <1>v, <2>1 DEF EnvironmentShape
<1>1. CASE StartAll
    <2>1. /\ ~started /\ ~infraStarted /\ call = "none" /\ call' = "creating" /\ docker' = docker
          /\ cleanup' = cleanup /\ starts' = starts + 1 /\ infraStarted' = infraStarted
        BY <1>1 DEF StartAll, BundleInv, FlagInv, dockerVars, bundleVars
    <2>2. Safe = {} /\ \A i \in DOMAIN cleanup : cleanup[i] \in docker
        BY <2>1 DEF BundleInv, NoneInv, TypeOK, Recordings
    <2>3. \A h \in docker : h[2] # starts'
        BY <2>1, ThisOne DEF BundleInv, DockerInv, TypeOK
    <2>4. LeftOver' <=> docker # {}
        BY <2>1, <2>2, <2>3 DEF LeftOver
    <2>5. BusyNow = "no" /\ EnvironmentNow = IF docker = {} THEN "down" ELSE "partial"
        BY <1>b, <1>v, <2>1, <2>2 DEF EnvironmentShape
    <2>6. BusyNow' = "start" /\ EnvironmentNow' = IF LeftOver' THEN "partial" ELSE "down"
        BY <1>v, <2>1 DEF EnvironmentShape
    <2> QED
        BY <2>1, <2>4, <2>5, <2>6 DEF Promised!EnvironmentNext, Promised!BeginStart
<1>2. CASE UndoReturn
    <2>1. /\ call = "undo" /\ call' = "none" /\ docker' = docker /\ cleanup' = cleanup
          /\ started' = started /\ infraStarted' = infraStarted
        BY <1>2 DEF UndoReturn, Return, bundleVars, callerVars, dockerVars
    <2>2. ~started /\ ~infraStarted
        BY <2>1 DEF BundleInv, FlagInv
    <2>3. Safe' = {}
        BY <2>1, <2>2 DEF BundleInv, NoneInv
    <2>4. BusyNow = "start" /\ EnvironmentNow = IF LeftOver THEN "partial" ELSE "down"
        BY <1>v, <2>1 DEF EnvironmentShape
    <2>5. BusyNow' = "no" /\ EnvironmentNow' = IF docker' = {} THEN "down" ELSE "partial"
        BY <1>c, <1>v, <2>1, <2>3 DEF EnvironmentShape
    <2>6. LeftOver => docker # {}
        BY <2>1 DEF LeftOver, BundleInv, UndoInv, TypeOK, Recordings
    <2> QED
        BY <2>1, <2>4, <2>5, <2>6 DEF Promised!EnvironmentNext, Promised!StartFailed
<1>3. CASE StartReturn
    <2>1. /\ call = "init" /\ call' = "none" /\ infraStarted' = TRUE
          /\ UNCHANGED <<docker, left, cleanup, starts>>
        BY <1>3 DEF StartReturn, Return, dockerVars
    <2>2. AllUp /\ (LeftOver' <=> LeftOver) /\ (Complete' <=> Complete)
        BY <2>1 DEF BundleInv, InitInv, LeftOver, Complete, Safe
    <2>3. docker' # {} /\ Complete'
        BY <2>1, <2>2, UpIsComplete
    <2>4. LeftOver => Named # Regs
        BY <2>2, CrowdedUnnamed DEF BundleInv
    <2>5. BusyNow = "start" /\ EnvironmentNow = IF LeftOver THEN "partial" ELSE "down"
        BY <1>v, <2>1 DEF EnvironmentShape
    <2>6. BusyNow' = "no" /\ EnvironmentNow' = IF LeftOver' THEN "crowded" ELSE "up"
        BY <1>v, <2>1, <2>3 DEF EnvironmentShape
    <2> QED
        BY <2>1, <2>2, <2>4, <2>5, <2>6 DEF Promised!EnvironmentNext, Promised!Started
<1>4. CASE RollbackReturn
    <2>1. /\ call = "rollback" /\ call' = "none" /\ started' = FALSE
          /\ infraStarted' = infraStarted
        BY <1>4 DEF RollbackReturn, Return, ResetState, callerVars
    <2>2. Safe' = {} /\ (Named = Regs => ~LeftOver)
        BY <2>1 DEF BundleInv, DownInv, NoneInv
    <2>3. BusyNow = "start" /\ EnvironmentNow = IF LeftOver THEN "partial" ELSE "down"
        BY <1>v, <2>1 DEF EnvironmentShape
    <2>4. BusyNow' = "no" /\ EnvironmentNow' = IF docker' = {} THEN "down" ELSE "partial"
        BY <1>c, <1>v, <2>1, <2>2 DEF EnvironmentShape
    <2> QED
        BY <2>1, <2>2, <2>3, <2>4 DEF Promised!EnvironmentNext, Promised!StartFailed
<1>5. CASE StopAll
    <2>1. /\ call = "none" /\ call' = "stopping" /\ infraStarted' = infraStarted /\ infraStarted
          /\ UNCHANGED <<docker, cleanup, starts>>
        BY <1>5 DEF StopAll, bundleVars, dockerVars
    <2>2. AllUp /\ (LeftOver' <=> LeftOver)
        BY <1>5, <2>1 DEF StopAll, BundleInv, FlagInv, NoneInv, LeftOver
    <2>3. BusyNow = "no" /\ EnvironmentNow = IF LeftOver THEN "crowded" ELSE "up"
        BY <1>v, <2>1, <2>2, UpIsComplete DEF EnvironmentShape
    <2>4. BusyNow' = "stop" /\ EnvironmentNow' = IF LeftOver' THEN "crowded" ELSE "up"
        BY <1>v, <2>1 DEF EnvironmentShape
    <2> QED
        BY <2>1, <2>2, <2>3, <2>4 DEF Promised!EnvironmentNext, Promised!BeginStop
<1>6. CASE StopReturn
    <2>1. /\ call = "stopping" /\ at = 0 /\ call' = "none"
          /\ UNCHANGED <<docker, left>>
        BY <1>6 DEF StopReturn, Return, dockerVars
    <2>2. Safe = {} /\ Safe' = {}
        BY <2>1 DEF BundleInv, DownInv, Safe
    <2>3. BusyNow = "stop" /\ EnvironmentNow = IF LeftOver THEN "crowded" ELSE "up"
        BY <1>v, <2>1 DEF EnvironmentShape
    <2>4. BusyNow' = "no" /\ EnvironmentNow' = IF docker' = {} THEN "down" ELSE "partial"
        BY <1>c, <1>v, <2>1, <2>2 DEF EnvironmentShape
    <2>5. CASE stopErr
        <3>1. infraStarted' = infraStarted
            BY <1>6, <2>5 DEF StopReturn
        <3>2. docker # {}
            BY <2>1, <2>5 DEF BundleInv, DownInv, TypeOK
        <3> QED
            BY <2>1, <2>3, <2>4, <3>1, <3>2 DEF Promised!EnvironmentNext, Promised!Stopped
    <2>6. CASE ~stopErr
        <3>1. infraStarted' = FALSE
            BY <1>6, <2>6 DEF StopReturn
        <3>2. ~LeftOver => docker = {}
            BY <2>1, <2>6 DEF BundleInv, DownInv, LeftOver
        <3> QED
            BY <2>1, <2>3, <2>4, <3>1, <3>2 DEF Promised!EnvironmentNext, Promised!Stopped
    <2> QED
        BY <2>5, <2>6
<1>7. CASE StopOne
    <2>1. call' = call /\ call \in {"rollback", "stopping"} /\ infraStarted' = infraStarted
        BY <1>7 DEF StopOne, callerVars
    <2>2. LeftOver' <=> LeftOver
        BY <2>1, LeftOverStays
    <2>3. CASE call = "stopping"
        BY <1>v, <2>1, <2>2, <2>3 DEF EnvironmentShape
    <2> QED
        BY <1>a, <2>1, <2>3
<1>8. CASE UNCHANGED vars
    BY <1>8 DEF vars, EnvironmentNow, BusyNow, LeftOver
<1>9. ASSUME NEW r \in Regs, Take(r) \/ CheckCtx(r) \/ StartOK(r) \/ StartError(r) \/ Cancel(r)
      PROVE  Goal
    <2>1. call = "creating" /\ call' = "creating"
        BY <1>9 DEF Take, CheckCtx, StartOK, StartError, Cancel, BundleInv, PoolInv
    <2> QED
        BY <1>a, <2>1
<1>10. CASE CtxEnds \/ Collect \/ UndoOne \/ InitOK \/ InitError
    BY <1>a, <1>10 DEF CtxEnds, Collect, UndoOne, InitOK, InitError
<1> QED
    BY <1>1, <1>2, <1>3, <1>4, <1>5, <1>6, <1>7, <1>8, <1>9, <1>10 DEF Next

\* What `Daemon' assumes of the containers is what the bundle does, however docker,
\* the pool and the requests behave, and whichever containers have docker names.
THEOREM ImplementsEnvironment == Spec => EnvironmentSpec
<1>1. Init => Promised!EnvironmentInit
    <2> SUFFICES ASSUME Init PROVE Promised!EnvironmentInit
        OBVIOUS
    <2>1. call = "none" /\ docker = {} /\ ~infraStarted
        BY DEF Init
    <2> QED
        BY <2>1, EnvironmentValues DEF EnvironmentShape, Promised!EnvironmentInit
<1>2. TypeOK /\ BundleInv /\ [Next]_vars /\ (TypeOK /\ BundleInv)'
        => [Promised!EnvironmentNext]_(Promised!environmentVars)
    BY EnvironmentStep
<1> QED
    BY <1>1, <1>2, BundleInvariant, PTL DEF Spec, EnvironmentSpec, Promised!EnvironmentSpec

-----------------------------------------------------------------------------
(* What CallReturns rests on: a call has finitely many steps ahead of it,  *)
(* each step is one of them, and at every point one of them can be taken.  *)

\* The steps a registration in the pool is away from its end.
Rank(r) == CASE job[r] = "queued" -> 4 [] job[r] = "taken" -> 3 [] job[r] = "starting" -> 2
             [] job[r] = "failing" -> 1 [] OTHER -> 0

\* May the k-th step of a kind that concerns h still come in this call?  What concerns
\* a registration stands for all of its containers.
Ahead(kind, h, k) ==
    \/ kind = "pool" /\ call = "creating" /\ k <= Rank(h[1])
    \/ kind = "undo" /\ (call = "creating" \/ (call = "undo" /\ h[1] <= at))
    \/ kind = "init" /\ (call = "creating" \/ (call = "init" /\ at <= h[1]))
    \/ kind = "down" /\ \/ call \in {"creating", "init"}
                        \/ /\ call \in {"rollback", "stopping"}
                           /\ \E i \in 1 .. at : cleanup[i] = h
    \/ kind = "cancel" /\ ~ctxDone
    \/ kind = "return"
Kinds == {"pool", "undo", "init", "down", "cancel", "return"}
Steps == Kinds \X (Containers \X (1 .. 4))
Todo == {s \in Steps : call # "none" /\ Ahead(s[1], s[2][1], s[2][2])}
StepsLeft == Cardinality(Todo)

\* No step of a call, not even a cancel or a failure, adds to what is ahead of it: there
\* is no retry and no wait that starts again in StartAll, rollback or StopAll.
CallShrinks == [][call # "none" => StepsLeft' < StepsLeft]_vars

\* During a call somebody can go on: a worker that has a registration, a free one while
\* some wait, the reader once all are through, or the loop the call is in, which has a
\* recording to look at.  So neither the cancel nor the registrations that are dropped
\* without a result leave the pool and its reader waiting for each other.
CanGo ==
    \/ \E r \in Regs : job[r] \in {"taken", "starting", "failing"}
    \/ /\ call = "creating" /\ Cardinality(Busy) < Workers
       /\ \E r \in Regs : job[r] = "queued" /\ \A q \in 1 .. (r - 1) : job[q] # "queued"
    \/ call = "creating" /\ PoolDrained
    \/ call = "undo" /\ at \in 0 .. N
    \/ call = "init" /\ at \in 1 .. (N + 1)
    \/ call \in {"rollback", "stopping"} /\ at \in {0} \union DOMAIN cleanup
CallGoesOn == call # "none" => CanGo

LEMMA StepsFinite == IsFiniteSet(Steps)
<1>1. IsFiniteSet(Kinds)
    <2>1. IsFiniteSet({"pool"}) /\ IsFiniteSet({"undo"}) /\ IsFiniteSet({"init"})
          /\ IsFiniteSet({"down"}) /\ IsFiniteSet({"cancel"}) /\ IsFiniteSet({"return"})
        BY FS_Singleton
    <2>2. Kinds = ({"pool"} \union {"undo"} \union {"init"})
                  \union ({"down"} \union {"cancel"} \union {"return"})
        BY DEF Kinds
    <2> QED
        BY <2>1, <2>2, FS_Union
<1>2. \A n \in Nat : IsFiniteSet(1 .. n)
    BY FS_Interval
<1>3. IsFiniteSet(Regs) /\ IsFiniteSet(1 .. MaxStarts) /\ IsFiniteSet(1 .. 4)
    BY <1>2, BundleAssumption DEF Regs
<1>4. IsFiniteSet(Containers)
    BY <1>3, FS_Product DEF Containers
<1>5. IsFiniteSet(Containers \X (1 .. 4))
    BY <1>3, <1>4, FS_Product
<1> QED
    BY <1>1, <1>5, FS_Product DEF Steps

\* One step fewer, and none more.
LEMMA Fewer ==
    ASSUME call # "none",
           call' # "none" => \A kind \in Kinds, h \in Containers, k \in 1 .. 4 :
                                 Ahead(kind, h, k)' => Ahead(kind, h, k),
           NEW done \in Kinds, NEW g \in Containers, NEW n \in 1 .. 4, Ahead(done, g, n),
           call' # "none" => ~Ahead(done, g, n)'
    PROVE  StepsLeft' < StepsLeft
<1>1. Todo' \subseteq Todo
    <2> SUFFICES ASSUME NEW s \in Steps, call' # "none", Ahead(s[1], s[2][1], s[2][2])'
                 PROVE  Ahead(s[1], s[2][1], s[2][2])
        BY DEF Todo
    <2>1. s[1] \in Kinds /\ s[2][1] \in Containers /\ s[2][2] \in 1 .. 4
        BY DEF Steps
    <2> QED
        BY <2>1
<1>2. <<done, <<g, n>>>> \in Todo /\ <<done, <<g, n>>>> \notin Todo'
    BY DEF Todo, Steps
<1>3. IsFiniteSet(Todo)
    BY StepsFinite, FS_Subset DEF Todo
<1>4. IsFiniteSet(Todo') /\ Cardinality(Todo') <= Cardinality(Todo) /\ Todo' # Todo
    BY <1>1, <1>2, <1>3, FS_Subset
<1>5. Cardinality(Todo) \in Nat /\ Cardinality(Todo') \in Nat
    BY <1>3, <1>4, FS_CardinalityType
<1>6. Cardinality(Todo) # Cardinality(Todo')
    BY <1>1, <1>2, <1>3, FS_Subset
<1> QED
    BY <1>4, <1>5, <1>6 DEF StepsLeft

\* The loop over the Inits stays in bounds, and the pool has all registrations.
LoopInv ==
    /\ call = "init" => at \in 1 .. (N + 1)
    /\ call = "creating" => \A r \in Regs : job[r] # "none"

LEMMA LoopStep == TypeOK /\ LoopInv /\ [Next]_vars => LoopInv'
<1> SUFFICES ASSUME TypeOK, LoopInv, [Next]_vars PROVE LoopInv'
    OBVIOUS
<1> USE BundleAssumption DEF LoopInv
<1>1. CASE Collect
    BY <1>1 DEF Collect
<1>2. CASE InitOK
    BY <1>2 DEF InitOK
<1>3. ASSUME NEW r \in Regs, Take(r) \/ CheckCtx(r) \/ StartOK(r) \/ StartError(r) \/ Cancel(r)
      PROVE  LoopInv'
    BY <1>3 DEF Take, CheckCtx, StartOK, StartError, Cancel, TypeOK
<1>4. CASE StartAll
    BY <1>4 DEF StartAll
<1>5. CASE \/ call' \notin {"init", "creating"}
           \/ call' = call /\ UNCHANGED <<at, job>>
           \/ call' = call /\ call \notin {"init", "creating"}
    BY <1>5
<1> QED
    BY <1>1, <1>2, <1>3, <1>4, <1>5
    DEF Next, vars, CtxEnds, UndoOne, UndoReturn, InitError, StartReturn, StopAll, StopOne,
        RollbackReturn, StopReturn, Return

\* Some step of its kind is behind, and none more ahead.
LEMMA ShrinkStep ==
    ASSUME TypeOK, BundleInv, LoopInv, [Next]_vars, call # "none"
    PROVE  StepsLeft' < StepsLeft \/ UNCHANGED vars
<1> USE BundleAssumption DEF Ahead, Kinds
<1>t. at \in Nat /\ job \in [Regs -> JobStates]
    BY DEF TypeOK
<1>h. /\ \A r \in Regs : <<r, 1>> \in Containers /\ <<r, 1>>[1] = r
      /\ 1 \in Regs /\ <<1, 1>> \in Containers
      /\ \A h \in Containers : h[1] \in Regs /\ h[1] \in Nat
    BY ThisOne DEF Containers, Regs
<1> DEFINE NoneMore == \A kind \in Kinds, h \in Containers, k \in 1 .. 4 :
                           Ahead(kind, h, k)' => Ahead(kind, h, k)
<1>1. ASSUME Return PROVE StepsLeft' < StepsLeft
    <2>1. call' = "none" /\ Ahead("return", <<1, 1>>, 1)
        BY <1>1 DEF Return
    <2> QED
        BY <1>h, <2>1, Fewer
<1>2. CASE CtxEnds
    <2>1. /\ call' = call /\ UNCHANGED <<at, cleanup>> /\ \A i \in Regs : Rank(i)' = Rank(i)
          /\ ~ctxDone /\ ctxDone' /\ call' # "none"
        BY <1>2 DEF CtxEnds, Rank, bundleVars
    <2>2. Ahead("cancel", <<1, 1>>, 1) /\ ~Ahead("cancel", <<1, 1>>, 1)'
        BY <2>1
    <2>3. NoneMore
        BY <1>h, <2>1
    <2> QED
        BY <1>h, <2>2, <2>3, Fewer
<1>3. ASSUME NEW r \in Regs, Take(r) \/ CheckCtx(r) \/ StartOK(r) \/ StartError(r) \/ Cancel(r)
      PROVE  StepsLeft' < StepsLeft
    <2>1. call = "creating" /\ call' = "creating" /\ UNCHANGED <<at, ctxDone>>
        BY <1>3 DEF Take, CheckCtx, StartOK, StartError, Cancel, BundleInv, PoolInv
    <2>2. Rank(r) \in 1 .. 4 /\ Rank(r)' < Rank(r) /\ Rank(r)' \in 0 .. 4
        BY <1>3, <1>t DEF Take, CheckCtx, StartOK, StartError, Cancel, Rank
    <2>3. \A i \in Regs : i # r => Rank(i)' = Rank(i)
        BY <1>3, <1>t DEF Take, CheckCtx, StartOK, StartError, Cancel, Rank
    <2>4. \A i \in Regs : Rank(i) \in 0 .. 4
        BY DEF Rank
    <2>5. PICK n \in 1 .. 4 : n = Rank(r)
        BY <2>2
    <2>6. Ahead("pool", <<r, 1>>, n) /\ ~Ahead("pool", <<r, 1>>, n)'
        BY <2>1, <2>2, <2>5
    <2>7. NoneMore
        <3> SUFFICES ASSUME NEW kind \in Kinds, NEW h \in Containers, NEW k \in 1 .. 4,
                            Ahead(kind, h, k)'
                     PROVE  Ahead(kind, h, k)
            OBVIOUS
        <3>1. Rank(h[1])' <= Rank(h[1]) /\ Rank(h[1])' \in 0 .. 4 /\ Rank(h[1]) \in 0 .. 4
            BY <1>h, <2>2, <2>3, <2>4
        <3> HIDE DEF Rank
        <3> QED
            BY <2>1, <3>1
    <2> QED
        BY <1>h, <2>6, <2>7, Fewer
<1>4. CASE Collect
    <2>1. call = "creating" /\ call' \in {"undo", "init"} /\ ctxDone' = ctxDone
        BY <1>4 DEF Collect
    <2>2. PICK kind \in {"undo", "init"} : kind # call'
        BY <2>1
    <2>3. Ahead(kind, <<1, 1>>, 1) /\ ~Ahead(kind, <<1, 1>>, 1)'
        BY <2>1, <2>2
    <2>4. NoneMore
        BY <2>1
    <2> QED
        BY <1>h, <2>3, <2>4, Fewer
<1>5. CASE UndoOne
    <2>1. call' = call /\ call = "undo" /\ at \in Regs /\ at' = at - 1 /\ ctxDone' = ctxDone
        BY <1>5, UndoEffect DEF BundleInv, UndoOne
    <2>2. PICK g \in Containers : g[1] = at
        BY <1>h, <2>1
    <2>3. Ahead("undo", g, 1) /\ ~Ahead("undo", g, 1)'
        BY <1>t, <2>1, <2>2
    <2>4. NoneMore
        BY <1>h, <1>t, <2>1
    <2> QED
        BY <1>h, <2>3, <2>4, Fewer
<1>6. CASE StopOne
    <2>1. /\ call' = call /\ call \in {"rollback", "stopping"} /\ cleanup' = cleanup
          /\ at \in Recordings /\ at' = at - 1 /\ ctxDone' = ctxDone
        BY <1>6, StopEffect DEF BundleInv, StopOne, bundleVars
    <2>2. PICK g \in Containers : g = cleanup[at]
        BY <2>1, RecordingsType
    <2>3. \A i \in 1 .. at' : i \in 1 .. at /\ i \in Recordings /\ i # at
        BY <2>1 DEF Recordings
    <2>4. \A i \in 1 .. at' : cleanup[i] # g
        BY <2>1, <2>2, <2>3, RecordedOnce DEF BundleInv
    <2>5. at \in 1 .. at
        BY <2>1 DEF Recordings
    <2>6. Ahead("down", g, 1) /\ ~Ahead("down", g, 1)'
        BY <2>1, <2>2, <2>4, <2>5
    <2>7. NoneMore
        BY <2>1, <2>3
    <2> QED
        BY <2>6, <2>7, Fewer
<1>7. CASE InitOK \/ InitError
    <2>1. /\ call = "init" /\ ((call' = "init" /\ at' = at + 1) \/ call' = "rollback")
          /\ ctxDone' = ctxDone /\ at \in Regs
        BY <1>7, <1>t DEF InitOK, InitError, LoopInv, Regs
    <2>2. PICK g \in Containers : g[1] = at
        BY <1>h, <2>1
    <2>3. Ahead("init", g, 1) /\ ~Ahead("init", g, 1)'
        BY <1>t, <2>1, <2>2
    <2>4. NoneMore
        BY <1>h, <1>t, <2>1
    <2> QED
        BY <1>h, <2>3, <2>4, Fewer
<1>8. CASE StartAll \/ StopAll
    BY <1>8 DEF StartAll, StopAll
<1>9. CASE UndoReturn \/ StartReturn \/ RollbackReturn \/ StopReturn
    BY <1>1, <1>9 DEF UndoReturn, StartReturn, RollbackReturn, StopReturn
<1> QED
    BY <1>2, <1>3, <1>4, <1>5, <1>6, <1>7, <1>8, <1>9 DEF Next

LEMMA LoopInvariant == Spec => [](TypeOK /\ BundleInv /\ LoopInv)
<1>1. Init => LoopInv
    BY DEF Init, LoopInv
<1> QED
    BY <1>1, BundleInvariant, LoopStep, PTL DEF Spec

\* Every step of a call is one of finitely many, and comes once.
THEOREM CallShrinksAlways == Spec => CallShrinks
<1>1. TypeOK /\ BundleInv /\ LoopInv /\ [Next]_vars
          => [call # "none" => StepsLeft' < StepsLeft]_vars
    BY ShrinkStep
<1> QED
    BY <1>1, LoopInvariant, PTL DEF Spec, CallShrinks

\* Nobody in a call waits for what does not come.
THEOREM CallGoesOnAlways == Spec => []CallGoesOn
<1>1. TypeOK /\ BundleInv /\ LoopInv => CallGoesOn
    <2> SUFFICES ASSUME TypeOK, BundleInv, LoopInv, call # "none", ~CanGo PROVE FALSE
        BY DEF CallGoesOn
    <2> USE BundleAssumption
    <2>1. CASE call = "creating"
        <3>1. Busy = {}
            BY DEF CanGo, Busy
        <3>2. Cardinality(Busy) < Workers
            BY <3>1, FS_EmptySet
        <3> DEFINE Queued == {r \in Regs : job[r] = "queued"}
        <3>3. Queued # {}
            BY <2>1 DEF CanGo, PoolDrained, TypeOK, JobStates, LoopInv
        <3>4. PICK m \in Queued : \A q \in Queued : ~(<<q, m>> \in OpToRel(<, Nat))
            <4>1. Queued \subseteq Nat
                BY DEF Regs
            <4> HIDE DEF Queued
            <4> QED
                BY <3>3, <4>1, NatLessThanWellFounded, WFMin
        <3>5. \A q \in 1 .. (m - 1) : job[q] # "queued"
            <4>1. ASSUME NEW q \in Nat, NEW r \in Nat, q < r PROVE <<q, r>> \in OpToRel(<, Nat)
                BY <4>1 DEF OpToRel
            <4>2. Queued \subseteq Nat
                BY DEF Regs
            <4>3. \A q \in Queued : ~(q < m)
                BY <3>4, <4>1, <4>2
            <4> QED
                BY <4>3 DEF Regs
        <3> QED
            BY <2>1, <3>2, <3>4, <3>5 DEF CanGo
    <2>2. CASE call = "undo"
        BY <2>2 DEF CanGo, BundleInv, UndoInv, TypeOK
    <2>3. CASE call = "init"
        BY <2>3 DEF CanGo, LoopInv
    <2>4. CASE call \in {"rollback", "stopping"}
        BY <2>4 DEF CanGo, BundleInv, DownInv, TypeOK
    <2> QED
        BY <2>1, <2>2, <2>3, <2>4 DEF TypeOK
<1> QED
    BY <1>1, LoopInvariant, PTL

-----------------------------------------------------------------------------
(* What holds of the claim that the next start is clean.                   *)

\* Nothing is left behind by a docker that does not fail, unless the request ends.
NoneLeft == left = {}
LEMMA NoneLeftStep ==
    ASSUME ~StartMayLeak, ~TerminateMayFail
    PROVE  NoneLeft /\ ~ctxDone /\ [Next]_vars => NoneLeft'
<1> SUFFICES ASSUME left = {}, ~ctxDone, [Next]_vars PROVE left' = {}
    BY DEF NoneLeft
<1>1. ASSUME NEW h, Terminated(h) \/ NotTerminated(h) PROVE left' = {}
    BY <1>1 DEF Terminated, NotTerminated
<1>2. CASE UndoOne \/ StopOne
    BY <1>1, <1>2 DEF UndoOne, StopOne, dockerVars
<1> QED
    BY <1>2 DEF Next, vars, dockerVars, StartAll, CtxEnds, Take, CheckCtx, StartOK,
       StartError, Cancel, Collect, UndoReturn, InitOK, InitError, StartReturn, StopAll,
       RollbackReturn, StopReturn

\* The end of the request is the only way to a StartAll that does not begin in a clean
\* environment, when docker leaves nothing of a failed Start and removes what it is
\* asked to: the pool, the undo and the rollback by themselves leave nothing.
THEOREM NextStartIsCleanUnlessCancelled ==
    ASSUME ~StartMayLeak, ~TerminateMayFail
    PROVE  Spec /\ []~ctxDone => NextStartIsClean
<1>1. Init => NoneLeft
    BY DEF Init, NoneLeft
<1>2. TypeOK /\ BundleInv /\ NoneLeft /\ [Next]_vars
          => [call = "none" /\ call' = "creating" => docker = {}]_vars
    BY DEF Next, StartAll, CtxEnds, Take, CheckCtx, StartOK, StartError, Cancel, Collect,
       UndoOne, UndoReturn, InitOK, InitError, StartReturn, StopAll, StopOne,
       RollbackReturn, StopReturn, Return, BundleInv, FlagInv, NoneInv, NoneLeft, Safe, vars
<1>3. NoneLeft /\ ~ctxDone /\ [Next]_vars => NoneLeft'
    BY NoneLeftStep
<1> QED
    BY <1>1, <1>2, <1>3, BundleInvariant, PTL DEF Spec, NextStartIsClean

=============================================================================
