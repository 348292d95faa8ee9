---------------------------- MODULE DaemonProofs ----------------------------
(***************************************************************************)
(* Proofs about Daemon, for any set of processes and any timing constants  *)
(* that satisfy DaemonAssumption.                                          *)
(*                                                                         *)
(* The inductive invariant has independent parts, each of which needs only *)
(* TypeOK: who is inside the Acquire handler, who has which mutex and what *)
(* that says of the containers and of the SUT, how much time a prompt      *)
(* process has left, and what a pass of the reaper knows.  Three theorems  *)
(* at the end say what the liveness properties rest on besides fairness,   *)
(* and two that the claims which the code does not meet hold but for one   *)
(* window each.                                                            *)
(***************************************************************************)
EXTENDS Daemon, FiniteSetTheorems, TLAPS

\* While the deferred stop of the containers has not run, infraStarted tells
\* the truth; startMu is held exactly where the code is inside StartAll or
\* StopAll; past ensureInfraStarted the flag is set; only a handler that got as
\* far as store.acquire has an entry in the table.
BeforeStop == shut \in {"no", "stopSUT", "sutGone", "lock", "stopping"}
InfraInv ==
    /\ \A c \in Clients : startMu = c <=> hpc[c] = "starting"
    /\ startMu = Closer <=> shut = "stopping"
    /\ startMu \in Clients => ~infraStarted
    /\ BeforeStop /\ infraStarted => ContainersUp
    /\ BeforeStop => \A c \in Clients : Served(c) => infraStarted
    /\ held \subseteq Stored

\* What a prompt process has left of its lease covers the time until its next
\* heartbeat is handled.
PromptInv ==
    \A c \in Prompt :
        /\ cpc[c] \in {"idle", "acquiring", "running"} => ~rel[c]
        /\ Listening /\ cpc[c] = "acquiring" /\ hpc[c] \in {"stored", "granted"} =>
               c \in held /\ expiry[c] = LeaseTTL
        /\ cpc[c] = "running" => hpc[c] = "received"
        /\ Listening /\ cpc[c] = "running" =>
               /\ c \in held
               /\ expiry[c] + HeartbeatInterval
                     >= LeaseTTL + (IF beat[c] THEN 0 ELSE due[c])

\* After gc every entry is active as of `now'; after a count of zero every entry
\* was stored after `now'.
ReaperInv ==
    /\ reaper = "count" => \A c \in held : expiry[c] + lag > 0
    /\ reaper \in {"inflight", "stopSUT", "sutGone", "idle"} =>
           \A c \in held : expiry[c] + lag >= LeaseTTL

-----------------------------------------------------------------------------
(* Type correctness.                                                       *)

LEMMA TypeStep == TypeOK /\ [Next]_vars => TypeOK'
<1> SUFFICES ASSUME TypeOK, [Next]_vars PROVE TypeOK'
    OBVIOUS
<1> USE DaemonAssumption, LeaseTTLAssumption
        DEF TypeOK, StoreTypeOK, ClientPCs, HandlerPCs, InHandler, ReaperPCs,
            ShutPCs, leaseVars, clientVars, handlerVars, infraVars, sutVars,
            reaperVars, clockVars, Never
<1>1. ASSUME NEW c \in Clients, CallAcquire(c) PROVE TypeOK'
    BY <1>1 DEF CallAcquire
<1>2. ASSUME NEW c \in Clients, ReceiveLease(c) PROVE TypeOK'
    BY <1>2 DEF ReceiveLease
<1>3. ASSUME NEW c \in Clients, ReceiveError(c) PROVE TypeOK'
    BY <1>3 DEF ReceiveError
<1>4. ASSUME NEW c \in Clients, AbandonAcquire(c) PROVE TypeOK'
    BY <1>4 DEF AbandonAcquire
<1>5. ASSUME NEW c \in Clients, SendHeartbeat(c) PROVE TypeOK'
    BY <1>5 DEF SendHeartbeat
<1>6. ASSUME NEW c \in Clients, LoseHeartbeat(c) PROVE TypeOK'
    BY <1>6 DEF LoseHeartbeat
<1>7. ASSUME NEW c \in Clients, Finish(c) PROVE TypeOK'
    BY <1>7 DEF Finish
<1>8. ASSUME NEW c \in Clients, LoseRelease(c) PROVE TypeOK'
    BY <1>8 DEF LoseRelease
<1>9. ASSUME NEW c \in Clients, Crash(c) PROVE TypeOK'
    BY <1>9 DEF Crash
<1>10. ASSUME NEW c \in Clients, AcquireEnter(c) PROVE TypeOK'
    BY <1>10 DEF AcquireEnter
<1>11. ASSUME NEW c \in Clients, AcquireRefused(c) PROVE TypeOK'
    BY <1>11 DEF AcquireRefused
<1>12. ASSUME NEW c \in Clients, InfraReady(c) PROVE TypeOK'
    BY <1>12 DEF InfraReady
<1>13. ASSUME NEW c \in Clients, InfraBegin(c) PROVE TypeOK'
    BY <1>13 DEF InfraBegin
<1>14. ASSUME NEW c \in Clients, InfraUp(c) PROVE TypeOK'
    BY <1>14 DEF InfraUp
<1>15. ASSUME NEW c \in Clients, InfraFail(c) PROVE TypeOK'
    BY <1>15 DEF InfraFail
<1>16. ASSUME NEW c \in Clients, SUTReady(c) PROVE TypeOK'
    BY <1>16 DEF SUTReady
<1>17. ASSUME NEW c \in Clients, SUTBegin(c) PROVE TypeOK'
    BY <1>17 DEF SUTBegin
<1>18. ASSUME NEW c \in Clients, SUTUp(c) PROVE TypeOK'
    BY <1>18 DEF SUTUp
<1>19. ASSUME NEW c \in Clients, SUTFail(c) PROVE TypeOK'
    BY <1>19 DEF SUTFail
<1>20. ASSUME NEW c \in Clients, StoreLease(c) PROVE TypeOK'
    BY <1>20 DEF StoreLease, StoreAcquire
<1>21. ASSUME NEW c \in Clients, HandlerReturn(c) PROVE TypeOK'
    BY <1>21 DEF HandlerReturn
<1>22. ASSUME NEW c \in Clients, HandleHeartbeat(c) PROVE TypeOK'
    BY <1>22 DEF HandleHeartbeat, StoreHeartbeat
<1>23. ASSUME NEW c \in Clients, HandleRelease(c) PROVE TypeOK'
    BY <1>23 DEF HandleRelease, StoreRelease
<1>24. CASE SUTExit
    BY <1>24 DEF SUTExit
<1>25. CASE ReaperWake
    <2>1. held' \in SUBSET Clients /\ expiry' = expiry
        BY <1>25 DEF ReaperWake, StoreGC, Expired
    <2>2. pending' \in BOOLEAN
        BY <1>25 DEF ReaperWake
    <2>3. reaper' \in ReaperPCs /\ lag' \in 0 .. MaxLag
        BY <1>25 DEF ReaperWake
    <2>4. UNCHANGED <<clientVars, handlerVars, infraVars, sutVars, idleSince,
                      sutIdleSince, tick, shut>>
        BY <1>25 DEF ReaperWake
    <2> QED
        BY <2>1, <2>2, <2>3, <2>4
<1>26. CASE ReaperDone
    <2>1. pending' \in BOOLEAN
        BY <1>26 DEF ReaperDone, LeaveLoop
    <2>2. /\ reaper' \in ReaperPCs /\ lag' \in 0 .. MaxLag /\ tick' \in 1 .. ReaperPeriod
          /\ idleSince' = Never /\ sutIdleSince' = Never
        BY <1>26 DEF ReaperDone, LeaveLoop
    <2>3. UNCHANGED <<clientVars, handlerVars, leaseVars, infraVars, sutVars, shut>>
        BY <1>26 DEF ReaperDone
    <2> QED
        BY <2>1, <2>2, <2>3
<1>27. CASE ReaperCount
    BY <1>27 DEF ReaperCount, EndPass
<1>28. CASE ReaperInFlight
    BY <1>28 DEF ReaperInFlight, EndPass
<1>29. CASE ReaperStopSUT
    BY <1>29 DEF ReaperStopSUT
<1>30. CASE ReaperSUTGone
    BY <1>30 DEF ReaperSUTGone
<1>31. CASE ReaperIdle
    <2>1. pending' \in BOOLEAN
        BY <1>31 DEF ReaperIdle, LeaveLoop
    <2>2. /\ reaper' \in ReaperPCs /\ lag' \in 0 .. MaxLag /\ tick' \in 1 .. ReaperPeriod
          /\ idleSince' \in {Never, lag, idleSince} /\ sutIdleSince' \in {Never, sutIdleSince}
          /\ shut' \in ShutPCs
        BY <1>31 DEF ReaperIdle, LeaveLoop, EndPass
    <2>3. UNCHANGED <<clientVars, handlerVars, leaseVars, infraVars, sutVars>>
        BY <1>31 DEF ReaperIdle
    <2> QED
        BY <2>1, <2>2, <2>3
<1>32. CASE Signal
    BY <1>32 DEF Signal
<1>33. CASE ShutdownStopSUT
    BY <1>33 DEF ShutdownStopSUT
<1>34. CASE ShutdownSUTGone
    BY <1>34 DEF ShutdownSUTGone
<1>35. CASE ShutdownLock
    BY <1>35 DEF ShutdownLock
<1>36. CASE ShutdownStopped
    BY <1>36 DEF ShutdownStopped
<1>37. CASE ShutdownHTTP
    BY <1>37 DEF ShutdownHTTP
<1>38. CASE Exit
    BY <1>38 DEF Exit
<1>39. CASE Tick
    <2>1. pending' \in BOOLEAN
        BY <1>39 DEF Tick
    <2>2. tick' \in 1 .. ReaperPeriod
        BY <1>39 DEF Tick
    <2>3. /\ held' \in SUBSET Clients /\ expiry' \in [Clients -> 0 .. LeaseTTL]
          /\ due' \in [Clients -> 0 .. HeartbeatInterval]
        BY <1>39 DEF Tick, StoreElapse
    <2>4. /\ idleSince' \in {Never} \union 0 .. (IdleTTL + MaxLag)
          /\ sutIdleSince' \in {Never} \union 0 .. (SUTIdleTTL + MaxLag)
          /\ lag' \in 0 .. MaxLag
        BY <1>39 DEF Tick, Older, InPass
    <2>5. UNCHANGED <<cpc, beat, rel, handlerVars, infraVars, sutVars, reaper, shut>>
        BY <1>39 DEF Tick
    <2> QED
        BY <2>1, <2>2, <2>3, <2>4, <2>5
<1>40. CASE UNCHANGED vars
    BY <1>40 DEF vars
<1> QED
    BY <1>1, <1>2, <1>3, <1>4, <1>5, <1>6, <1>7, <1>8, <1>9, <1>10, <1>11, <1>12, <1>13, <1>14, <1>15, <1>16, <1>17, <1>18, <1>19, <1>20, <1>21, <1>22, <1>23, <1>24, <1>25, <1>26, <1>27, <1>28, <1>29, <1>30, <1>31, <1>32, <1>33, <1>34, <1>35, <1>36, <1>37, <1>38, <1>39, <1>40
       DEF Next, ClientStep, AcquireStep, ReaperStep, ShutdownStep
\* Every variable stays in its range: timers and ages in particular stay within
\* the bounds at which they saturate.
THEOREM TypeCorrect == Spec => []TypeOK
<1>1. ASSUME Init PROVE TypeOK
    <2> USE <1>1, DaemonAssumption, LeaseTTLAssumption DEF Init
    <2>1. StoreTypeOK
        BY DEF StoreInit, StoreTypeOK
    <2>2. /\ cpc \in [Clients -> ClientPCs] /\ hpc \in [Clients -> HandlerPCs]
          /\ due \in [Clients -> 0 .. HeartbeatInterval]
        BY DEF ClientPCs, HandlerPCs
    <2>3. beat \in [Clients -> BOOLEAN] /\ rel \in [Clients -> BOOLEAN]
        OBVIOUS
    <2>4. infraStarted \in BOOLEAN /\ pending \in BOOLEAN
        OBVIOUS
    <2>5. /\ idleSince \in {Never} \union 0 .. (IdleTTL + MaxLag)
          /\ sutIdleSince \in {Never} \union 0 .. (SUTIdleTTL + MaxLag)
          /\ tick \in 1 .. ReaperPeriod /\ lag \in 0 .. MaxLag
          /\ acquireInFlight \in Int
        OBVIOUS
    <2>6. /\ startMu \in Clients \union {Nobody, Closer}
          /\ containers \in {"down", "up", "partial", "crowded"}
          /\ sutMu \in Clients \union {Nobody} /\ sut \in {"down", "up"}
          /\ reaper \in ReaperPCs /\ shut \in ShutPCs
        BY DEF ReaperPCs, ShutPCs
    <2> QED
        BY <2>1, <2>2, <2>3, <2>4, <2>5, <2>6 DEF TypeOK
<1> QED
    BY <1>1, TypeStep, PTL DEF Spec

-----------------------------------------------------------------------------
(* The in-flight counter.                                                  *)

LEMMA HandlersFinite == Handlers \subseteq Clients /\ IsFiniteSet(Handlers)
    BY DaemonAssumption, FS_Subset DEF Handlers

LEMMA AddOne ==
    ASSUME NEW S, NEW T, NEW x, IsFiniteSet(S), x \notin S, T = S \union {x}
    PROVE  Cardinality(T) = Cardinality(S) + 1
    BY FS_AddElement

LEMMA RemoveOne ==
    ASSUME NEW S, NEW T, NEW x, IsFiniteSet(S), x \in S, T = S \ {x}
    PROVE  Cardinality(T) = Cardinality(S) - 1
    BY FS_RemoveElement

LEMMA InFlightStep ==
    ASSUME TypeOK, InFlightExact, [Next]_vars
    PROVE  InFlightExact'
<1> USE DEF Handlers, InHandler, TypeOK, InFlightExact, leaseVars, clientVars,
            handlerVars, infraVars, sutVars, reaperVars, clockVars
<1>1. CASE UNCHANGED handlerVars
    <2>1. Handlers' = Handlers /\ acquireInFlight' = acquireInFlight
        BY <1>1
    <2> QED
        BY <2>1
<1>2. ASSUME NEW c \in Clients, AcquireEnter(c) PROVE InFlightExact'
    <2>1. c \notin Handlers /\ Handlers' = Handlers \union {c}
        BY <1>2 DEF AcquireEnter
    <2>2. Cardinality(Handlers') = Cardinality(Handlers) + 1
        BY ONLY <2>1, HandlersFinite, AddOne
    <2> QED
        BY <1>2, <2>2 DEF AcquireEnter
<1>3. ASSUME NEW c \in Clients, HandlerReturn(c) PROVE InFlightExact'
    <2>1. c \in Handlers /\ Handlers' = Handlers \ {c}
        BY <1>3 DEF HandlerReturn
    <2>2. Cardinality(Handlers') = Cardinality(Handlers) - 1
        BY ONLY <2>1, HandlersFinite, RemoveOne
    <2> QED
        BY <1>3, <2>2 DEF HandlerReturn
<1>4. ASSUME NEW c \in Clients,
             \/ CallAcquire(c) \/ ReceiveLease(c) \/ AcquireRefused(c)
             \/ InfraReady(c) \/ InfraBegin(c) \/ InfraUp(c) \/ InfraFail(c)
             \/ SUTReady(c) \/ SUTBegin(c) \/ SUTUp(c) \/ SUTFail(c)
             \/ StoreLease(c)
      PROVE  InFlightExact'
    <2>1. Handlers' = Handlers /\ acquireInFlight' = acquireInFlight
        BY <1>4 DEF CallAcquire, ReceiveLease, AcquireRefused, InfraReady,
                    InfraBegin, InfraUp, InfraFail, SUTReady, SUTBegin, SUTUp,
                    SUTFail, StoreLease
    <2> QED
        BY <2>1
<1>5. \/ UNCHANGED handlerVars
      \/ \E c \in Clients :
            \/ AcquireEnter(c) \/ HandlerReturn(c)
            \/ CallAcquire(c) \/ ReceiveLease(c) \/ AcquireRefused(c)
            \/ InfraReady(c) \/ InfraBegin(c) \/ InfraUp(c) \/ InfraFail(c)
            \/ SUTReady(c) \/ SUTBegin(c) \/ SUTUp(c) \/ SUTFail(c)
            \/ StoreLease(c)
    BY DEF Next, vars, ClientStep, AcquireStep, ReaperStep, ShutdownStep, ReceiveError,
           AbandonAcquire, SendHeartbeat, LoseHeartbeat, Finish, LoseRelease, Crash,
           HandleHeartbeat, HandleRelease, SUTExit, Signal, Tick, ReaperWake, ReaperDone,
           ReaperCount, ReaperInFlight, ReaperStopSUT, ReaperSUTGone, ReaperIdle,
           ShutdownStopSUT, ShutdownSUTGone, ShutdownLock, ShutdownStopped,
           ShutdownHTTP, Exit
<1> QED
    BY <1>1, <1>2, <1>3, <1>4, <1>5

\* The counter the reaper relies on is exact, for any number of processes.
THEOREM InFlightCorrect == Spec => []InFlightExact
<1>1. ASSUME Init PROVE InFlightExact
    <2>1. Handlers = {}
        BY <1>1 DEF Init, Handlers, InHandler
    <2> QED
        BY <1>1, <2>1, FS_EmptySet DEF Init, InFlightExact
<1> QED
    BY <1>1, InFlightStep, TypeCorrect, PTL DEF Spec
-----------------------------------------------------------------------------
(* Prompt processes keep their leases.                                     *)

LEMMA PromptStep ==
    ASSUME TypeOK, PromptInv, [Next]_vars
    PROVE  PromptInv'
<1> USE DaemonAssumption, LeaseTTLAssumption
        DEF TypeOK, StoreTypeOK, PromptInv, Listening, leaseVars, clientVars,
            handlerVars, infraVars, sutVars, reaperVars, clockVars
<1>1. CASE UNCHANGED <<leaseVars, clientVars, handlerVars, shut>>
    BY <1>1
\* Steps of the shutdown: Listening never becomes true again.
<1>2. CASE UNCHANGED <<leaseVars, clientVars, handlerVars>> /\ (Listening' => Listening)
    BY <1>2
<1>3. ASSUME NEW c \in Clients, CallAcquire(c) PROVE PromptInv'
    BY <1>3 DEF CallAcquire
<1>4. ASSUME NEW c \in Clients, ReceiveLease(c) PROVE PromptInv'
    BY <1>4 DEF ReceiveLease
<1>5. ASSUME NEW c \in Clients, ReceiveError(c) \/ AbandonAcquire(c) PROVE PromptInv'
    BY <1>5 DEF ReceiveError, AbandonAcquire
<1>6. ASSUME NEW c \in Clients, SendHeartbeat(c) PROVE PromptInv'
    BY <1>6 DEF SendHeartbeat
<1>7. ASSUME NEW c \in Clients, LoseHeartbeat(c) PROVE PromptInv'
    BY <1>7 DEF LoseHeartbeat
<1>8. ASSUME NEW c \in Clients, Finish(c) \/ Crash(c) PROVE PromptInv'
    BY <1>8 DEF Finish, Crash
<1>9. ASSUME NEW c \in Clients, LoseRelease(c) PROVE PromptInv'
    BY <1>9 DEF LoseRelease
<1>10. ASSUME NEW c \in Clients,
              \/ AcquireEnter(c) \/ AcquireRefused(c) \/ InfraReady(c) \/ InfraBegin(c)
              \/ InfraUp(c) \/ InfraFail(c) \/ SUTReady(c) \/ SUTBegin(c)
              \/ SUTUp(c) \/ SUTFail(c)
       PROVE  PromptInv'
    BY <1>10 DEF AcquireEnter, AcquireRefused, InfraReady, InfraBegin, InfraUp,
                 InfraFail, SUTReady, SUTBegin, SUTUp, SUTFail
<1>11. ASSUME NEW c \in Clients, StoreLease(c) PROVE PromptInv'
    BY <1>11 DEF StoreLease, StoreAcquire
<1>12. ASSUME NEW c \in Clients, HandlerReturn(c) PROVE PromptInv'
    BY <1>12 DEF HandlerReturn
<1>13. ASSUME NEW c \in Clients, HandleHeartbeat(c) PROVE PromptInv'
    BY <1>13 DEF HandleHeartbeat, StoreHeartbeat
<1>14. ASSUME NEW c \in Clients, HandleRelease(c) PROVE PromptInv'
    BY <1>14 DEF HandleRelease, StoreRelease
<1>15. CASE ReaperWake
    BY <1>15 DEF ReaperWake, StoreGC, Expired
<1>16. CASE Tick
    BY <1>16 DEF Tick, StoreElapse, MustMove
<1>17. ASSUME SUTExit \/ ReaperDone \/ ReaperCount \/ ReaperInFlight \/ ReaperStopSUT
              \/ ReaperSUTGone \/ ReaperIdle \/ Signal \/ ShutdownStep
       PROVE  PromptInv'
    <2>1. UNCHANGED <<leaseVars, clientVars, handlerVars>> /\ (Listening' => Listening)
        BY <1>17 DEF SUTExit, ReaperDone, ReaperCount, ReaperInFlight, ReaperStopSUT,
                     ReaperSUTGone, ReaperIdle, Signal, ShutdownStep, ShutdownStopSUT,
                     ShutdownSUTGone, ShutdownLock, ShutdownStopped, ShutdownHTTP, Exit
    <2> QED
        BY <2>1, <1>2
<1>18. CASE UNCHANGED vars
    BY <1>18, <1>1 DEF vars
<1> QED
    BY <1>3, <1>4, <1>5, <1>6, <1>7, <1>8, <1>9, <1>10, <1>11, <1>12, <1>13, <1>14,
       <1>15, <1>16, <1>17, <1>18
       DEF Next, ClientStep, AcquireStep, ReaperStep

\* With HeartbeatInterval < LeaseTTL, no schedule of gc, of the reaper or of other
\* processes costs a prompt, running process its lease.
THEOREM PromptLeaseKeptAlways == Spec => []PromptLeaseKept
<1>1. Init => PromptInv
    BY DaemonAssumption DEF Init, PromptInv
<1>2. TypeOK /\ PromptInv => PromptLeaseKept
    BY DaemonAssumption, LeaseTTLAssumption
       DEF TypeOK, StoreTypeOK, PromptInv, PromptLeaseKept
<1> QED
    BY <1>1, <1>2, PromptStep, TypeCorrect, PTL DEF Spec

-----------------------------------------------------------------------------
(* What a pass of the reaper knows.                                        *)

LEMMA ReaperInvStep ==
    ASSUME TypeOK, ReaperInv, [Next]_vars
    PROVE  ReaperInv'
<1> USE DaemonAssumption, LeaseTTLAssumption
        DEF TypeOK, StoreTypeOK, ReaperInv, leaseVars, clientVars, handlerVars,
            infraVars, sutVars, reaperVars, clockVars
<1>1. CASE UNCHANGED <<leaseVars, reaper, lag>>
    BY <1>1
<1>2. ASSUME NEW c \in Clients, StoreLease(c) PROVE ReaperInv'
    BY <1>2 DEF StoreLease, StoreAcquire
<1>3. ASSUME NEW c \in Clients, HandleHeartbeat(c) PROVE ReaperInv'
    BY <1>3 DEF HandleHeartbeat, StoreHeartbeat
<1>4. ASSUME NEW c \in Clients, HandleRelease(c) PROVE ReaperInv'
    BY <1>4 DEF HandleRelease, StoreRelease
<1>5. CASE ReaperWake
    BY <1>5 DEF ReaperWake, StoreGC, Expired
<1>6. CASE ReaperCount
    BY <1>6 DEF ReaperCount, EndPass, AnyActive
<1>7. ASSUME ReaperDone \/ ReaperInFlight \/ ReaperStopSUT \/ ReaperSUTGone \/ ReaperIdle
      PROVE  ReaperInv'
    BY <1>7 DEF ReaperDone, ReaperInFlight, ReaperStopSUT, ReaperSUTGone, ReaperIdle,
                EndPass
<1>8. CASE Tick
    BY <1>8 DEF Tick, StoreElapse, InPass
<1>9. ASSUME UNCHANGED vars \/ SUTExit \/ Signal \/ ShutdownStep PROVE ReaperInv'
    BY <1>9, <1>1 DEF vars, SUTExit, Signal, ShutdownStep, ShutdownStopSUT,
                 ShutdownSUTGone, ShutdownLock, ShutdownStopped, ShutdownHTTP, Exit
<1>10. ASSUME NEW c \in Clients,
              ClientStep(c) \/ (AcquireStep(c) /\ ~StoreLease(c))
       PROVE  ReaperInv'
    <2>1. UNCHANGED <<leaseVars, reaper, lag>>
        BY <1>10 DEF ClientStep, AcquireStep, CallAcquire, ReceiveLease, ReceiveError,
                AbandonAcquire, SendHeartbeat, LoseHeartbeat, Finish, LoseRelease,
                Crash, AcquireEnter, AcquireRefused, InfraReady, InfraBegin, InfraUp,
                InfraFail, SUTReady, SUTBegin, SUTUp, SUTFail, HandlerReturn
    <2> QED
        BY <2>1, <1>1
<1> QED
    BY <1>2, <1>3, <1>4, <1>5, <1>6, <1>7, <1>8, <1>9, <1>10 DEF Next, ReaperStep

\* However long a pass blocks in stopSUTOnly, what it goes on to stop can only
\* hurt leases that were stored after it read the clock.
THEOREM ReaperSparesSettledAlways == Spec => []ReaperSparesSettled
<1>1. Init => ReaperInv
    BY DEF Init, ReaperInv
<1>2. ReaperInv => ReaperSparesSettled
    BY DEF ReaperInv, ReaperSparesSettled
<1> QED
    BY <1>1, <1>2, ReaperInvStep, TypeCorrect, PTL DEF Spec
-----------------------------------------------------------------------------
(* The two ways to change the containers.                                  *)

LEMMA InfraStep ==
    ASSUME TypeOK, InfraInv, [Next]_vars
    PROVE  InfraInv'
<1> USE DaemonAssumption
        DEF TypeOK, StoreTypeOK, InfraInv, ContainersUp, BeforeStop, Served, Stored, ShutPCs,
            leaseVars, clientVars, handlerVars, infraVars, sutVars, reaperVars, clockVars
<1>1. CASE /\ UNCHANGED <<hpc, infraVars, shut>>
           /\ held' \subseteq held
    BY <1>1
<1>2. ASSUME NEW c \in Clients,
             CallAcquire(c) \/ ReceiveLease(c) \/ AcquireEnter(c) \/ AcquireRefused(c)
      PROVE  InfraInv'
    BY <1>2 DEF CallAcquire, ReceiveLease, AcquireEnter, AcquireRefused
<1>3. ASSUME NEW c \in Clients, InfraReady(c) PROVE InfraInv'
    BY <1>3 DEF InfraReady
<1>4. ASSUME NEW c \in Clients, InfraBegin(c) PROVE InfraInv'
    BY <1>4 DEF InfraBegin
<1>5. ASSUME NEW c \in Clients, InfraUp(c) PROVE InfraInv'
    BY <1>5 DEF InfraUp
<1>6. ASSUME NEW c \in Clients, InfraFail(c) PROVE InfraInv'
    BY <1>6 DEF InfraFail
<1>7. ASSUME NEW c \in Clients,
             SUTReady(c) \/ SUTBegin(c) \/ SUTUp(c) \/ SUTFail(c) \/ HandlerReturn(c)
      PROVE  InfraInv'
    BY <1>7 DEF SUTReady, SUTBegin, SUTUp, SUTFail, HandlerReturn
<1>8. ASSUME NEW c \in Clients, StoreLease(c) PROVE InfraInv'
    BY <1>8 DEF StoreLease, StoreAcquire
<1>9. ASSUME NEW c \in Clients,
             \/ ReceiveError(c) \/ AbandonAcquire(c) \/ SendHeartbeat(c) \/ LoseHeartbeat(c)
             \/ Finish(c) \/ LoseRelease(c) \/ Crash(c)
             \/ HandleHeartbeat(c) \/ HandleRelease(c)
      PROVE  InfraInv'
    BY <1>1, <1>9 DEF ReceiveError, AbandonAcquire, SendHeartbeat, LoseHeartbeat, Finish,
                 LoseRelease, Crash, HandleHeartbeat, HandleRelease, StoreHeartbeat,
                 StoreRelease
<1>10. ASSUME \/ UNCHANGED vars \/ SUTExit \/ Tick \/ ReaperWake \/ ReaperDone \/ ReaperCount
              \/ ReaperInFlight \/ ReaperStopSUT \/ ReaperSUTGone
       PROVE  InfraInv'
    BY <1>1, <1>10 DEF vars, SUTExit, Tick, StoreElapse, ReaperWake, StoreGC, ReaperDone,
                 ReaperCount, ReaperInFlight, ReaperStopSUT, ReaperSUTGone
<1>11. ASSUME ReaperIdle \/ Signal \/ ShutdownStopSUT \/ ShutdownSUTGone PROVE InfraInv'
    BY <1>11 DEF ReaperIdle, Signal, ShutdownStopSUT, ShutdownSUTGone
<1>12. CASE ShutdownLock
    BY <1>12 DEF ShutdownLock
<1>13. CASE ShutdownStopped
    BY <1>13 DEF ShutdownStopped
<1>14. ASSUME ShutdownHTTP \/ Exit PROVE InfraInv'
    BY <1>14 DEF ShutdownHTTP, Exit
<1> QED
    BY <1>2, <1>3, <1>4, <1>5, <1>6, <1>7, <1>8, <1>9, <1>10, <1>11, <1>12, <1>13, <1>14
       DEF Next, ClientStep, AcquireStep, ReaperStep, ShutdownStep

LEMMA InfraCorrect == Spec => []InfraInv
<1>1. Init => InfraInv
    BY DaemonAssumption DEF Init, StoreInit, InfraInv, Served, Stored
<1> QED
    BY <1>1, InfraStep, TypeCorrect, PTL DEF Spec

\* Until a shutdown has startMu for its StopAll, nobody past ensureInfraStarted
\* loses the containers.
THEOREM EnvironmentStaysAlways == Spec => []EnvironmentStays
<1>1. InfraInv => EnvironmentStays
    BY DEF InfraInv, EnvironmentStays, BeforeStop
<1> QED
    BY <1>1, InfraCorrect, PTL

\* startMu keeps StartAll and StopAll apart, whoever calls them.
THEOREM StartStopExclusiveAlways == Spec => []StartStopExclusive
<1>1. ASSUME InfraInv, TypeOK PROVE StartStopExclusive
    <2> DEFINE S == {c \in Clients : hpc[c] = "starting"}
    <2>1. S \subseteq {startMu}
        BY <1>1 DEF InfraInv
    <2>2. Cardinality(S) <= 1
        <3>1. IsFiniteSet({startMu}) /\ Cardinality({startMu}) = 1
            BY FS_Singleton
        <3> HIDE DEF S
        <3>2. IsFiniteSet(S) /\ Cardinality(S) <= Cardinality({startMu})
            BY <2>1, <3>1, FS_Subset
        <3> QED
            BY <3>1, <3>2
    <2>3. shut = "stopping" => \A c \in Clients : hpc[c] # "starting"
        BY <1>1, DaemonAssumption DEF InfraInv
    <2>4. ASSUME shut = "no", \E c \in Clients : hpc[c] = "starting"
          PROVE  held = {} /\ \A c \in Clients : ~Served(c)
        <3>1. ~infraStarted
            BY <1>1, <2>4 DEF InfraInv
        <3>2. \A c \in Clients : ~Served(c)
            BY <1>1, <2>4, <3>1 DEF InfraInv, BeforeStop
        <3>3. \A c \in Stored : c \in Clients /\ Served(c)
            BY DEF Stored, Served
        <3> QED
            BY <1>1, <3>2, <3>3 DEF InfraInv
    <2> QED
        BY <2>2, <2>3, <2>4 DEF StartStopExclusive
<1> QED
    BY <1>1, InfraCorrect, TypeCorrect, PTL

-----------------------------------------------------------------------------
(* The life of a lease.                                                    *)

\* Only its own release or its expiry takes a lease out of the table.
THEOREM LeaseEndsJustlyAlways == Spec => LeaseEndsJustly
<1>1. ASSUME [Next]_vars, NEW c \in held, c \notin held'
      PROVE  rel[c] \/ expiry[c] = 0
    BY <1>1 DEF Next, vars, leaseVars, clientVars, handlerVars, infraVars, sutVars,
         reaperVars, clockVars, ClientStep, AcquireStep, ReaperStep, ShutdownStep,
         CallAcquire, ReceiveLease, ReceiveError, AbandonAcquire, SendHeartbeat,
         LoseHeartbeat, Finish, LoseRelease, Crash, AcquireEnter, AcquireRefused,
         InfraReady, InfraBegin, InfraUp, InfraFail, SUTReady, SUTBegin, SUTUp, SUTFail,
         StoreLease, StoreAcquire, HandlerReturn, HandleHeartbeat, StoreHeartbeat,
         HandleRelease, StoreRelease, SUTExit, ReaperWake, StoreGC, Expired, ReaperDone,
         ReaperCount, ReaperInFlight, ReaperStopSUT, ReaperSUTGone, ReaperIdle, Signal,
         ShutdownStopSUT, ShutdownSUTGone, ShutdownLock, ShutdownStopped, ShutdownHTTP,
         Exit, Tick, StoreElapse
<1>2. [Next]_vars => [\A c \in held : c \notin held' => rel[c] \/ expiry[c] = 0]_vars
    BY <1>1
<1> QED
    BY <1>2, PTL DEF Spec, LeaseEndsJustly
-----------------------------------------------------------------------------
(* Daemon implements LeaseService.                                         *)

\* The value the refinement gives to `phase'.
Phase == IF shut # "no" THEN "closing"
         ELSE IF infraStarted THEN "serving" ELSE "cold"

ServiceStutters == UNCHANGED <<Phase, held, Stored \ held>>

LEMMA ServiceInitial == Init => Service!ServiceInit
    BY DEF Init, StoreInit, Service!ServiceInit, Stored

LEMMA ServiceStep ==
    ASSUME TypeOK, InfraInv, InfraInv', [Next]_vars
    PROVE  [Service!ServiceNext]_(Service!serviceVars)
<1> DEFINE Goal == Service!ServiceNext \/ ServiceStutters
<1> SUFFICES Goal
    BY DEF Service!serviceVars, Phase, ServiceStutters
<1> USE DEF TypeOK, StoreTypeOK, leaseVars, clientVars, handlerVars, infraVars,
            sutVars, reaperVars, clockVars
<1>1. CASE UNCHANGED <<held, hpc, infraStarted, shut>>
    <2>1. ServiceStutters
        BY <1>1 DEF Phase, ServiceStutters, Stored
    <2> QED
        BY <2>1
\* hpc moves without StoreLease and without touching the flag.
<1>2. ASSUME NEW c \in Clients,
             \/ CallAcquire(c) \/ ReceiveLease(c) \/ AcquireEnter(c) \/ AcquireRefused(c)
             \/ InfraReady(c) \/ InfraBegin(c) \/ InfraFail(c) \/ SUTReady(c)
             \/ SUTBegin(c) \/ SUTUp(c) \/ SUTFail(c) \/ HandlerReturn(c)
      PROVE  Goal
    <2>1. Stored' = Stored
        BY <1>2 DEF CallAcquire, ReceiveLease, AcquireEnter, AcquireRefused, InfraReady,
                    InfraBegin, InfraFail, SUTReady, SUTBegin, SUTUp, SUTFail,
                    HandlerReturn, Stored
    <2>2. UNCHANGED <<held, infraStarted, shut>>
        BY <1>2 DEF CallAcquire, ReceiveLease, AcquireEnter, AcquireRefused, InfraReady,
                    InfraBegin, InfraFail, SUTReady, SUTBegin, SUTUp, SUTFail,
                    HandlerReturn
    <2> QED
        BY ONLY <2>1, <2>2 DEF Phase, ServiceStutters
<1>3. ASSUME NEW c \in Clients, InfraUp(c) PROVE Goal
    <2>1. Stored' = Stored /\ held' = held /\ shut' = shut /\ infraStarted'
        BY <1>3 DEF InfraUp, Stored
    <2>2. CASE shut = "no" /\ ~infraStarted
        BY ONLY <2>1, <2>2 DEF Service!ServiceNext, Service!Open
    <2>3. CASE shut # "no" \/ infraStarted
        BY ONLY <2>1, <2>3 DEF Phase, ServiceStutters
    <2> QED
        BY <2>2, <2>3
<1>4. ASSUME NEW c \in Clients, StoreLease(c) PROVE Goal
    <2>1. /\ c \notin Stored /\ Stored' = Stored \union {c}
          /\ held' = held \union {c} /\ held \subseteq Stored
          /\ UNCHANGED <<infraStarted, shut>>
        BY <1>4 DEF StoreLease, StoreAcquire, InfraInv, Stored
    <2>2. shut = "no" => infraStarted
        BY <1>4 DEF StoreLease, InfraInv, BeforeStop, Served
    <2>3. Service!Grant(c)
        BY ONLY <2>1, <2>2 DEF Service!Grant
    <2> QED
        BY <2>3 DEF Service!ServiceNext
<1>5. ASSUME NEW S \in SUBSET Clients, held' = held \ S, S \subseteq held,
             UNCHANGED <<hpc, infraStarted, shut>>
      PROVE  Goal
    <2>1. Stored' = Stored /\ held \subseteq Stored
        BY <1>5 DEF InfraInv, Stored
    <2>2. Service!End(S)
        BY ONLY <2>1, <1>5 DEF Service!End
    <2> QED
        BY <2>2 DEF Service!ServiceNext
<1>6. ASSUME NEW c \in Clients, HandleRelease(c) PROVE Goal
    <2>1. held' = held \ (held \intersect {c}) /\ UNCHANGED <<hpc, infraStarted, shut>>
        BY <1>6 DEF HandleRelease, StoreRelease
    <2>2. held \intersect {c} \in SUBSET Clients /\ held \intersect {c} \subseteq held
        OBVIOUS
    <2> QED
        BY <2>1, <2>2, <1>5
<1>7. CASE ReaperWake
    <2>1. held' = held \ Expired /\ UNCHANGED <<hpc, infraStarted, shut>>
        BY <1>7 DEF ReaperWake, StoreGC
    <2>2. Expired \in SUBSET Clients /\ Expired \subseteq held
        BY DEF Expired
    <2> QED
        BY <2>1, <2>2, <1>5
\* A shutdown begins, or is already under way.
<1>8. CASE UNCHANGED <<held, hpc, infraStarted>> /\ shut' # "no"
    <2>1. Stored' = Stored
        BY <1>8 DEF Stored
    <2>2. CASE shut = "no"
        BY ONLY <2>1, <2>2, <1>8 DEF Service!ServiceNext, Service!Close
    <2>3. CASE shut # "no"
        BY ONLY <2>1, <2>3, <1>8 DEF Phase, ServiceStutters
    <2> QED
        BY <2>2, <2>3
<1>9. ASSUME NEW c \in Clients,
             \/ ReceiveError(c) \/ AbandonAcquire(c) \/ SendHeartbeat(c)
             \/ LoseHeartbeat(c) \/ Finish(c) \/ LoseRelease(c) \/ Crash(c)
             \/ HandleHeartbeat(c)
      PROVE  Goal
    BY <1>1, <1>9 DEF ReceiveError, AbandonAcquire, SendHeartbeat, LoseHeartbeat, Finish,
                 LoseRelease, Crash, HandleHeartbeat, StoreHeartbeat
<1>10. ASSUME \/ UNCHANGED vars \/ SUTExit \/ Tick \/ ReaperDone \/ ReaperCount
              \/ ReaperInFlight \/ ReaperStopSUT \/ ReaperSUTGone
       PROVE  Goal
    BY <1>1, <1>10 DEF vars, SUTExit, Tick, StoreElapse, ReaperDone, ReaperCount,
                 ReaperInFlight, ReaperStopSUT, ReaperSUTGone
<1>11. CASE ReaperIdle
    <2>1. UNCHANGED <<held, hpc, infraStarted>> /\ (shut' # "no" \/ shut' = shut)
        BY <1>11 DEF ReaperIdle
    <2> QED
        BY <2>1, <1>1, <1>8
<1>12. ASSUME Signal \/ ShutdownStopSUT \/ ShutdownSUTGone \/ ShutdownLock
              \/ ShutdownHTTP \/ Exit
       PROVE  Goal
    BY <1>8, <1>12 DEF Signal, ShutdownStopSUT, ShutdownSUTGone, ShutdownLock,
                 ShutdownHTTP, Exit
<1>13. CASE ShutdownStopped
    <2>1. held' = held /\ Stored' = Stored /\ shut # "no" /\ shut' # "no"
        BY <1>13 DEF ShutdownStopped, Stored
    <2> QED
        BY ONLY <2>1 DEF Phase, ServiceStutters
<1> HIDE DEF Goal
<1> QED
    BY <1>2, <1>3, <1>4, <1>6, <1>7, <1>9, <1>10, <1>11, <1>12, <1>13
       DEF Next, ClientStep, AcquireStep, ReaperStep, ShutdownStep

\* The daemon is a lease service: no lease before the containers are up, one per
\* process, and none that comes back after its release or expiry, whatever
\* heartbeats, releases, gc and shutdown do to each other.
THEOREM DaemonImplementsService == Spec => ServiceSpec
<1> QED
    BY ServiceInitial, ServiceStep, InfraCorrect, TypeCorrect, PTL
       DEF Spec, ServiceSpec, Service!ServiceSpec
-----------------------------------------------------------------------------
(* Daemon uses the containers as Environment allows.                       *)

\* The value the refinement gives to `busy'.
Busy == IF startMu = Nobody THEN "no" ELSE IF startMu = Closer THEN "stop" ELSE "start"

EnvironmentStutters == UNCHANGED <<containers, infraStarted, Busy>>

LEMMA EnvironmentInitial == Init => Containers!EnvironmentInit
    BY DEF Init, Containers!EnvironmentInit

LEMMA EnvironmentStep ==
    ASSUME TypeOK, InfraInv, [Next]_vars
    PROVE  [Containers!EnvironmentNext]_(Containers!environmentVars)
<1> DEFINE Goal == Containers!EnvironmentNext \/ EnvironmentStutters
<1> SUFFICES Goal
    BY DEF Containers!environmentVars, Busy, EnvironmentStutters
<1> USE DaemonAssumption
        DEF TypeOK, leaseVars, clientVars, handlerVars, infraVars, sutVars, reaperVars,
            clockVars
<1>1. CASE UNCHANGED infraVars
    BY <1>1 DEF EnvironmentStutters, Busy
<1>2. ASSUME NEW c \in Clients, InfraBegin(c) PROVE Goal
    <2>1. Containers!BeginStart
        BY <1>2 DEF InfraBegin, Containers!BeginStart
    <2> QED
        BY <2>1 DEF Containers!EnvironmentNext
<1>3. ASSUME NEW c \in Clients, InfraUp(c) PROVE Goal
    <2>1. startMu = c
        BY <1>3 DEF InfraUp, InfraInv
    <2>2. Containers!Started
        BY <1>3, <2>1 DEF InfraUp, Containers!Started
    <2> QED
        BY <2>2 DEF Containers!EnvironmentNext
<1>4. ASSUME NEW c \in Clients, InfraFail(c) PROVE Goal
    <2>1. startMu = c
        BY <1>4 DEF InfraFail, InfraInv
    <2>2. Containers!StartFailed
        BY <1>4, <2>1 DEF InfraFail, Containers!StartFailed
    <2> QED
        BY <2>2 DEF Containers!EnvironmentNext
<1>5. CASE ShutdownLock
    <2>1. CASE infraStarted
        <3>1. Containers!BeginStop
            BY <1>5, <2>1 DEF ShutdownLock, Containers!BeginStop
        <3> QED
            BY <3>1 DEF Containers!EnvironmentNext
    <2>2. CASE ~infraStarted
        BY <1>1, <1>5, <2>2 DEF ShutdownLock
    <2> QED
        BY <2>1, <2>2
<1>6. CASE ShutdownStopped
    <2>1. startMu = Closer
        BY <1>6 DEF ShutdownStopped, InfraInv
    <2>2. Containers!Stopped
        BY <1>6, <2>1 DEF ShutdownStopped, Containers!Stopped
    <2> QED
        BY <2>2 DEF Containers!EnvironmentNext
<1>7. \/ UNCHANGED infraVars \/ ShutdownLock \/ ShutdownStopped
      \/ \E c \in Clients : InfraBegin(c) \/ InfraUp(c) \/ InfraFail(c)
    BY DEF Next, vars, ClientStep, AcquireStep, ReaperStep, ShutdownStep, CallAcquire,
           ReceiveLease, ReceiveError, AbandonAcquire, SendHeartbeat, LoseHeartbeat,
           Finish, LoseRelease, Crash, AcquireEnter, AcquireRefused, InfraReady,
           SUTReady, SUTBegin, SUTUp, SUTFail, StoreLease, HandlerReturn,
           HandleHeartbeat, HandleRelease, SUTExit, Signal, Tick, ReaperWake,
           ReaperDone, ReaperCount, ReaperInFlight, ReaperStopSUT, ReaperSUTGone,
           ReaperIdle, ShutdownStopSUT, ShutdownSUTGone, ShutdownHTTP, Exit
<1> HIDE DEF Goal
<1> QED
    BY <1>1, <1>2, <1>3, <1>4, <1>5, <1>6, <1>7

\* Whatever handlers and shutdown do at the same time, the containers see one call
\* after the other, in an order that the environment allows.
THEOREM DaemonUsesEnvironment == Spec => EnvironmentSpec
<1> QED
    BY EnvironmentInitial, EnvironmentStep, InfraCorrect, TypeCorrect, PTL
       DEF Spec, EnvironmentSpec, Containers!EnvironmentSpec

-----------------------------------------------------------------------------
(* Daemon uses the SUT as SUTService allows.                               *)

\* sutManager.mu is held exactly while a handler probes, and then the SUT is down.
SUTInv ==
    /\ \A c \in Clients : sutMu = c <=> hpc[c] = "probing"
    /\ sutMu # Nobody => sut = "down"

SUTStutters == UNCHANGED <<sut, sutMu>>

LEMMA SUTInitial == Init => SUTInv /\ SUT!SUTServiceInit
    BY DaemonAssumption DEF Init, SUTInv, SUT!SUTServiceInit

LEMMA SUTStep ==
    ASSUME TypeOK, SUTInv, [Next]_vars
    PROVE  SUTInv' /\ (SUT!SUTServiceNext \/ SUTStutters)
<1> DEFINE Goal == SUTInv' /\ (SUT!SUTServiceNext \/ SUTStutters)
<1> SUFFICES Goal
    OBVIOUS
<1> USE DaemonAssumption
        DEF TypeOK, SUTInv, SUTStutters, leaseVars, clientVars, handlerVars, infraVars,
            sutVars, reaperVars, clockVars
<1>1. CASE UNCHANGED <<hpc, sutVars>>
    BY <1>1
<1>2. ASSUME NEW c \in Clients,
             \/ CallAcquire(c) \/ ReceiveLease(c) \/ AcquireEnter(c) \/ AcquireRefused(c)
             \/ InfraReady(c) \/ InfraBegin(c) \/ InfraUp(c) \/ InfraFail(c)
             \/ SUTReady(c) \/ StoreLease(c) \/ HandlerReturn(c)
      PROVE  Goal
    BY <1>2 DEF CallAcquire, ReceiveLease, AcquireEnter, AcquireRefused, InfraReady,
                InfraBegin, InfraUp, InfraFail, SUTReady, StoreLease, HandlerReturn
<1>3. ASSUME NEW c \in Clients, SUTBegin(c) PROVE Goal
    <2>1. SUT!Begin(c)
        BY <1>3 DEF SUTBegin, SUT!Begin
    <2>2. SUTInv'
        BY <1>3 DEF SUTBegin
    <2> QED
        BY <2>1, <2>2 DEF SUT!SUTServiceNext
<1>4. ASSUME NEW c \in Clients, SUTUp(c) PROVE Goal
    <2>1. SUT!Succeed(c)
        BY <1>4 DEF SUTUp, SUT!Succeed
    <2>2. SUTInv'
        BY <1>4 DEF SUTUp
    <2> QED
        BY <2>1, <2>2 DEF SUT!SUTServiceNext
<1>5. ASSUME NEW c \in Clients, SUTFail(c) PROVE Goal
    <2>1. SUT!Fail(c)
        BY <1>5 DEF SUTFail, SUT!Fail
    <2>2. SUTInv'
        BY <1>5 DEF SUTFail
    <2> QED
        BY <2>1, <2>2 DEF SUT!SUTServiceNext
\* Nobody holds mu while the SUT is up, so a stop or its own end finds mu free.
<1>6. ASSUME SUTExit \/ ReaperStopSUT \/ ShutdownStopSUT PROVE Goal
    <2>1. sut' = "down" /\ UNCHANGED <<hpc, sutMu>>
        BY <1>6 DEF SUTExit, ReaperStopSUT, ShutdownStopSUT
    <2>2. CASE sut = "up"
        BY <2>1, <2>2 DEF SUT!SUTServiceNext, SUT!GoDown
    <2>3. CASE sut = "down"
        BY <2>1, <2>3
    <2> QED
        BY <2>2, <2>3
<1>7. \/ UNCHANGED <<hpc, sutVars>> \/ SUTExit \/ ReaperStopSUT \/ ShutdownStopSUT
      \/ \E c \in Clients :
            \/ CallAcquire(c) \/ ReceiveLease(c) \/ AcquireEnter(c) \/ AcquireRefused(c)
            \/ InfraReady(c) \/ InfraBegin(c) \/ InfraUp(c) \/ InfraFail(c)
            \/ SUTReady(c) \/ SUTBegin(c) \/ SUTUp(c) \/ SUTFail(c)
            \/ StoreLease(c) \/ HandlerReturn(c)
    BY DEF Next, vars, ClientStep, AcquireStep, ReaperStep, ShutdownStep, ReceiveError,
           AbandonAcquire, SendHeartbeat, LoseHeartbeat, Finish, LoseRelease, Crash,
           HandleHeartbeat, HandleRelease, Signal, Tick, ReaperWake, ReaperDone,
           ReaperCount, ReaperInFlight, ReaperSUTGone, ReaperIdle, ShutdownSUTGone,
           ShutdownLock, ShutdownStopped, ShutdownHTTP, Exit
<1> QED
    BY <1>1, <1>2, <1>3, <1>4, <1>5, <1>6, <1>7

\* Whatever handlers, reaper and shutdown do at the same time, the SUT comes up only
\* by the handler that holds mu, and nobody stops it meanwhile.
THEOREM DaemonUsesSUTService == Spec => SUTServiceSpec
<1>1. Init => SUTInv /\ SUT!SUTServiceInit
    BY SUTInitial
<1>2. TypeOK /\ SUTInv /\ [Next]_vars => SUTInv'
    BY SUTStep
<1>3. TypeOK /\ SUTInv /\ [Next]_vars => [SUT!SUTServiceNext]_(SUT!sutServiceVars)
    BY SUTStep DEF SUT!sutServiceVars, SUTStutters
<1> QED
    BY <1>1, <1>2, <1>3, TypeCorrect, PTL
       DEF Spec, SUTServiceSpec, SUT!SUTServiceSpec

-----------------------------------------------------------------------------
(* Why every Acquire is answered: the steps of AcquireAnswered that need no  *)
(* fairness.                                                                 *)

LEMMA SUTInvariant == Spec => []SUTInv
<1>1. Init => SUTInv
    BY SUTInitial
<1>2. TypeOK /\ SUTInv /\ [Next]_vars => SUTInv'
    BY SUTStep
<1> QED
    BY <1>1, <1>2, TypeCorrect, PTL DEF Spec

\* Nobody in the daemon ever waits for somebody who waits: handlers, reaper and
\* shutdown cannot block each other through startMu and sutManager.mu.
THEOREM NobodyStuckAlways == Spec => []NobodyStuck
<1>1. ASSUME TypeOK, InfraInv, SUTInv PROVE NobodyStuck
    <2>1. startMu \in Clients => CanStep(startMu)
        BY <1>1 DEF InfraInv, CanStep
    <2>2. sutMu \in Clients => CanStep(sutMu)
        BY <1>1 DEF SUTInv, CanStep
    <2>3. startMu = Closer => shut = "stopping"
        BY <1>1 DEF InfraInv
    <2>4. ASSUME NEW c \in Handlers
          PROVE  \/ CanStep(c)
                 \/ hpc[c] = "infra" /\ startMu = Closer /\ shut = "stopping"
                 \/ hpc[c] = "infra" /\ startMu \in Clients /\ CanStep(startMu)
                 \/ hpc[c] = "sut" /\ sutMu \in Clients /\ CanStep(sutMu)
        <3>1. hpc[c] \in {"starting", "probing", "store", "stored", "failing", "infra", "sut"}
            BY <2>4 DEF Handlers, InHandler
        <3>2. startMu \in Clients \/ startMu = Nobody \/ startMu = Closer
            BY <1>1 DEF TypeOK
        <3>3. sutMu \in Clients \/ sutMu = Nobody
            BY <1>1 DEF TypeOK
        <3>4. \/ CanStep(c)
              \/ hpc[c] = "infra" /\ startMu # Nobody
              \/ hpc[c] = "sut" /\ sutMu # Nobody
            BY <3>1 DEF CanStep
        <3> QED
            BY <2>1, <2>2, <2>3, <3>2, <3>3, <3>4
    <2>5. shut = "lock" /\ startMu # Nobody => startMu \in Clients /\ CanStep(startMu)
        BY <1>1, <2>1, <2>3 DEF TypeOK
    <2>6. sutMu # Nobody => sutMu \in Clients /\ CanStep(sutMu)
        BY <1>1, <2>2 DEF TypeOK
    <2> QED
        BY <2>4, <2>5, <2>6 DEF NobodyStuck
<1> QED
    BY <1>1, TypeCorrect, InfraCorrect, SUTInvariant, PTL

\* How many steps an Acquire still takes, at most, from each pc of its handler.
Remaining(pc) ==
    CASE pc = "idle" -> 8     [] pc = "sent" -> 7
      [] pc = "infra" -> 6    [] pc = "starting" -> 5
      [] pc = "sut" -> 4      [] pc = "probing" -> 3
      [] pc = "store" -> 2    [] pc \in {"stored", "failing"} -> 1
      [] OTHER -> 0

\* Every step of c's handler shortens what is left of it, and nobody else's step
\* sends it back: no path through handleAcquire retries.
AcquireGoesForward ==
    [][\A c \in Clients :
           /\ Remaining(hpc'[c]) <= Remaining(hpc[c])
           /\ AcquireStep(c) => Remaining(hpc'[c]) < Remaining(hpc[c])]_vars

\* Hence an Acquire takes at most eight steps of its own, whoever else acts between
\* them; whom it waits for meanwhile is what NobodyStuck says.
THEOREM AcquireGoesForwardAlways == Spec => AcquireGoesForward
<1> DEFINE Forward(c) ==
        /\ Remaining(hpc'[c]) <= Remaining(hpc[c])
        /\ AcquireStep(c) => Remaining(hpc'[c]) < Remaining(hpc[c])
<1>1. ASSUME TypeOK, [Next]_vars, NEW c \in Clients PROVE Forward(c)
    <2>1. Remaining(hpc[c]) \in Nat
        BY DEF Remaining
    <2>2. ASSUME AcquireStep(c) PROVE Remaining(hpc'[c]) < Remaining(hpc[c])
        BY <1>1, <2>2 DEF AcquireStep, AcquireEnter, AcquireRefused, InfraReady,
           InfraBegin, InfraUp, InfraFail, SUTReady, SUTBegin, SUTUp, SUTFail,
           StoreLease, HandlerReturn, Remaining, TypeOK
    <2>3. CASE hpc'[c] = hpc[c]
        BY <2>1, <2>2, <2>3
    <2>4. CASE hpc'[c] # hpc[c] /\ ~AcquireStep(c)
        <3>1. CallAcquire(c) \/ ReceiveLease(c)
            BY <1>1, <2>4
               DEF TypeOK, Next, vars, leaseVars, clientVars, handlerVars, infraVars,
                   sutVars, reaperVars, clockVars, ClientStep, AcquireStep, ReaperStep,
                   ShutdownStep, CallAcquire, ReceiveLease, ReceiveError, AbandonAcquire,
                   SendHeartbeat, LoseHeartbeat, Finish, LoseRelease, Crash,
                   AcquireEnter, AcquireRefused, InfraReady, InfraBegin, InfraUp,
                   InfraFail, SUTReady, SUTBegin, SUTUp, SUTFail, StoreLease,
                   HandlerReturn, HandleHeartbeat, HandleRelease, SUTExit, ReaperWake,
                   ReaperDone, ReaperCount, ReaperInFlight, ReaperStopSUT,
                   ReaperSUTGone, ReaperIdle, Signal, ShutdownStopSUT, ShutdownSUTGone,
                   ShutdownLock, ShutdownStopped, ShutdownHTTP, Exit, Tick
        <3> QED
            BY <1>1, <2>4, <3>1 DEF CallAcquire, ReceiveLease, Remaining, TypeOK
    <2>5. CASE AcquireStep(c)
        <3>1. Remaining(hpc'[c]) \in Nat
            BY DEF Remaining
        <3> QED
            BY <2>1, <2>2, <2>5, <3>1
    <2> QED
        BY <2>3, <2>4, <2>5
<1>2. TypeOK /\ [Next]_vars => [\A c \in Clients : Forward(c)]_vars
    BY <1>1
<1> QED
    BY <1>2, TypeCorrect, PTL DEF Spec, AcquireGoesForward

-----------------------------------------------------------------------------
(* Why an abandoned lease is reclaimed: the steps of AbandonedLeaseReclaimed *)
(* that need no fairness.                                                    *)

\* The lease of a process that is gone and has no heartbeat on the wire only ages:
\* time shortens it, and nothing renews it or puts a heartbeat on the wire again.
OnlyAges(c) ==
    cpc[c] = "gone" /\ c \in held /\ ~beat[c] =>
        /\ cpc'[c] = "gone" /\ ~beat'[c]
        /\ expiry'[c] <= expiry[c]
        /\ Tick => expiry'[c] < expiry[c] \/ expiry[c] = 0
AbandonedOnlyAges == [][\A c \in Clients : OnlyAges(c)]_vars

LEMMA OnlyAgesStep ==
    ASSUME TypeOK, InfraInv, [Next]_vars, NEW c \in Clients
    PROVE  OnlyAges(c)
<1> USE DaemonAssumption, LeaseTTLAssumption
        DEF TypeOK, StoreTypeOK, OnlyAges, leaseVars, clientVars, handlerVars, infraVars,
            sutVars, reaperVars, clockVars
<1>1. CASE Tick
    BY <1>1 DEF Tick, StoreElapse
<1>2. CASE ~Tick /\ UNCHANGED <<cpc, beat, expiry>>
    BY <1>2
<1>3. ASSUME ~Tick, NEW d \in Clients, ClientStep(d) PROVE OnlyAges(c)
    BY <1>3 DEF ClientStep, CallAcquire, ReceiveLease, ReceiveError, AbandonAcquire,
                SendHeartbeat, LoseHeartbeat, Finish, LoseRelease, Crash
\* A process with a lease is past its store.acquire.
<1>4. ASSUME ~Tick, NEW d \in Clients, StoreLease(d) PROVE OnlyAges(c)
    <2>1. d \notin held
        BY <1>4 DEF StoreLease, InfraInv, Stored
    <2> QED
        BY <1>4, <2>1 DEF StoreLease, StoreAcquire
<1>5. ASSUME ~Tick, NEW d \in Clients, HandleHeartbeat(d) PROVE OnlyAges(c)
    BY <1>5 DEF HandleHeartbeat, StoreHeartbeat
<1>6. ASSUME ~Tick, NEW d \in Clients, HandleRelease(d) PROVE OnlyAges(c)
    BY <1>6 DEF HandleRelease, StoreRelease
<1>7. \/ Tick \/ UNCHANGED <<cpc, beat, expiry>>
      \/ \E d \in Clients : \/ ClientStep(d) \/ StoreLease(d)
                            \/ HandleHeartbeat(d) \/ HandleRelease(d)
    BY DEF Next, vars, AcquireStep, ReaperStep, ShutdownStep, AcquireEnter,
           AcquireRefused, InfraReady, InfraBegin, InfraUp, InfraFail, SUTReady,
           SUTBegin, SUTUp, SUTFail, HandlerReturn, SUTExit, ReaperWake, StoreGC,
           ReaperDone, ReaperCount, ReaperInFlight, ReaperStopSUT, ReaperSUTGone,
           ReaperIdle, Signal, ShutdownStopSUT, ShutdownSUTGone, ShutdownLock,
           ShutdownStopped, ShutdownHTTP, Exit
<1> QED
    BY <1>1, <1>2, <1>3, <1>4, <1>5, <1>6, <1>7

\* Whatever other processes, late handlers and the reaper do.
THEOREM AbandonedOnlyAgesAlways == Spec => AbandonedOnlyAges
<1>1. TypeOK /\ InfraInv /\ [Next]_vars => [\A c \in Clients : OnlyAges(c)]_vars
    BY OnlyAgesStep
<1> QED
    BY <1>1, TypeCorrect, InfraCorrect, PTL DEF Spec, AbandonedOnlyAges

-----------------------------------------------------------------------------
(* The only ways into the two states that the documents rule out.            *)

\* A handler is late when it still brings something up after the shutdown has
\* dealt with it: it probes the SUT after stopSUTOnly, or is in StartAll after
\* stopContainersOnly.
NoLateStart ==
    /\ shut \in {"sutGone", "lock", "stopping", "http", "closed", "exited"} =>
           \A c \in Clients : hpc[c] # "probing"
    /\ shut \in {"http", "closed", "exited"} => \A c \in Clients : hpc[c] # "starting"

\* What the shutdown has dealt with stays down.
DownInv ==
    /\ ContainersUp => infraStarted
    /\ shut \in {"sutGone", "lock", "stopping", "http", "closed", "exited"} => sut = "down"
    /\ shut \in {"http", "closed", "exited"} => ~ContainersUp

LEMMA DownStep ==
    ASSUME TypeOK, NoLateStart, DownInv, [Next]_vars
    PROVE  DownInv'
<1> USE DEF TypeOK, NoLateStart, DownInv, ContainersUp, ShutPCs, handlerVars, infraVars, sutVars
<1>1. CASE UNCHANGED <<infraVars, sutVars, shut>>
    BY <1>1
<1>2. ASSUME NEW c \in Clients, InfraBegin(c) \/ SUTBegin(c) \/ SUTFail(c) PROVE DownInv'
    BY <1>2 DEF InfraBegin, SUTBegin, SUTFail
<1>3. ASSUME NEW c \in Clients, InfraUp(c) PROVE DownInv'
    BY <1>3 DEF InfraUp
<1>4. ASSUME NEW c \in Clients, InfraFail(c) PROVE DownInv'
    BY <1>4 DEF InfraFail
<1>5. ASSUME NEW c \in Clients, SUTUp(c) PROVE DownInv'
    BY <1>5 DEF SUTUp
<1>6. ASSUME SUTExit \/ ReaperStopSUT PROVE DownInv'
    BY <1>6 DEF SUTExit, ReaperStopSUT
<1>7. ASSUME ReaperIdle \/ Signal PROVE DownInv'
    BY <1>7 DEF ReaperIdle, Signal
<1>8. ASSUME ShutdownStopSUT \/ ShutdownSUTGone \/ ShutdownHTTP \/ Exit PROVE DownInv'
    BY <1>8 DEF ShutdownStopSUT, ShutdownSUTGone, ShutdownHTTP, Exit
<1>9. CASE ShutdownLock
    BY <1>9 DEF ShutdownLock
<1>10. CASE ShutdownStopped
    BY <1>10 DEF ShutdownStopped
<1>11. \/ UNCHANGED <<infraVars, sutVars, shut>> \/ SUTExit \/ ReaperStopSUT
       \/ ReaperIdle \/ Signal \/ ShutdownStep
       \/ \E c \in Clients : \/ InfraBegin(c) \/ InfraUp(c) \/ InfraFail(c)
                             \/ SUTBegin(c) \/ SUTUp(c) \/ SUTFail(c)
    BY DEF Next, vars, ClientStep, AcquireStep, ReaperStep, CallAcquire, ReceiveLease,
           ReceiveError, AbandonAcquire, SendHeartbeat, LoseHeartbeat, Finish,
           LoseRelease, Crash, AcquireEnter, AcquireRefused, InfraReady, SUTReady,
           StoreLease, HandlerReturn, HandleHeartbeat, HandleRelease, Tick, ReaperWake,
           ReaperDone, ReaperCount, ReaperInFlight, ReaperSUTGone
<1> QED
    BY <1>1, <1>2, <1>3, <1>4, <1>5, <1>6, <1>7, <1>8, <1>9, <1>10, <1>11
       DEF ShutdownStep

\* Only a late handler can leave something behind: in every run without one, a
\* daemon that exits, by itself or by a signal, leaves neither the containers
\* running nor the SUT.
THEOREM NothingLeftUnlessLate == Spec /\ []NoLateStart => []NothingLeft
<1>1. Init => DownInv
    BY DEF Init, DownInv, ContainersUp
<1>2. TypeOK /\ NoLateStart /\ DownInv /\ [Next]_vars => DownInv'
    BY DownStep
<1>3. DownInv => NothingLeft
    BY DEF DownInv, NothingLeft
<1> QED
    BY <1>1, <1>2, <1>3, TypeCorrect, PTL DEF Spec

\* No Acquire arrives between the reaper's look at acquireInFlight and its stop of
\* the SUT.
NoArrivalBeforeStop == [][reaper = "stopSUT" => acquireInFlight' <= acquireInFlight]_vars

LEMMA SparesStep ==
    ASSUME TypeOK, InFlightExact, [Next]_vars,
           (reaper = "stopSUT" => acquireInFlight' <= acquireInFlight) \/ UNCHANGED vars,
           reaper = "stopSUT" => acquireInFlight <= 0
    PROVE  reaper' = "stopSUT" => acquireInFlight' <= 0
<1>1. CASE reaper = "stopSUT"
    <2>1. acquireInFlight \in Int /\ acquireInFlight' \in Int
        BY TypeStep DEF TypeOK
    <2>2. acquireInFlight' <= acquireInFlight
        BY <1>1, <2>1 DEF vars, handlerVars
    <2> QED
        BY <1>1, <2>1, <2>2
<1>2. CASE reaper # "stopSUT" /\ reaper' = "stopSUT"
    <2>1. ReaperInFlight
        BY <1>2 DEF Next, vars, leaseVars, clientVars, handlerVars, infraVars,
           sutVars, reaperVars, clockVars, ClientStep, AcquireStep, ReaperStep,
           ShutdownStep, CallAcquire, ReceiveLease, ReceiveError, AbandonAcquire,
           SendHeartbeat, LoseHeartbeat, Finish, LoseRelease, Crash, AcquireEnter,
           AcquireRefused, InfraReady, InfraBegin, InfraUp, InfraFail, SUTReady,
           SUTBegin, SUTUp, SUTFail, StoreLease, HandlerReturn, HandleHeartbeat,
           HandleRelease, SUTExit, ReaperWake, ReaperDone, ReaperCount, ReaperStopSUT,
           ReaperSUTGone, ReaperIdle, EndPass, Signal, ShutdownStopSUT, ShutdownSUTGone,
           ShutdownLock, ShutdownStopped, ShutdownHTTP, Exit, Tick
    <2> QED
        BY <1>2, <2>1 DEF TypeOK, ReaperInFlight, EndPass, handlerVars
<1> QED
    BY <1>1, <1>2

\* Only an Acquire that arrives in that window can lose the SUT to the reaper: the
\* comment at acquireInFlight is right about all the others.
THEOREM ReaperSparesBusyUnlessLate ==
    Spec /\ NoArrivalBeforeStop => ReaperSparesBusySUT
<1> DEFINE Idle == reaper = "stopSUT" => acquireInFlight <= 0
           Quiets == reaper = "stopSUT" => acquireInFlight' <= acquireInFlight
<1>1. Init => Idle
    BY DEF Init
<1>2. TypeOK /\ InFlightExact /\ Idle /\ [Next]_vars /\ [Quiets]_vars => Idle'
    BY SparesStep
<1>3. TypeOK /\ InFlightExact /\ Idle =>
          (reaper = "stopSUT" /\ reaper' = "sutGone" => acquireInFlight = 0)
    <2>1. InFlightExact => acquireInFlight \in Nat
        BY HandlersFinite, FS_CardinalityType DEF InFlightExact
    <2> QED
        BY <2>1
<1>4. TypeOK /\ InFlightExact /\ Idle =>
          [reaper = "stopSUT" /\ reaper' = "sutGone" => acquireInFlight = 0]_vars
    BY <1>3
<1> HIDE DEF Idle
<1> QED
    BY <1>1, <1>2, <1>4, TypeCorrect, InFlightCorrect, PTL
       DEF Spec, NoArrivalBeforeStop, ReaperSparesBusySUT

=============================================================================
