----------------------------- MODULE MCProgress -----------------------------
(***************************************************************************)
(* What the parts that share no state must bring to an end, in one run: a  *)
(* behaviour picks a part and is a fair behaviour of that part's           *)
(* specification, and the variables of the others stay as they begin.  The *)
(* fairness of a part is that of its module, asked of the behaviours that  *)
(* picked it.                                                              *)
(***************************************************************************)
EXTENDS ServerOutbox, TLC

CONSTANTS a1, b1, k1, u1

VARIABLE part

outbox == <<row, pc, batch, first, elapsed, busy, slowest, others, tries,
                reports>>

(* No time passes at these stages that Slowest does not cover.             *)
AllPrompt == {"loop"} \cup AtEvent

(* Both requests carry the same id.                                        *)
OneId == (a1 :> 1) @@ (b1 :> 1)

-----------------------------------------------------------------------------
(* The fairness of ServerOutbox.                                           *)
OutboxFairness ==
    /\ WF_outbox(part = "outbox" /\ Tick)
    /\ \A w \in Workers : WF_outbox(part = "outbox" /\ DrainStep(w))
    /\ \A r \in Rows : WF_outbox(part = "outbox" /\ RemoveProcessed(r))

(* Once workers stop dying, every row is published or given up, and a      *)
(* repeating job goes on.                                                  *)
OutboxGoesOn == part = "outbox" => EveryRowEnds /\ ChainRuns

-----------------------------------------------------------------------------
(* The sync runner, with subscribers that start and stop it.               *)
VARIABLES syncStage, syncActive, syncAgain, syncInProgress, syncRetryHeld,
          syncRetryTimers, syncPoll, syncFailures, syncNextRetryAt, syncVisible,
          syncOnline, syncOwed
Sync == INSTANCE SyncRunner WITH
    Runs <- {a1, b1}, ListenerCalls <- {"stop", "start"}, Polls <- TRUE,
    MaxFailures <- 2, MaxTimers <- 3, stage <- syncStage, active <- syncActive,
    again <- syncAgain, inProgress <- syncInProgress, retryHeld <- syncRetryHeld,
    retryTimers <- syncRetryTimers, poll <- syncPoll, failures <- syncFailures,
    nextRetryAt <- syncNextRetryAt, visible <- syncVisible, online <- syncOnline,
    owed <- syncOwed

sync == <<syncStage, syncActive, syncAgain, syncInProgress, syncRetryHeld,
          syncRetryTimers, syncPoll, syncFailures, syncNextRetryAt, syncVisible,
          syncOnline, syncOwed>>

(* The fairness of SyncRunner.                                             *)
SyncFairness ==
    /\ \A r \in {a1, b1} : WF_sync(part = "sync" /\ Sync!RunStep(r)) /\ WF_sync(part = "sync" /\ Sync!FlushSettles(r))
    /\ WF_sync(part = "sync" /\ Sync!RetryFires)
    /\ WF_sync(part = "sync" /\ Sync!PollFires)

-----------------------------------------------------------------------------
(* The client transport with a change to fetch.                            *)
VARIABLES transportStatus, transportStopped, transportAttempt, transportTimer,
          transportSock, transportChain, transportPending, transportCursor,
          transportHave, transportSeq
Transport == INSTANCE ClientTransport WITH
    TransportCalls <- {}, Impatient <- FALSE, MaxCommits <- 1, MaxTasks <- 1,
    status <- transportStatus, stopped <- transportStopped,
    attempt <- transportAttempt, timer <- transportTimer, sock <- transportSock,
    chain <- transportChain, pending <- transportPending, cursor <- transportCursor,
    have <- transportHave, seq <- transportSeq

ASSUME Transport!TransportAssumption

transport == <<transportStatus, transportStopped, transportAttempt, transportTimer,
               transportSock, transportChain, transportPending, transportCursor,
               transportHave, transportSeq>>

(* The fairness of ClientTransport.                                        *)
TransportFairness ==
    /\ WF_transport(part = "transport" /\ Transport!HandleClose)
    /\ WF_transport(part = "transport" /\ Transport!HandlePongTimeout)
    /\ WF_transport(part = "transport" /\ Transport!HandleConnectTimeout)
    /\ WF_transport(part = "transport" /\ Transport!HeartbeatFires)
    /\ WF_transport(part = "transport" /\ Transport!ReconnectFires)
    /\ WF_transport(part = "transport" /\ Transport!TaskStep)

-----------------------------------------------------------------------------
(* The registry with one connection and two requests of one id.            *)
VARIABLES registryConn, registryBeatIn, registryReq, registryRun
Registry == INSTANCE Registry WITH
    Connections <- {k1}, Users <- {u1}, Requests <- {a1, b1}, IdOf <- OneId,
    MaxPerUser <- 1, MaxInFlight <- 2, Heartbeat <- 1, Liveness <- 2,
    RequestTimeout <- 1, conn <- registryConn, beatIn <- registryBeatIn,
    req <- registryReq, run <- registryRun

registry == <<registryConn, registryBeatIn, registryReq, registryRun>>

(* The fairness of Registry.                                               *)
RegistryFairness ==
    /\ WF_registry(part = "registry" /\ Registry!Tick)
    /\ WF_registry(part = "registry" /\ Registry!Beat)
    /\ \A r \in {a1, b1} : WF_registry(part = "registry" /\ Registry!RequestTimesOut(r))

-----------------------------------------------------------------------------
(* One query, tried once.                                                  *)
VARIABLES callsSocket, callsFirst, callsGate, callsSettled, callsCall, callsWire,
          callsSession, callsWorks, callsKey, callsRan
ClientCalls == INSTANCE Calls WITH
    Calls <- {a1}, CommandCalls <- {}, SessionUsers <- {u1}, PageUser <- u1, Attempts <- 1,
    socket <- callsSocket, first <- callsFirst, gate <- callsGate,
    settled <- callsSettled, call <- callsCall, wire <- callsWire,
    session <- callsSession, works <- callsWorks, key <- callsKey, ran <- callsRan

calls == <<callsSocket, callsFirst, callsGate, callsSettled, callsCall, callsWire,
           callsSession, callsWorks, callsKey, callsRan>>

(* The fairness of Calls.                                                  *)
ClientCallsFairness ==
    /\ WF_calls(part = "calls" /\ ClientCalls!GateEnds)
    /\ WF_calls(part = "calls" /\ ClientCalls!Begin(a1))
    /\ WF_calls(part = "calls" /\ ClientCalls!PassGate(a1))
    /\ WF_calls(part = "calls" /\ ClientCalls!WakeUp(a1))
    /\ WF_calls(part = "calls" /\ ClientCalls!TimesOut(a1))

-----------------------------------------------------------------------------
(* The cache with two calls of wrap and a writer.                          *)
VARIABLES cacheDb, cacheHeld, cacheWire, cacheTrusted, cacheDue, cacheWaiting,
          cacheWrap, cachePending, cacheWriter, cacheFloor, cacheSlipped,
          cacheRestarts
Cache == INSTANCE Cache WITH
    Wraps <- {a1, b1}, Writers <- {k1}, MaxVersion <- 2, MaxRestarts <- 0,
    db <- cacheDb, held <- cacheHeld, wire <- cacheWire, trusted <- cacheTrusted,
    due <- cacheDue, waiting <- cacheWaiting, wrap <- cacheWrap,
    pending <- cachePending, writer <- cacheWriter, floor <- cacheFloor,
    slipped <- cacheSlipped, restarts <- cacheRestarts

ASSUME Cache!CacheAssumption

cache == <<cacheDb, cacheHeld, cacheWire, cacheTrusted, cacheDue, cacheWaiting,
           cacheWrap, cachePending, cacheWriter, cacheFloor, cacheSlipped,
           cacheRestarts>>

(* The fairness of Cache.                                                  *)
CacheFairness ==
    /\ \A w \in {a1, b1} :
          WF_cache(part = "cache" /\ Cache!Miss(w)) /\ WF_cache(part = "cache" /\ Cache!LoadReads(w))
          /\ WF_cache(part = "cache" /\ Cache!LoadReturns(w))
    /\ WF_cache(part = "cache" /\ (Cache!Serve \/ Cache!Throw))

-----------------------------------------------------------------------------
(* The throttled saver with one call of flush.                             *)
VARIABLES saverTime, saverMarked, saverSaved, saverBatch, saverLastWriteAt,
          saverTimer, saverFollowUp, saverWrites, saverDisk, saverFlushes,
          saverMayForget, saverFailures
Saver == INSTANCE Saver WITH
    Flushes <- {a1}, Window <- 1, BatchSize <- 2, MaxMarks <- 3, SaverMaxTime <- 2,
    MaxFailures <- 1, time <- saverTime, marked <- saverMarked, saved <- saverSaved,
    batch <- saverBatch, lastWriteAt <- saverLastWriteAt, timer <- saverTimer,
    followUp <- saverFollowUp, writes <- saverWrites, disk <- saverDisk,
    flushes <- saverFlushes, mayForget <- saverMayForget, failures <- saverFailures

saver == <<saverTime, saverMarked, saverSaved, saverBatch, saverLastWriteAt,
           saverTimer, saverFollowUp, saverWrites, saverDisk, saverFlushes,
           saverMayForget, saverFailures>>

(* The fairness of Saver.                                                  *)
SaverFairness ==
    /\ WF_saver(part = "saver" /\ Saver!WriteEnds)
    /\ WF_saver(part = "saver" /\ Saver!WriteSettles)
    /\ WF_saver(part = "saver" /\ Saver!FlushLooksAgain(a1))
    /\ WF_saver(part = "saver" /\ Saver!TimerFires)
    /\ WF_saver(part = "saver" /\ Saver!Advance)

-----------------------------------------------------------------------------
(* The key-value store with two calls.                                     *)
VARIABLES storeConns, storeCurrent, storeOpening, storeLast, storeClosed,
          storeCalls, storeBreaks
KvStore == INSTANCE KvStore WITH
    StoreCalls <- {a1, b1}, MaxConnections <- 3, MaxBreaks <- 2, conns <- storeConns,
    current <- storeCurrent, opening <- storeOpening, last <- storeLast,
    closed <- storeClosed, calls <- storeCalls, breaks <- storeBreaks

store == <<storeConns, storeCurrent, storeOpening, storeLast, storeClosed,
           storeCalls, storeBreaks>>

(* The fairness of KvStore.                                                *)
KvStoreFairness ==
    /\ \A c \in {a1, b1} :
          /\ WF_store(part = "store" /\ (KvStore!Reply(c) \/ KvStore!Fail(c) \/ KvStore!Timeout(c)))
          /\ WF_store(part = "store" /\ KvStore!Resume(c))
    /\ WF_store(part = "store" /\ (KvStore!OpenSucceeds \/ KvStore!OpenFails))

-----------------------------------------------------------------------------
(* What failed, broke or is due is tried again: a failed flush of the      *)
(* outbox, a poll, a dead socket, a reconnect.                             *)
TriesAgain ==
    /\ part = "sync" => Sync!FailureIsRetried /\ Sync!PollsWhileLive
    /\ part = "transport" => Transport!DeadIsFound /\ Transport!ReconnectGoesOn

(* Nobody waits for ever: not for an answer of the server, a slow cache, a *)
(* file that is written or a store that does not answer.                   *)
NobodyWaits ==
    /\ part = "registry" => Registry!EveryRequestEnds
    /\ part = "calls" => ClientCalls!EveryCallEnds
    /\ part = "cache" => Cache!EveryWrapEnds
    /\ part = "saver" => Saver!FlushEnds
    /\ part = "store" => KvStore!EveryStoreCallEnds

-----------------------------------------------------------------------------

ProgressInit ==
    /\ part \in {"outbox", "sync", "transport", "registry", "calls", "cache",
                 "saver", "store"}
    /\ Init
    /\ Sync!Init
    /\ Transport!TransportInit
    /\ Registry!RegistryInit
    /\ ClientCalls!CallsInit
    /\ Cache!CacheInit
    /\ Saver!SaverInit
    /\ KvStore!StoreInit
    /\ part # "sync" => syncVisible /\ syncOnline
    /\ part # "cache" => cacheHeld = Cache!Missing

ProgressNext ==
    \/ part = "outbox" /\ Next /\ UNCHANGED <<part, sync, transport, registry, calls, cache, saver, store>>
    \/ part = "sync" /\ Sync!Next
       /\ UNCHANGED <<part, outbox, transport, registry, calls, cache, saver, store>>
    \/ part = "transport" /\ Transport!TransportNext
       /\ UNCHANGED <<part, outbox, sync, registry, calls, cache, saver, store>>
    \/ part = "registry" /\ Registry!RegistryNext
       /\ UNCHANGED <<part, outbox, sync, transport, calls, cache, saver, store>>
    \/ part = "calls" /\ ClientCalls!CallsNext
       /\ UNCHANGED <<part, outbox, sync, transport, registry, cache, saver, store>>
    \/ part = "cache" /\ Cache!CacheNext
       /\ UNCHANGED <<part, outbox, sync, transport, registry, calls, saver, store>>
    \/ part = "saver" /\ Saver!SaverNext
       /\ UNCHANGED <<part, outbox, sync, transport, registry, calls, cache, store>>
    \/ part = "store" /\ KvStore!StoreNext
       /\ UNCHANGED <<part, outbox, sync, transport, registry, calls, cache, saver>>

ProgressSpec ==
    /\ ProgressInit /\ [][ProgressNext]_<<part, outbox, sync, transport, registry, calls, cache, saver, store>>
    /\ OutboxFairness
    /\ SyncFairness
    /\ TransportFairness
    /\ RegistryFairness
    /\ ClientCallsFairness
    /\ CacheFairness
    /\ SaverFairness
    /\ KvStoreFairness
=============================================================================
