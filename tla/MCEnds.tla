-------------------------------- MODULE MCEnds --------------------------------
(* What has to end, of components that stand side by side: the plan workers and the
   shutdown of the execution coordinator, in one process and across a restart with a
   cancellation, a startup of the operator's control plane,
   and the shutdown of the market stream, of the order stream's supervisor, of the
   strategy runner, of a replay and of the notification dispatcher.  In a behaviour one
   of them moves, `part' says which, and the others stay where they begin. *)
EXTENDS ExecutionCoordinator

CONSTANT Nothing

VARIABLES part,
  \* the control plane
  clock, file, login, inflight, request, startup, prepared, artifacts, selectors, shadow,
  requests, restarts,
  \* the Zerodha session and what uses it
  session, time, caller, client, connectivity, exchanges, shutdowns,
  stream, loop, desired, expected, updates, lastResubscribe, frames, reader, sent, inherited,
  supervisor, run, runtime, health, parts,
  \* the strategy runner
  catalog, instance, checkpoints, evaluations, storeFault, ready, evaluation, running, semaphore,
  runnerClosed, stopped, committed,
  \* the replay
  replayClock, rate, controller, engine, replayCancelled, pauses, replays, stood, replayed,
  \* the notification dispatcher
  dispatchTime, todo, accepting, cancelled, drained, seen, seenOrder, coalesced, queue, publisher,
  worker, inFlight, deliveries, degraded, stopper, works, early

\* Two plans of one order each, which share one slot.
MCOrders == {"sell", "buy"}
MCQuantity == [o \in MCOrders |-> 2]
MCTwoPlans == {"first", "second"}
MCOneLeg == [first |-> <<"sell">>, second |-> <<"buy">>]
MCIndependent == [o \in MCOrders |-> {}]
Told(behavior) == [behavior |-> behavior, unavailable |-> 0]
MCScripts ==
  {<<Told("IMMEDIATE_FILL"), Told("LOST_RESPONSE")>>, <<Told("IMMEDIATE_FILL")>>, <<Told("LOST_RESPONSE")>>}

MCCallers == {"h1", "h2"}

StartupTokens == {"t", "u"}
StartupTradingDays == {0, 1}

Startup == INSTANCE OperatorStartup WITH
  Callers <- MCCallers, Cli <- "cli", Tokens <- StartupTokens, TradingDays <- StartupTradingDays,
  MaxDay <- 1, MaxRequests <- 2, MaxRestarts <- 0, session <- login, caller <- request,
  runtime <- shadow

MCCredentials ==
  {[apiKey |-> TRUE, apiSecret |-> TRUE, requestToken |-> FALSE, accessToken |-> TRUE, expires |-> 2]}

StreamCallers == {}
StreamTokens == {"t1", "t2"}
StreamUniverses == {{"t1"}, {"t1", "t2"}}
StreamFrames == {"mixed", "malformedFrame"}

Stream == INSTANCE MarketStream WITH
  Credentials <- MCCredentials, Callers <- StreamCallers, ReadRetries <- 1, MaxTime <- 1,
  MaxExchanges <- 2, Tokens <- StreamTokens, Universes <- StreamUniverses, Frames <- StreamFrames,
  OrderTextPolicy <- "OBSERVE_ONLY", MaxSubscriptions <- 2, MaxReconnects <- 1, BufferCapacity <- 1,
  MaxStreams <- 1, MaxFrames <- 1, now <- time

SupervisorCallers == {}
SupervisorModes == {"PAPER"}

Supervisor == INSTANCE StreamSupervisor WITH
  Credentials <- MCCredentials, Callers <- SupervisorCallers, ReadRetries <- 1, MaxTime <- 1,
  MaxExchanges <- 2, MaxReconnects <- 1, Modes <- SupervisorModes, MaxMessages <- 1, MaxRuns <- 1,
  now <- time

StrategyCallers == {"c1", "c2"}
StrategyFrames == {"f1"}
StrategyLifecycles == {"ACTIVE"}
StrategyKinds == {"TRADE_PROPOSAL"}

Strategy == INSTANCE StrategyRunner WITH
  Callers <- StrategyCallers, Frames <- StrategyFrames, Lifecycles <- StrategyLifecycles,
  Kinds <- StrategyKinds, MaxConcurrency <- 1, MaxEvaluations <- 1, MaxGeneration <- 1,
  NoCall <- "nobody", call <- evaluation, closed <- runnerClosed, chain <- checkpoints,
  dataReady <- ready

ReplayOffsets == <<0, 1, 2>>
ReplayRates == {"max", "timed"}

Replay == INSTANCE MarketReplay WITH
  Offsets <- ReplayOffsets, Rates <- ReplayRates, MaxTime <- 3, MaxPauses <- 1, MaxReplays <- 1,
  clock <- replayClock, cancelled <- replayCancelled, delivered <- replayed

Kill == [id |-> "k", checksum |-> "x", severity |-> "CRITICAL", key |-> Nothing, kind |-> "KILL"]

DispatcherPublishers == {"p"}
DispatcherWorkers == {"w"}
DispatcherEvents == {Kill}
DispatcherAnswers == [k |-> {"OK", "TRANSPORT"}]
DispatcherPlans == {[p |-> <<[event |-> Kill, replay |-> FALSE]>>]}

Dispatcher == INSTANCE NotificationDispatcher WITH
  Publishers <- DispatcherPublishers, Workers <- DispatcherWorkers, Events <- DispatcherEvents,
  Capacity <- 4, SeenLimit <- 2, MaxAttempts <- 2, RetryHorizon <- 4, RetryMaximum <- 2,
  DuplicateWindow <- 1, CoalesceWindow <- 1, ReplayPolicy <- "VERIFY_ONLY", ProviderEnabled <- TRUE,
  Answers <- DispatcherAnswers, Plans <- DispatcherPlans, MaxTime <- 1, now <- dispatchTime,
  drain <- drained, caller <- stopper

StartupVars == <<clock, file, login, inflight, request, startup, prepared, artifacts, selectors,
                 shadow, requests, restarts>>
SessionVars == <<session, time, caller, client, connectivity, exchanges, shutdowns>>
StreamVars == <<stream, loop, desired, expected, updates, lastResubscribe, frames, reader, sent,
                inherited>>
SupervisorVars == <<supervisor, run, runtime, health, parts>>
StreamCall == <<SessionVars, StreamVars>>
SupervisorCall == <<SessionVars, SupervisorVars>>
StrategyVars == <<catalog, instance, checkpoints, evaluations, storeFault, ready, evaluation,
                  running, semaphore, runnerClosed, stopped, committed>>
ReplayVars == <<replayClock, rate, controller, engine, replayCancelled, pauses, replays, stood,
                replayed>>
DispatcherVars == <<dispatchTime, todo, accepting, cancelled, drained, seen, seenOrder, coalesced,
                    queue, publisher, worker, inFlight, deliveries, degraded, stopper, works, early>>

\* Components that do not move begin in one of their initial states; the control plane
\* begins with a login.
PartInit ==
  /\ part \in {"coordinator", "restarted", "startup", "stream", "supervisor", "strategy", "replay", "dispatcher"}
  /\ Init /\ Startup!Init /\ Stream!StreamInit /\ Supervisor!SupervisorInit /\ Strategy!StrategyInit
  /\ Replay!ReplayInit /\ Dispatcher!Init
  /\ part = "restarted" <=> script = <<Told("LOST_RESPONSE")>>
  /\ part \notin {"coordinator", "restarted"} => script = <<Told("IMMEDIATE_FILL")>>
  /\ file = 0 /\ (part # "startup" => ~clock.late)
  /\ part # "replay" => rate = "max"

\* A cancellation and a restart, of one plan of one order that one worker executes.
OneOrder == call["w2"].pc = "idle" /\ call["w1"].plan # "first" /\ cancel.order # "sell"

Coordinating == part \in {"coordinator", "restarted"}

\* The coordinator moves with two plans and no restart, or with one plan and a restart; the
\* control plane prepares by itself, and nobody asks for the supervisor's health.
PartNext ==
  \/ /\ \/ part = "coordinator" /\ Next /\ UNCHANGED <<crashes, cancels>>
        \/ part = "restarted" /\ Next /\ OneOrder'
     /\ UNCHANGED <<part, StartupVars, SessionVars, StreamVars, SupervisorVars, StrategyVars, ReplayVars, DispatcherVars>>
  \/ /\ part = "startup" /\ Startup!Next /\ request'["cli"] = request["cli"]
     /\ UNCHANGED <<part, vars, SessionVars, StreamVars, SupervisorVars, StrategyVars, ReplayVars, DispatcherVars>>
  \/ /\ part = "stream" /\ Stream!StreamNext
     /\ UNCHANGED <<part, vars, StartupVars, SupervisorVars, StrategyVars, ReplayVars, DispatcherVars>>
  \/ /\ part = "supervisor" /\ Supervisor!SupervisorNext /\ UNCHANGED <<health, parts>>
     /\ UNCHANGED <<part, vars, StartupVars, StreamVars, StrategyVars, ReplayVars, DispatcherVars>>
  \/ /\ part = "strategy" /\ Strategy!StrategyNext
     /\ UNCHANGED <<part, vars, StartupVars, SessionVars, StreamVars, SupervisorVars, ReplayVars, DispatcherVars>>
  \/ /\ part = "replay" /\ Replay!ReplayNext
     /\ UNCHANGED <<part, vars, StartupVars, SessionVars, StreamVars, SupervisorVars, StrategyVars, DispatcherVars>>
  \/ /\ part = "dispatcher" /\ Dispatcher!Next
     /\ UNCHANGED <<part, vars, StartupVars, SessionVars, StreamVars, SupervisorVars, StrategyVars, ReplayVars>>

\* Goroutines run, a slot and a mutex reach who waits for them; `part' in front of an
\* action only tells that the component moves at all.
CoordinatorFairness ==
  /\ \A w \in Workers : /\ WF_vars(Coordinating /\ WorkerStep(w))
                        /\ SF_vars(Coordinating /\ AcquireSlot(w))
  /\ \A a \in Drainers : SF_vars(Coordinating /\ (StartDrain(a) \/ DrainUnavailable(a)))
  /\ WF_vars(Coordinating /\ DrainStep)
  /\ WF_vars(Coordinating /\ CancelStep)
  /\ WF_vars(Coordinating /\ ReconcileStep)

\* Every external call of a startup is bounded by a timeout, a connection that nobody needs
\* is closed and its reader woken, a strategy returns, and a send is bounded.
OtherFairness ==
  /\ \A c \in MCCallers : WF_StartupVars(part = "startup" /\ Startup!RunStep(c))
  /\ WF_StreamCall(part = "stream" /\ Stream!LoopStep)
  /\ WF_StreamCall(part = "stream" /\ Stream!TakeCancel)
  /\ WF_StreamCall(part = "stream" /\ Stream!ReadFails)
  /\ WF_SupervisorCall(part = "supervisor" /\ Supervisor!RunStep)
  /\ WF_SupervisorCall(part = "supervisor" /\ Supervisor!ConnectionLost)
  /\ WF_SupervisorCall(part = "supervisor" /\ Supervisor!RuntimeStopStream)
  /\ WF_SupervisorCall(part = "supervisor" /\ Supervisor!RuntimeStopConnectivity)
  /\ \A c \in {"c1", "c2"} : WF_StrategyVars(part = "strategy" /\ Strategy!CallStep(c))
  /\ WF_StrategyVars(part = "strategy" /\ Strategy!StrategyShutdownDone)
  /\ WF_ReplayVars(part = "replay" /\ Replay!EngineStep)
  /\ WF_ReplayVars(part = "replay" /\ Replay!Tick)
  /\ WF_DispatcherVars(part = "dispatcher" /\ Dispatcher!PublisherStep("p"))
  /\ WF_DispatcherVars(part = "dispatcher" /\ Dispatcher!WorkerStep("w"))
  /\ WF_DispatcherVars(part = "dispatcher" /\ Dispatcher!DrainStep)
  /\ WF_DispatcherVars(part = "dispatcher" /\ Dispatcher!ShutdownTimeout)

PartSpec ==
  /\ PartInit
  /\ [][PartNext]_<<part, vars, StartupVars, SessionVars, StreamVars, SupervisorVars, StrategyVars, ReplayVars, DispatcherVars>>
  /\ CoordinatorFairness /\ OtherFairness

-----------------------------------------------------------------------------
\* A startup that runs ends: every external call is bounded, Ready by its timeout
\* (startup.Service.run).
StartupEnds == Startup!StartupEnds

StopRequested ==
  \/ stream.cancelled \/ runtime.stopped \/ runnerClosed \/ replayCancelled \/ stopper = "waiting"

Stopped ==
  /\ stream.cancelled => ~stream.running
  /\ runtime.stopped => ~supervisor.running /\ runtime.pc = "stopped"
  /\ runnerClosed => stopped
  /\ replayCancelled => ~engine.running
  /\ stopper # "waiting" /\ (stopper # "none" => \A w \in {"w"} : worker[w].pc = "gone")

\* Who is told to stop stops: the stream's loop never waits for a frame, its reader or a
\* back-off that nobody ends (MarketStream.Stream), Shutdown of the integration reaches
\* the stream, the client and the session (Runtime.Shutdown), the runner's calls leave
\* their reservations (Runner.Shutdown), a replay ends paused or not (Engine.Replay), and
\* the dispatcher's workers end after its Shutdown has returned (Dispatcher.Shutdown).
StopsEnd == StopRequested ~> Stopped
==============================================================================
