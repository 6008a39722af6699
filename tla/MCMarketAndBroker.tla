-------------------------- MODULE MCMarketAndBroker --------------------------
(* The market data path and the Zerodha adapters, side by side: the dataset store, the
   live ingestion with its readiness, the replay engine, the session, the market
   stream, the order stream's supervisor, the execution adapter and the paper broker that
   fills from observed quotes.  In a behaviour one of them moves, `part' says which, and the others stay where they begin. *)
EXTENDS DatasetStore, ZerodhaExecution

VARIABLES part,
  \* live ingestion
  schedule, watchlist, now, recent, orderer, call, calls, evaluator, tracker, latest, snapshot,
  consumed, lost,
  \* the replay
  clock, rate, controller, engine, cancelled, pauses, replays, stood, delivered,
  \* the Zerodha session and what uses it
  session, time, caller, client, connectivity, exchanges, shutdowns,
  stream, loop, desired, expected, updates, lastResubscribe, frames, reader, sent, inherited,
  supervisor, run, runtime, health, parts,
  \* the paper broker
  orders, events, quotes, closed, checkpoint, restarts

-----------------------------------------------------------------------------
(* One input file with an observation out of order, twice, refused and out of the    *)
(* watchlist: two processes build it, or publish and roll back what was built.        *)

Observed(at, hash) == [at |-> at, hash |-> hash, ok |-> TRUE, included |-> TRUE]
MCSource ==
  <<Observed(2, 2), Observed(1, 1), [Observed(1, 9) EXCEPT !.ok = FALSE], Observed(2, 2),
    [Observed(9, 8) EXCEPT !.included = FALSE], Observed(3, 3)>>
MCSources == {MCSource}
MCRequests == {<<"r1", "PUBLISH">>, <<"r2", "ROLLBACK">>}

First == Manifest(NoDataset, MCSource, "", Ingested(MCSource, 0))
Corrected == Manifest(First, MCSource, "fix", Ingested(MCSource, 1))

Builds(kind) ==
  [backend |-> kind, builders |-> {"b1", "b2"}, publishers |-> {}, committed |-> {}]
Publishes(kind, who) ==
  [backend |-> kind, builders |-> {}, publishers |-> who, committed |-> {First, Corrected}]
MCScenarios ==
  {Builds("file"), Builds("memory"), Publishes("file", {"p1", "p2"}), Publishes("memory", {"p1"})}

-----------------------------------------------------------------------------
(* A day with the closing auction, a day of two sessions and a holiday; quotes that    *)
(* arrive in order, late and off the tick, and a candle.                               *)

Day(status, sessions, regimes) ==
  [from |-> 0, to |-> 0, days |-> [d \in {0} |-> [status |-> status, sessions |-> sessions, regimes |-> regimes]]]
Window(open, close) == [open |-> open, close |-> close]
Regime(open, close, regime) == [open |-> open, close |-> close, regime |-> regime]

Observation(kind, at, hash, price) ==
  [token |-> "t1", kind |-> kind, currency |-> "INR", at |-> at, hash |-> hash, price |-> price,
   bid |-> 0, bidQuantity |-> 0, volume |-> 1, open |-> 0, close |-> 0, low |-> 0, high |-> 0, interval |-> ""]
Candle(open, close, hash) ==
  [Observation("CANDLE", 0, hash, 2) EXCEPT !.open = open, !.close = close, !.low = 2, !.high = 4, !.interval = "m"]
Watched(kind, interval) == [instrument |-> "t1", kind |-> kind, interval |-> interval, required |-> TRUE]

LiveDurations == [m |-> 2, d |-> 0]
LiveSchedules ==
  {Day("TRADING", <<Window(0, 4)>>,
   <<Regime(0, 1, "PRE_CAS"), Regime(1, 2, "CAS_ACTIVE"), Regime(2, 3, "POST_CAS")>>),
   Day("TRADING", <<Window(0, 2), Window(3, 5)>>, <<>>), Day("HOLIDAY", <<>>, <<>>)}
LiveInstruments == [t1 |-> [currency |-> "INR", tick |-> 2, index |-> FALSE]]
LiveObservations ==
  {Observation("QUOTE", 2, 7, 2), Observation("QUOTE", 3, 1, 2), Observation("QUOTE", 2, 2, 2),
   Observation("QUOTE", 2, 6, 3), Candle(0, 2, 4)}
LiveWatchlists == {<<Watched("QUOTE", "")>>, <<Watched("CANDLE", "m")>>}
LivePolicy ==
  [skew |-> 0, warmup |-> 1, maxExchangeAge |-> 1, maxIngestionAge |-> 1, maxTransportLag |-> 1, grace |-> 1]

Live == INSTANCE MarketLive WITH
  DayLength <- 8, Durations <- LiveDurations, Schedules <- LiveSchedules,
  Instruments <- LiveInstruments, Observations <- LiveObservations, Watchlists <- LiveWatchlists,
  Policy <- LivePolicy, StaleAfter <- 2, AllowedLateness <- 1, MaxTime <- 4, MaxCalls <- 3, MaxSkew <- 0

LiveVars == <<schedule, watchlist, now, recent, orderer, call, calls, evaluator, tracker, latest,
              snapshot, consumed, lost>>

ReplayOffsets == <<0, 1, 2>>
ReplayRates == {"max", "timed"}

Replay == INSTANCE MarketReplay WITH
  Offsets <- ReplayOffsets, Rates <- ReplayRates, MaxTime <- 4, MaxPauses <- 1, MaxReplays <- 2

ReplayVars == <<clock, rate, controller, engine, cancelled, pauses, replays, stood, delivered>>

-----------------------------------------------------------------------------
(* Two callers authenticate with what credentials there are; the streams begin with an  *)
(* access token that expires at the end.                                                *)

Token(request, access, expires) ==
  [apiKey |-> TRUE, apiSecret |-> TRUE, requestToken |-> request, accessToken |-> access, expires |-> expires]
MCCredentials == {Token(r, a, e) : r \in BOOLEAN, a \in BOOLEAN, e \in {0, 1}} \cup {Token(FALSE, TRUE, 2)}
MCCallers == {"k1", "k2"}

Session == INSTANCE ZerodhaSession WITH
  Credentials <- MCCredentials, Callers <- MCCallers, ReadRetries <- 1, MaxTime <- 2,
  MaxExchanges <- 2, now <- time

StreamTokens == {"t1", "t2"}
StreamUniverses == {{"t1"}, {"t1", "t2"}}
StreamFrames == {"mixed", "heartbeat", "order", "malformedFrame"}

Stream == INSTANCE MarketStream WITH
  Credentials <- MCCredentials, Callers <- MCCallers, ReadRetries <- 1, MaxTime <- 2,
  MaxExchanges <- 2, Tokens <- StreamTokens, Universes <- StreamUniverses, Frames <- StreamFrames,
  OrderTextPolicy <- "OBSERVE_ONLY", MaxSubscriptions <- 2, MaxReconnects <- 1, BufferCapacity <- 1,
  MaxStreams <- 1, MaxFrames <- 2, now <- time

SupervisorModes == {"OFFLINE", "PAPER", "LIVE_DISABLED"}

Supervisor == INSTANCE StreamSupervisor WITH
  Credentials <- MCCredentials, Callers <- MCCallers, ReadRetries <- 1, MaxTime <- 2,
  MaxExchanges <- 2, MaxReconnects <- 1, Modes <- SupervisorModes, MaxMessages <- 1, MaxRuns <- 1,
  now <- time

SessionVars == <<session, time, caller, client, connectivity, exchanges, shutdowns>>
StreamVars == <<stream, loop, desired, expected, updates, lastResubscribe, frames, reader, sent,
                inherited>>
SupervisorVars == <<supervisor, run, runtime, health, parts>>

\* Two workers on one client order; one order of either of two terms and a restart, after
\* which it may be submitted again on other terms; updates around a restart; two client orders.
ExecutionBudget(workers, clients, terms, crashes, most) ==
  [workers |-> workers, clients |-> clients, terms |-> terms, crashes |-> crashes, journal |-> most]
ExecutionBudgets ==
  {ExecutionBudget({"w1", "w2"}, {"c1"}, {"a"}, 0, 4),
   ExecutionBudget({"w1"}, {"c1"}, {"a", "b"}, 1, 0),
   ExecutionBudget({"w1"}, {"c1"}, {"a"}, 1, 1),
   ExecutionBudget({"w1"}, {"c1", "c2"}, {"a"}, 0, 1)}

\* Two buyers that share a quote, or a buyer and a seller; a quote at the submission, one
\* that fills in part and one beyond a limit.
Submission(id, side, quantity, limit, at) ==
  [client |-> id, order |-> id, instrument |-> "i", side |-> side, quantity |-> quantity,
   limit |-> limit, at |-> at]
Quote(at, bid, bidQuantity, ask, askQuantity) ==
  [instrument |-> "i", at |-> at, bid |-> bid, bidQuantity |-> bidQuantity, ask |-> ask,
   askQuantity |-> askQuantity]
PaperSubmissions ==
  {Submission(1, "BUY", 3, 5, 1), Submission(2, "BUY", 2, 4, 0), Submission(2, "SELL", 3, 3, 1)}
PaperQuotes == {Quote(1, 3, 2, 4, 1), Quote(2, 3, 2, 4, 2), Quote(3, 2, 1, 5, 1)}
PaperCancelTimes == {2}

Paper == INSTANCE ObservedBroker WITH
  Submissions <- PaperSubmissions, Quotes <- PaperQuotes, CancelTimes <- PaperCancelTimes,
  MaxRestarts <- 1

PaperVars == <<orders, events, quotes, closed, checkpoint, restarts>>

-----------------------------------------------------------------------------
\* Components that do not move begin in one of their initial states.  The day of the
\* closing auction is watched for quotes and for candles, the other days for one of them.
PartInit ==
  /\ part \in {"store", "live", "replay", "session", "stream", "supervisor", "execution", "paper"}
  /\ StoreInit /\ Live!LiveInit /\ Replay!ReplayInit /\ Stream!StreamInit
  /\ Supervisor!SupervisorInit /\ ExecutionInit /\ Paper!Init
  /\ part # "store" => scenario = Builds("file")
  /\ Len(schedule.days[0].sessions) = 0 => watchlist[1].kind = "QUOTE"
  /\ Len(schedule.days[0].sessions) = 2 => watchlist[1].kind = "CANDLE"
  /\ part # "live" => schedule.days[0].status = "HOLIDAY"
  /\ part = "session" <=> session.expires < 2
  /\ part # "replay" => rate = "max"
  /\ part # "supervisor" => runtime.mode = "PAPER"
  /\ part # "execution" => budget.journal = 4

\* Nobody authenticates while a stream runs.
PartNext ==
  \/ /\ part = "store" /\ StoreNext
     /\ UNCHANGED <<part, LiveVars, ReplayVars, SessionVars, StreamVars, SupervisorVars, executionVars, PaperVars>>
  \/ /\ part = "live" /\ Live!LiveNext
     /\ UNCHANGED <<part, vars, ReplayVars, SessionVars, StreamVars, SupervisorVars, executionVars, PaperVars>>
  \/ /\ part = "replay" /\ Replay!ReplayNext
     /\ UNCHANGED <<part, vars, LiveVars, SessionVars, StreamVars, SupervisorVars, executionVars, PaperVars>>
  \/ /\ part = "session" /\ Session!SessionNext
     /\ UNCHANGED <<part, vars, LiveVars, ReplayVars, StreamVars, SupervisorVars, executionVars, PaperVars>>
  \/ /\ part = "stream" /\ Stream!StreamNext /\ caller' = caller
     /\ UNCHANGED <<part, vars, LiveVars, ReplayVars, SupervisorVars, executionVars, PaperVars>>
  \/ /\ part = "supervisor" /\ Supervisor!SupervisorNext /\ caller' = caller
     /\ UNCHANGED <<part, vars, LiveVars, ReplayVars, StreamVars, executionVars, PaperVars>>
  \/ /\ part = "execution" /\ ExecutionNext
     /\ UNCHANGED <<part, vars, LiveVars, ReplayVars, SessionVars, StreamVars, SupervisorVars, PaperVars>>
  \/ /\ part = "paper" /\ Paper!Next
     /\ UNCHANGED <<part, vars, LiveVars, ReplayVars, SessionVars, StreamVars, SupervisorVars, executionVars>>

PartSpec ==
  PartInit /\ [][PartNext]_<<part, vars, LiveVars, ReplayVars, SessionVars, StreamVars, SupervisorVars, executionVars, PaperVars>>

-----------------------------------------------------------------------------
\* What is dropped and what is kept is accounted for, and data that is permitted is fresh:
\* live.Service.Accept and the readiness evaluator and tracker, the commit of a dataset,
\* replay.Engine.
MarketDataInv ==
  /\ part = "live" => Live!MarketLiveInv /\ Live!PermittedIsFresh
  /\ part = "store" => DatasetsComplete
  /\ part = "replay" => Replay!ReplayInv

\* The session, the market stream and the supervisor report what they are in; a connection
\* that was lost and made again is subscribed to the newest universe; a Health call after
\* Shutdown answers STOPPED (zerodha session.go, market_stream.go, stream.go, runtime.go).
\* The paper broker's events tell what its snapshot shows, and its fills are
\* earned (paper observed.go).
BrokerInv ==
  /\ part = "session" => Session!SessionInv
  /\ part = "stream" => Stream!MarketStreamInv
  /\ part = "supervisor" => Supervisor!SupervisorInv
  /\ part = "paper" => Paper!ObservedBrokerInv
==============================================================================
