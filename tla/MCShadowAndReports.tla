-------------------------- MODULE MCShadowAndReports --------------------------
(* What is measured and reported, side by side: the option machine and the qualification
   engine, the shadow runtime with its checkpoints, the notification dispatcher and the
   operational reports, the valuation of portfolios and the reconciliation of positions.
   In a behaviour one of them moves, `part' says which, and the others stay where they
   begin. *)
EXTENDS FinancialValuation, PositionReconciliation

CONSTANT NoCandle

VARIABLES part,
  \* the option machine
  mode, snapshot, seen, saved, restarts,
  \* the qualification engine
  series, evidenceFile, offers, crashes,
  \* the shadow runtime
  now, date, phase, late, history, book, closed, revision, stopNew, pending, publisher, file, marks,
  exits, left,
  \* the checkpoint store
  generations, abandoned, current, writer, faults,
  \* the notification dispatcher
  time, todo, accepting, cancelled, drain, known, knownOrder, coalesced, queue, sender, worker,
  inFlight, deliveries, degraded, stopper, works, early,
  \* the operational reports
  feed, observer, observed, observedOrder, counts, financial, drawdowns, summaries, evidence,
  records, published, counted, valued

-----------------------------------------------------------------------------
(* Calls of two expiries, a put and the futures; three signals of one underlying, with *)
(* quotes that are fresh, stale, one-sided or too wide.                               *)

Future(id, expiry, days) ==
  [id |-> id, kind |-> "FUTURE", underlying |-> "NIFTY", expiry |-> expiry, strike |-> 0, option |-> "NONE",
   lot |-> 2, tick |-> 1, mapped |-> days]
Option(id, expiry, strike, type, days) ==
  [Future(id, expiry, days) EXCEPT !.kind = "OPTION", !.strike = strike, !.option = type]
Quote(instrument, at, ltp, bid, ask, depth) ==
  [instrument |-> instrument, at |-> at, ltp |-> ltp, bid |-> bid, ask |-> ask, depth |-> depth]
Signal(id, at) == [id |-> id, at |-> at, spot |-> 10, direction |-> "LONG"]
Control(session, cas, stop) == [session |-> session, cas |-> cas, stop |-> stop]
DerivativesPolicy(minDays, maxDays, eachSide, spread, age) ==
  [underlying |-> "NIFTY", minDays |-> minDays, maxDays |-> maxDays, eachSide |-> eachSide,
   spreadBPS |-> spread, book |-> 1, age |-> age, ltp |-> TRUE]

MachineUnderlyings == {"NIFTY"}
MachineModes == {"PAPER", "SHADOW"}
MachineMaster ==
  <<Option("c1a", 1, 10, "CALL", 0..2), Option("c1b", 1, 20, "CALL", 0..2),
    Option("c2a", 2, 10, "CALL", 0..2), Option("c2b", 2, 20, "CALL", 0..2),
    Option("p1a", 1, 10, "PUT", 0..2), Future("f1", 1, 0..2), Future("f3", 3, 0..2)>>
MachinePolicy == DerivativesPolicy(1, 2, 1, 5000, 1)
MachineSignals == {Signal("a", 1), Signal("b", 2), Signal("c", 3)}
MachineQuotes ==
  {Nothing, Quote("f1", 1, 12, 0, 0, 0), Quote("f3", 2, 15, 0, 0, 0), Quote("f3", 3, 12, 0, 0, 0),
   Quote("c1a", 1, 5, 4, 6, 1), Quote("c1a", 2, 7, 0, 0, 0), Quote("c2b", 2, 6, 6, 6, 1),
   Quote("c2a", 3, 8, 7, 8, 1), Quote("c2b", 3, 5, 1, 9, 1)}
MachineControls ==
  {Control("NORMAL_TRADING", FALSE, FALSE), Control("EOD_CLOSE", FALSE, TRUE),
   Control("NORMAL_TRADING", TRUE, FALSE)}

Machine == INSTANCE OptionMachine WITH
  DayLength <- 2, Underlyings <- MachineUnderlyings, Modes <- MachineModes, Master <- MachineMaster,
  Policy <- MachinePolicy, Signals <- MachineSignals, Quotes <- MachineQuotes,
  Controls <- MachineControls, MaxProduct <- 1000, MaxFills <- 4, MaxRestarts <- 1

MachineVars == <<mode, snapshot, seen, saved, restarts>>

-----------------------------------------------------------------------------
(* Two signals, one of them refused by risk, one outlived by its quote.          *)

OptionQuote(at, ltp, bid, ask) == [instrument |-> "o", at |-> at, ltp |-> ltp, bid |-> bid, ask |-> ask]
Offer(signal, at, risk, quote) ==
  [signal |-> signal, at |-> at, session |-> "NORMAL_TRADING", risk |-> risk, option |-> "o", quote |-> quote,
   spot |-> 5, future |-> [at |-> at, price |-> 5], quantity |-> 2]

QualificationHorizons == {1}
QualificationUnderlyings == {"NIFTY"}
QualificationInputs ==
  {Offer("a", 1, "APPROVED", OptionQuote(1, 5, 4, 6)), Offer("a", 1, "REJECTED", OptionQuote(1, 5, 4, 6)),
   Offer("b", 4, "APPROVED", OptionQuote(3, 3, 3, 3)), Offer("b", 2, "APPROVED", OptionQuote(3, 5, 5, 5))}
QualificationQuotes == {OptionQuote(1, 5, 4, 6), OptionQuote(2, 7, 0, 0), OptionQuote(3, 3, 3, 3)}
QualificationTimes == {2, 5}

Qualification == INSTANCE QualificationEngine WITH
  Horizons <- QualificationHorizons, Lateness <- 1, MinimumTrades <- 2, MinimumSessions <- 2,
  Cost <- 1, SessionLength <- 4, Underlyings <- QualificationUnderlyings,
  Inputs <- QualificationInputs, Quotes <- QualificationQuotes, Times <- QualificationTimes,
  MaxOffers <- 5, MaxCrashes <- 1, file <- evidenceFile

QualificationVars == <<series, evidenceFile, offers, crashes>>

-----------------------------------------------------------------------------
(* One underlying; what may happen is an entry with its exit, answers that refuse, a  *)
(* restart from a checkpoint, a failing checkpoint around the close, or a block.      *)

Tradable(id, kind, strike) ==
  [id |-> id, kind |-> kind, underlying |-> "NIFTY", expiry |-> 0, strike |-> strike,
   option |-> IF kind = "OPTION" THEN "CALL" ELSE "NONE", lot |-> 1, tick |-> 1, mapped |-> {0}]
Ticked(instrument, ltp, bid, ask) ==
  [instrument |-> instrument, ltp |-> ltp, bid |-> bid, ask |-> ask, depth |-> 1]
Up == Ticked("s", 2, 0, 0)
Down == Ticked("s", 1, 0, 0)
Chain == {Up, Down, Ticked("f", 10, 0, 0), Ticked("o1", 4, 3, 5)}
Story(ticks, outcomes, regimes, quotes) ==
  [feed |-> ticks, outcomes |-> outcomes, regimes |-> regimes, quotes |-> quotes, quality |-> 0, closes |-> 0,
   stores |-> 0, failures |-> 0, starts |-> 0, blocks |-> 0]
Plain(ticks, quotes) == Story(ticks, {"APPROVED"}, {"NORMAL"}, quotes)

ShadowUnderlyings == {"NIFTY"}
ShadowHorizons == {1}
ShadowMaster ==
  <<Tradable("f", "FUTURE", 0), Tradable("o1", "OPTION", 10), Tradable("o2", "OPTION", 20),
    Tradable("s", "INDEX", 0)>>
ShadowSpots == [NIFTY |-> "s"]
ShadowPolicies == [NIFTY |-> DerivativesPolicy(0, 1, 0, 10000, 3)]
ShadowScenarios ==
  {Plain(Chain, 6), Story(Chain, {"REJECTED", "MODIFICATION_REQUIRED", "ERROR"}, {"NORMAL", "CAS"}, 5),
   [Plain({Down}, 3) EXCEPT !.stores = 2, !.starts = 1],
   [Plain({Down}, 2) EXCEPT !.quality = 1, !.closes = 2, !.stores = 1, !.failures = 1, !.starts = 1],
   [Plain({Up, Down}, 4) EXCEPT !.closes = 1, !.blocks = 1]}

CheckpointsWriters == {"p"}
CheckpointsContents == {"x", "y"}
CheckpointsConfigurations == {"a", "b"}

Shadow == INSTANCE ShadowRuntime WITH
  MinuteLength <- 1, MaximumCandles <- 2, FastPeriod <- 1, SlowPeriod <- 3, WarmupRequired <- 2,
  EMAScale <- 2, DayLength <- 100, Underlyings <- ShadowUnderlyings, Horizons <- ShadowHorizons,
  Lateness <- 1, MinimumTrades <- 1, MinimumSessions <- 1, Cost <- 1, SessionLength <- 100,
  Master <- ShadowMaster, Spots <- ShadowSpots, Policies <- ShadowPolicies, MaxTime <- 4,
  Scenarios <- ShadowScenarios, Writers <- CheckpointsWriters, Contents <- CheckpointsContents,
  Configurations <- CheckpointsConfigurations, MaxSequence <- 3, MaxFaults <- 3

ShadowVars == <<now, date, phase, late, history, book, closed, revision, stopNew, pending, publisher, file,
                marks, exits, left>>

CheckpointVars == <<generations, abandoned, current, writer, faults>>

-----------------------------------------------------------------------------
(* Events of every severity: one again, one with another checksum, two of one key, a   *)
(* summary of positions and a replay.                                                  *)

Event(id, checksum, severity, key, kind) ==
  [id |-> id, checksum |-> checksum, severity |-> severity, key |-> key, kind |-> kind]
Kill == Event("c", "x", "CRITICAL", Nothing, "KILL")
Halt == Event("h", "x", "CRITICAL", Nothing, "HALT")
Ready(id, checksum) == Event(id, checksum, "WARNING", "k", "READY")
Filled == Event("i", "x", "INFO", Nothing, "FILL")
Valued == Event("f", "x", "INFO", Nothing, "FINANCIAL_SNAPSHOT")
First(event) == [event |-> event, replay |-> FALSE]

DispatcherPublishers == {"p", "o"}
DispatcherWorkers == {"w"}
DispatcherEvents == {Kill, Halt, Ready("r", "x"), Ready("r", "y"), Ready("s", "x"), Filled, Valued}
DispatcherAnswers ==
  [i \in {"c", "h", "i", "f", "r", "s"} |-> IF i \in {"r", "s"} THEN {"OK", "TRANSPORT"} ELSE {"OK"}]
DispatcherPlans ==
  {[p |-> <<First(Filled), First(Kill), First(Halt)>>, o |-> <<>>],
   [p |-> <<First(Ready("r", "x"))>>, o |-> <<First(Ready("r", "y"))>>],
   [p |-> <<First(Ready("s", "x")), First(Ready("r", "x"))>>, o |-> <<>>],
   [p |-> <<First(Valued), [event |-> Kill, replay |-> TRUE]>>, o |-> <<>>]}

Dispatcher == INSTANCE NotificationDispatcher WITH
  Publishers <- DispatcherPublishers, Workers <- DispatcherWorkers, Events <- DispatcherEvents,
  Capacity <- 4, SeenLimit <- 2, MaxAttempts <- 2, RetryHorizon <- 4, RetryMaximum <- 2,
  DuplicateWindow <- 1, CoalesceWindow <- 1, ReplayPolicy <- "VERIFY_ONLY", ProviderEnabled <- TRUE,
  Answers <- DispatcherAnswers, Plans <- DispatcherPlans, MaxTime <- 1, now <- time, seen <- known,
  seenOrder <- knownOrder, publisher <- sender, caller <- stopper

DispatcherVars == <<time, todo, accepting, cancelled, drain, known, knownOrder, coalesced, queue, sender,
                    worker, inFlight, deliveries, degraded, stopper, works, early>>

-----------------------------------------------------------------------------
(* A day of valuations that are complete, partial or worse; events that come again, a  *)
(* closing auction out of order, and the end of two days.                              *)

Emitted(id, day, category, kind, subject, priced, status, total) ==
  [id |-> id, checksum |-> id, day |-> day, category |-> category, kind |-> kind, subject |-> subject,
   priced |-> priced, filled |-> id # "u", status |-> status, total |-> total]
ValuedAt(id, status, total) ==
  Emitted(id, "d", "VALUATION", "FINANCIAL_SNAPSHOT", Nothing, FALSE, status, total)
Auction(id, kind, subject) == Emitted(id, "d", "CAS", kind, subject, TRUE, "", Nothing)
Decision(id, kind) == Emitted(id, "d", "OTHER", kind, "s", FALSE, "", Nothing)
EndOfDay(id, day) == Emitted(id, day, "REPORTING", "END_OF_DAY_SUMMARY", Nothing, FALSE, "", Nothing)

ReportsObservers == {"o", "p"}
ReportsFeeds ==
  {<<ValuedAt("a", "COMPLETE", 2), ValuedAt("b", "COMPLETE", 5), ValuedAt("c", "COMPLETE", 1), EndOfDay("z", "d")>>,
   <<ValuedAt("a", "COMPLETE", 2), ValuedAt("b", "PARTIAL", Nothing), ValuedAt("c", "COMPLETE", 1),
   EndOfDay("z", "d"), EndOfDay("z", "d")>>,
   <<Decision("p", "PROPOSAL_GENERATED"), Decision("p", "PROPOSAL_GENERATED"), Decision("q", "BROKER_ONLY_EXPOSURE"),
   EndOfDay("z", "d")>>,
   <<Auction("r", "CAS_RESTRICTED", "s"), Auction("i", "PRE_CAS", "s"), Decision("u", "RISK_APPROVED"),
   Decision("p", "PROPOSAL_GENERATED"), Auction("t", "PRE_CAS", "t"), ValuedAt("a", "PARTIAL", Nothing),
   Auction("o", "POST_CAS", "s")>>,
   <<EndOfDay("z", "d"), EndOfDay("y", "d2"), EndOfDay("z", "d")>>}

Reports == INSTANCE OperationalReports WITH
  Observers <- ReportsObservers, SeenLimit <- 9, EvidenceCapacity <- 1, SummaryCapacity <- 1,
  Feeds <- ReportsFeeds, seen <- observed, seenOrder <- observedOrder, series <- drawdowns

ReportsVars == <<feed, observer, observed, observedOrder, counts, financial, drawdowns, summaries, evidence,
                 records, published, counted, valued>>

-----------------------------------------------------------------------------
(* A portfolio of a position that is closed on the way and a short one; marks that are  *)
(* usable, stale or too large to add up.                                                *)

Book(qty, basis, realized) == [qty |-> qty, basis |-> basis, realized |-> realized, currency |-> "INR"]
Mark(price, ingested) ==
  [type |-> "LAST_TRADED_PRICE", price |-> price, currency |-> "INR", exchange |-> 0, ingested |-> ingested, ready |-> TRUE]

ValuationPortfolios == [P |-> {"x", "y"}]
ValuationBooks == [x |-> <<Book(2, 10, 0), Book(0, 0, 4)>>, y |-> <<Book(-3, 12, 1)>>]
ValuationQuotes ==
  [x |-> {Mark(7, 0), Mark(30, 0)}, y |-> {Mark(3, 1)}]

-----------------------------------------------------------------------------
(* Observations of the broker that are complete, real, empty or unavailable.            *)

Seen(id, qty, at, available, scope) ==
  [id |-> id, qty |-> qty, at |-> at, ingested |-> at, complete |-> TRUE, available |-> available, scope |-> scope]

ReconciliationLedger == <<NoEvidence, 2, -3>>
ReconciliationObservations ==
  {Seen("a", 2, 0, TRUE, "PAPER"), Seen("b", -3, 2, TRUE, "REAL"), Seen("c", 1, 0, FALSE, "PAPER")}

-----------------------------------------------------------------------------
\* Components that do not move begin in one of their initial states.
PartInit ==
  /\ part \in {"machine", "qualification", "shadow", "checkpoints", "dispatcher", "reports", "valuation",
               "reconciliation"}
  /\ Machine!MachineInit /\ Qualification!EngineInit /\ Shadow!Init /\ Shadow!CheckpointInit
  /\ Dispatcher!Init /\ Reports!Init /\ ValuationInit /\ CheckInit
  /\ part # "machine" => mode = "SHADOW"
  /\ part # "shadow" => left = Plain(Chain, 6)
  /\ part # "dispatcher" => todo["p"][1].event = Filled
  /\ part # "reports" => Len(feed) = 3

PartNext ==
  \/ /\ part = "machine" /\ Machine!MachineNext
     /\ UNCHANGED <<part, QualificationVars, ShadowVars, CheckpointVars, DispatcherVars,
                    ReportsVars, valueVars, checkVars>>
  \/ /\ part = "qualification" /\ Qualification!EngineNext
     /\ UNCHANGED <<part, MachineVars, ShadowVars, CheckpointVars, DispatcherVars,
                    ReportsVars, valueVars, checkVars>>
  \/ /\ part = "shadow" /\ Shadow!Next
     /\ UNCHANGED <<part, MachineVars, QualificationVars, CheckpointVars, DispatcherVars,
                    ReportsVars, valueVars, checkVars>>
  \/ /\ part = "checkpoints" /\ Shadow!CheckpointNext
     /\ UNCHANGED <<part, MachineVars, QualificationVars, ShadowVars, DispatcherVars,
                    ReportsVars, valueVars, checkVars>>
  \/ /\ part = "dispatcher" /\ Dispatcher!Next
     /\ UNCHANGED <<part, MachineVars, QualificationVars, ShadowVars, CheckpointVars,
                    ReportsVars, valueVars, checkVars>>
  \/ /\ part = "reports" /\ Reports!Next
     /\ UNCHANGED <<part, MachineVars, QualificationVars, ShadowVars, CheckpointVars,
                    DispatcherVars, valueVars, checkVars>>
  \/ /\ part = "valuation" /\ ValuationNext
     /\ UNCHANGED <<part, MachineVars, QualificationVars, ShadowVars, CheckpointVars,
                    DispatcherVars, ReportsVars, checkVars>>
  \/ /\ part = "reconciliation" /\ CheckNext
     /\ UNCHANGED <<part, MachineVars, QualificationVars, ShadowVars, CheckpointVars,
                    DispatcherVars, ReportsVars, valueVars>>

PartSpec ==
  PartInit /\ [][PartNext]_<<part, MachineVars, QualificationVars, ShadowVars, CheckpointVars, DispatcherVars,
                            ReportsVars, valueVars, checkVars>>

-----------------------------------------------------------------------------
\* A signal is executed on the option that was selected for it, measured from what was known
\* when it came, and kept over restarts (derivatives.Machine, qualification.Engine,
\* shadowruntime.Runtime).  Nothing that was acknowledged is lost: a checkpoint, an event of
\* the dispatcher, a count of the day (checkpoint.Store, notifications.Dispatcher,
\* operations.Observer).
ShadowAndReportsInv ==
  /\ part = "machine" => Machine!OptionMachineInv
  /\ part = "qualification" => Qualification!QualificationInv
  /\ part = "shadow" => Shadow!ShadowInv
  /\ part = "checkpoints" => Shadow!CheckpointInv
  /\ part = "dispatcher" => Dispatcher!NotificationInv
  /\ part = "reports" => Reports!ReportsInv
==============================================================================
