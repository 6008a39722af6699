# TradeEdge: formal models

TradeEdge is a modular monolith in Go that turns market data into paper orders:

    market data -> strategy -> eligibility -> portfolio allocation -> risk
      -> execution (coordinator, OMS) -> broker adapter
      -> reconciliation -> positions and P&L (accounting, valuation)

with notifications, operations control, shadow evaluation, qualification and a validation programme beside
it. The documents claim that orders are never duplicated, that unknown state fails closed, that every
publication is atomic and replayable, and that every wait is bounded. This directory models the parts those
claims rest on, checks them with TLC on small instances, and proves the central ones with TLAPS.

## 1. Inventory

`PROJECT.json` lists every component with its files and, under `hazards`, the line where each difficulty
bites. The components that keep state:

| Component | State | Operations | Hard behaviour | What makes it correct |
|---|---|---|---|---|
| Order lifecycle (`execution/model/order.go`) | state, filled, broker identity, revision | `ApplyExecutionReport` | late, stale, out-of-order reports | orders move forwards only; quantities never shrink |
| OMS store (`adapters/execution/memory`) | current checkpoints, reports, fills, publications | `RegisterPlan`, `PublishOrderEvent`, `RestorePlan` | racing publishers, replay, limits, a bundle read while orders move | fills tile the filled quantity; an answer means the report is stored; a restore refuses a bundle that a fill tore |
| Execution coordinator (`execution/coordinator`) | reservations, event cursor, slots, closed flag | `ExecutePlan`, `ResumePlan`, `RequestCancel`, `DrainEvents`, `Shutdown` | a lost answer, a crash between broker and store, reads before reservations, shared mutex and slots | no order is sent twice; no SELL before its protective BUY fills; the cursor skips nothing; calls return |
| Execution reconciliation (`execution/reconciliation`) | none of its own | `Run` | races the event stream | a clean result means every execution of the snapshot is booked |
| Paper brokers (`adapters/broker/paper`) | book, scheduled and delivered events; quotes of the observed one | `Submit`, `Cancel`, `EventsAfter`, `Snapshot`, lookup, `ObserveQuote` | timeouts, lost answers, duplicates, reordering, liquidity | the environment of the coordinator; fills stay within quotes and quantities |
| Trading runtime (`tradingruntime`) | runtime, session and strategy states, readiness, controls, admission | `Start`, `Refresh`, `Process`, `Shutdown` | controls that change under an event in flight, backpressure, drain, a shutdown that overtakes `Start` | nothing comes back from draining but the state of an overtaken `Start`; killed and disabled strategies stay held; every event leaves |
| Strategy runner and store (`strategy/runner`, memory store) | reservations, evaluations, checkpoints of an instance | `EvaluateFrame`, publication, replacement, `Shutdown` | timeout against a late result, panics, replaced instances | a frame enters an instance once; a late result is dropped |
| Risk runner and stores (`risk/runner`, `portfolio`) | reservations, portfolio checkpoints, decisions, controls | `Decide`, publication, restore | stale snapshots, racing decisions, replay, a restart from any checkpoint | capital and limits are kept; kill switches and circuit breakers latch within a process |
| Accounting ingestion, engine and store | position per instrument, applied fills, reservations, quarantine | `Ingest`, `ApplyIngestedFill`, `PublishPosition`, `RestorePosition`, `Shutdown` | retries, late and repeated fills, rounding, restart from an older export | the books balance; the position is the canonical replay of the fills applied once each |
| Valuation and position reconciliation (`accounting`) | valuations, evidence, limits | `Value`, `Reconcile`, `Shutdown` | positions and marks that move under a call, stale marks | a total is of one moment, complete or says that it is not; evidence is recorded once |
| Market data (`marketdata`: ingest, quality, readiness, replay, datasets) | reorder buffer, seen identities, readiness, generations, publication history | ingest, evaluate, replay, build, publish, rollback | reordering, gaps, staleness, two builders, a crash between rename and history | readiness means fresh data; order is monotone; a published dataset is complete |
| Zerodha adapter (`adapters/broker/zerodha`, `integration/zerodha`) | session, subscriptions, connection state, correlation records | login, stream, submit, cancel, shutdown | ambiguous submissions, reconnects, expiry during a call | a possibly sent order is UNKNOWN and is not repeated; a stopped stream stays stopped |
| Derivatives and shadow runtime (`derivatives`, `shadowruntime`, `qualification`) | option position, candles, averages, evidence, checkpoint publisher | offer, fill, `Process`, close, restore | restart, a checkpoint behind the state, repeated evidence | a signal trades the contract selected for it; evidence is neither lost nor counted twice |
| Checkpoint files (`platform/checkpointfile`) | generations, `CURRENT` | publish, load | crash between write and rename | a load sees an old or a new checkpoint |
| Notification dispatcher, operational reports | queues, windows, attempts; day summary | publish, deliver, retry, `Shutdown`, observe | eviction, coalescing, repeated deliveries | bounded attempts; what is counted is counted once |
| Operations control (`operations/control`) | snapshot, request identities, file, end-of-day goroutine | commands, `runEOD`, restart | failing writes, a crash during the end of day, two end-of-day requests | the latch is one-way and durable; an end of day reaches an outcome |
| Operator startup, session, control plane | session file, artifacts, the single flight of a start | login, prepare, start, status | token exchange by two callers, a new day, failing steps | a start uses the login and files of its date; it ends |
| Session authorization and validation programme (`marketvalidation`) | bundles, manifests, gates, records, scorecard | authorize, start, record, gate | a file that changes between two reads | a session runs on what it was authorized for; the scorecard counts what was recorded |
| Research backtest (`research`) | position, equity, fills | run | equal times, overflow | no fill sees the future; money is counted once |

The parts interact by synchronous calls behind interfaces; shared state is the OMS store, the broker, and
the runtime's controls and readiness. Concurrency is goroutines calling the same objects.

## 2. Modules

| Module | Models | Correspondence |
|---|---|---|
| `OrderLifecycle` | `execution/model/order.go` | an order is `[state, filled, quantity, revision, broker]`; `Applies`/`ApplyExecutionReport` are the accepted reports and their result |
| `OMSStore` | `adapters/execution/memory/store.go`, `execution/storage` | the four maps of `Store` are variables; a publisher reads a checkpoint (`Prepare`) and offers its successor (`Commit`, `Replay`, `Refuse`); the bundle of a restart is read in three steps (`ReadCheckpoint`, `ReadReports`, `ReadFills`), each under a read lock of its own, and kept (`KeepBundle`); `Crash` and `RestorePlan` are the restart |
| `FillLedger` | abstract specification | what the store promises: the filled quantity of an order grows by exactly the fills booked for it |
| `PaperBroker` | `adapters/broker/paper/scripted.go` | `book`, `scheduled`, `delivered`; a script gives every submission its behaviour; `Delivery` is the loop of `EventsAfter` |
| `ExecutionCoordinator` | `execution/coordinator`, `execution/reconciliation` | extends `PaperBroker` and holds the store; `call[w]` is a goroutine inside `ExecutePlan`, `drain` the holder of `eventMu`, `cancel` a `RequestCancel`, `recon` a reconciliation |
| `TradingRuntime` | `tradingruntime` | session and strategy machines as operators; `start`, `refresh`, `process[e]` and `shutdown` are the calls in progress, `slots` the semaphore, `inFlight` the wait group |
| `OperatorControl` | `operations/control/controller.go` | `snapshot` and `requests` under the mutex, `disk` the file, `runner[r]` the goroutine of a request, `drain` the runtime's `stopOnce` |
| `FillIngestion` | `accounting/engine`, `accounting/ingestion`, `accounting/coordinator`, `adapters/accounting/memory` | `Apply` and `transition` as operators; `call[c]` is a goroutine inside `Ingest`; `running` and `busy` are the two reservation maps, `current`, `applied` and `ingested` the store |
| `StrategyRunner`, `RiskRunner` | `strategy/runner`, `risk/runner`, `risk/rules`, `portfolio`, their memory stores | `call[c]`, `decision[d]` are goroutines inside `EvaluateFrame` and `Decide`; the stores' chains of checkpoints are variables; `archive` has every portfolio checkpoint there ever was, any of which a restart may bring back |
| `EventOrdering`, `MarketLive`, `DatasetStore`, `MarketReplay` | `marketdata` | the reorder buffer as operators; the live path with readiness and calendar; building and publishing datasets by two processes; the replay engine |
| `ZerodhaSession`, `MarketStream`, `StreamSupervisor`, `ZerodhaExecution` | `adapters/broker/zerodha`, `integration/zerodha` | the session is instantiated by both streams; the execution adapter stands alone: `remote` is the provider's order book, `records` and `journal` the correlation store, `worker[w]` a call |
| `ObservedBroker` | `adapters/broker/paper/observed.go` | orders, quotes and the event list |
| `DerivativeSelection`, `OptionMachine`, `QualificationSeries`, `QualificationEngine` | `derivatives`, `qualification` | selection and one underlying's evidence as operators; the two machines over them |
| `ShadowRuntime` | `shadowruntime`, `app/shadow_runtime.go`, `platform/checkpointfile`, `app/paper_runtime.go` | candles and averages, the runtime, its publisher; the generations of the checkpoint files |
| `NotificationDispatcher`, `OperationalReports` | `notifications`, `operations` | queues, workers and windows; the observer and its summaries |
| `FinancialValuation`, `PositionReconciliation` | `accounting/valuation`, `accounting/reconciliation` | `Value` and `Reconcile` calls step by step |
| `OperatorStartup`, `SessionAuthorization` | `operator`, `controlplane`, `marketvalidation`, `config` | logins and starts over two days; bundles, manifests, gates, daily records and the scorecard |
| `Backtest` | `research` | one replay of a small dataset |
| `MCOMSStore`, `MCExecution`, `MCEnds`, `MCOperator`, `MCIngestion`, `MCDecisions` (runs `runtime` and `decisions`), `MCMarketAndBroker`, `MCShadowAndReports` | instances | constants of the runs and the side-by-side compositions |
| `SumLemmas`, `ExecutionControl`, `ExecutionCoordinatorProofs`, `OrderRecordProofs`, `OperatorControlProofs`, `FillIngestionProofs`, `DecisionProofs`, `PublicationProofs` | proofs | section 4 |

Definitions whose comment says "Mutant of" are deliberately wrong variants of the definition they name;
no specification uses them. They show that the properties notice such a mistake.

**Steps.** Whatever the code does under one lock is one step. A call is split where another goroutine can
act: before each reservation, before and after each call of a stage or a broker, at each publication. In
`ExecutionCoordinator` a publication is one step, because its publisher holds the order's reservation around
the read and the write; the race without a reservation is `OMSStore`'s subject. In `FillIngestion` lookup,
reservation, read and publication are four steps, because the first is outside the reservation. `Start` of the
trading runtime reads, assigns the state, advances the session and reconciles the strategies in steps of its own:
the operator's end of day may shut the runtime down between any two of them (`app/paper_runtime.go:193`). A call of the
strategy runner learns of a shutdown when its context is cancelled, which another goroutine does some time later.

**Abstractions.** Canonical bytes and checksums are equality of values. A report identity is the triple
the code formats into a string; an ingestion identity is the fill and its place in the source. A crash keeps
the checkpoints and the control file, loses everything in memory, and restores the event cursor or starts
from zero; restored reports have no publication, as in `RestorePlan`. A logical time is chosen from a small
set and may repeat, because `request.At` is the caller's. Time of day is the phase of the calendar. The
stages the runtime calls answer in every way their interfaces allow. Money is an integer of one currency and
every operation of the engine is checked against `MaxInt`. Refused calls that change nothing are left out
of the coordinator; lineage checks of `Ingest` compare a request with the order store and are not modelled.

**Composition.** `ExecutionCoordinator` composes coordinator, reconciliation, store and broker; both streams
compose with the session; `OMSStore` implements `FillLedger`. Components that share no state are checked side by
side in one run: a variable `part` says which of them moves in a behaviour, the others stay in an initial
state, and an invariant of such a run speaks of the part that moves. This adds the state spaces instead of
multiplying them and loses nothing, because the parts have no variable in common.

## 3. Runs

| Run | Instance | Shows |
|---|---|---|
| `store` | 1 order of 2 units, 2 publishers, 4 report identities, 2 fills, a failing commit, a bundle read around publications, crash and restore at any time; while a bundle is read or kept, and while commits fail, one publisher works, and around a bundle there are 3 reports | no update is lost and no unit booked twice (`StoreInv`, `NothingLost`), an answer means the report is stored, a restore refuses exactly the bundles that a fill tore (`RestoreTellsTorn`), orders only advance, the store implements `FillLedger` |
| `execution` | a SELL that depends on a BUY, 1 worker, drain, cancellation and reconciliation; six families of scripts (submission with 2 faults and a crash, reconciliation with a fault, restart with reconciliation, a refusal whose publication fails, cancellation with a late fill, cancellation with a fault and a crash) | no resubmission, no unprotected SELL, nothing invented, executions booked once, a clean reconciliation is right, one holder per order, the cursor skips no execution |
| `ends` | eight parts: two plans on one slot with `Shutdown`; one plan with a cancellation and a restart; a startup; the shutdowns of market stream, order stream, strategy runner, replay, dispatcher | every call returns unless it is for ever recovering an order that it recovered before (`CallsReturn`, section 6); every shutdown and every startup ends |
| `operator` | five parts: 3 racing requests with 2 kept commands, a failing write and a restart; logins and starts over two days; bundles and manifests while one file is edited; records and scorecards; backtests of small datasets | the latch is durable, an end of day has a runner and ends, sessions run on what they were authorized for |
| `ingestion` | 3 fills of one position, 2 places of the source, 2 callers, failures, a shutdown, a restart | the books balance and are the canonical replay of the applied fills, each once; answers are true; a stopped coordinator moves nothing |
| `runtime` | two families: 2 events on 1 place with a Start, a Refresh and a shutdown; one event without proposals at the close of the day with a halted strategy and its recovery | counters account for the calls in flight, nothing returns from draining but the state of a `Start` that the shutdown overtook, events leave, a shutdown stops |
| `decisions` | three parts: 2 callers and 2 frames on a replaced strategy instance; 2 risk decisions on portfolios free, used, at a loss or drawdown limit, with unknown exposure, with a recovering control, and a restart from any checkpoint; the runtime over a seven-phase day with kill switches | frames count once, capital and limits are kept, controls latch within a process, a runner that was shut down stays quiet, held strategies stay held |
| `market_and_broker` | live ingestion with reordering and readiness; datasets of two processes; replay with pauses; session; both streams; the observed broker; the execution adapter with 2 clients, 2 sets of terms, lost answers and a restart | readiness means fresh data, publications are complete, a new connection has the newest universe, a possibly sent order is not repeated unless a restart set its record back |
| `shadow_and_reports` | option machine, qualification, shadow runtime, checkpoint files, dispatcher, reports, valuation, position reconciliation | signals trade what was selected for them, what was acknowledged is kept, totals are of one moment |
| `poisoned_stream`, `eod_completed` | one scenario each | disagreements with the documents, section 6 |

Two units per order are the least that tell a partial from a complete fill; two publishers, workers, events
or callers are the least that race; one crash separates before from after; the faults are spent anywhere.
The families of `execution` and `runtime` split one product of bounds into the combinations that interact: each
family has the faults, crashes and calls its question needs and nothing else. The three fills of `ingestion`
have an average price that is not an integer: all three make a close that rounds, two of them a close to
zero, two others a reversal. The valuations keep 2 entries
a portfolio and 3 calls may run, the least with which a history is full and a publication races another.
`MaxCommands` is 1024 in the code; with 2 and three requests the list overflows.
Symmetry is used for the identities that nothing distinguishes (reports, fills and publishers of the store;
callers and places of the source), never in a run with a liveness property. Deadlock is not checked: a system
in which all work is done may stop.

**Fairness.** Weak fairness for the steps of a goroutine inside a call: the Go scheduler runs runnable
goroutines and every stage, broker and drain in the path has a deadline. In `ExecutionCoordinator` strong
fairness for taking a slot and for taking `eventMu`: blocked senders of a channel are served in order, and
`sync.Mutex` hands over to a waiter that starves. For a startup: every external call is bounded by a timeout.
For the streams: a connection that is no longer wanted is closed, which wakes its reader. For the strategy
runner: a strategy returns. For the dispatcher: a send is bounded. For the end of day: the request's goroutine
runs and the drain it calls has a deadline. No fairness for callers, for operators or for the broker's
deliveries: nobody has to call anything.

## 4. Proofs

All for any values of the constants that satisfy the named assumptions (`ConstantsAssumption`,
`CoordinatorAssumption`, `ControlAssumption`, `MaxIntAssumption`, `FillAssumption`, `RuntimeAssumption`,
`RiskAssumption`, `StrategyAssumption`, `ExecutionAssumption`, `ReconciliationAssumption`,
`ValuationAssumption`), which the runs evaluate. They say no more than the code validates:
`CoordinatorAssumption`, for instance, is that quantities are positive, that the legs of a plan depend on legs of
the same plan, and that the limits of the configuration are within its bounds. `ValuationAssumption` says, besides
types, that no state of a position comes back: a `PositionSnapshot` holds its revision, which the ledger only
raises. `ReconciliationAssumption` says that an observation is named by its content, whose checksum the code
verifies.

**Execution coordinator** (`SumLemmas`, `ExecutionControl`, `ExecutionCoordinatorProofs`). `SumLemmas` proves what
the loops over sets of the model do and how a sum over a function changes, by the well-foundedness of inclusion of
finite sets. `ExecutionControl` has the types, the broker by itself (`BrokerSound`: the book and the events agree;
what a step of the broker may do to them), one lemma per step of the coordinator on what it changes, and the first
invariant, `Control`. `ExecutionCoordinatorProofs` then climbs in six layers; each is inductive only together with
the ones below it:

1. `Control`: the state has its type and every call in progress holds what its program counter says;
2. `Serial`: the order a worker, a drain, a cancellation or a reconciliation works on is reserved by it and by no
   other. A publication is a read and a write in the code; this is what lets the model make it one step;
3. `Grounds`: whatever is about to be written has its ground in the broker (an event in hand was delivered, a
   worker that is about to say accepted sees a placed order, a worker that is about to send an order sees no such
   order at the broker), and whatever the store says the broker shows. This is where crashes and lost answers
   matter: what a worker saw before it reserved may be stale, and only what stays true once it is true may be used.
   It gives `NoOrderIsResubmitted`, `ProtectionComesFirst` and `NothingIsInvented`;
4. `Accounted`: the fills of the store are delivered executions, each once, and their quantities add up to the
   filled quantity, also for a publication the worker has prepared and a crash that keeps the store. It gives
   `EveryExecutionIsBookedOnce`;
5. `Follows`: what a drain has in hand is what the broker delivered after the cursor, in that order, and every
   execution up to the cursor is in the store. It gives `CoordinatorHolds`;
6. `Upkeep`: what a reconciliation relies on. `InTurn` is about the broker: it delivers in the order of the due
   times, and a partial fill is due when its order is placed, hence before any cancellation. So (`Counted`,
   `SnapshotCounts`) an order that is cancelled, in the store or in the snapshot, has counted its partial fills and
   no repair turns it into PARTIALLY_FILLED again, and (`Statuses`) what the snapshot says of an order only
   moves forwards afterwards. `Clean` then says of every order of the snapshot that the store has caught up with it,
   that its repairs are pending, or that it is still on the list, or that an issue was recorded. It gives
   `ReconciliationIsComplete`.

`OrderRecordProofs`, the order store: `StoreInvariant`, `TypeCorrect`, `FillsAlwaysTile`, `OrdersOnlyAdvance`,
`StoreImplementsLedger`, `NothingIsLost`, `TornBundlesAreRefused`. That the fills tile the filled quantity is not inductive: whether a commit keeps the
tiling depends on the publication a publisher prepared earlier, and whether a restore does depends on the
bundle read earlier. `StoreInv` therefore says the same consistency of three things: of the live maps,
of a bundle that `RestorePlan` accepts, and (`Prepared`) of every held publication relative to the checkpoint it expects.
`Commit` then needs only that the expected checkpoint is still the current one, which is the
compare-and-swap. The step to the ledger uses that the fill of a committed publication is the difference of
the filled quantities. Two more invariants lead to the other two: `Answers` (entries of the store are written
once, so an answer stays true, also of the publication somebody still holds), and `Tallied` (the
revision counts the reports, the fills add up to the filled quantity, the checkpoint's report and fill are in the
store), again of the live maps and of the kept bundle.
`TornBundlesAreRefused` is about the reads: `Underway` says of the bundle being read how what it has compares with
the live maps. Its checkpoint was current when it was read and the maps only grow (`Begun`), so its reports and
fills are those of its checkpoint and of what was published since; if no fill was booked in between its fills add
up to its filled quantity (`Whole`), and a fill in between leaves one too many, or one without its report, for good (`Shows`).

`OrderRecordProofs`, the broker adapter: `OrdersPlacedOnce`, that is `ExecutionAdapterInv` for any clients, terms,
quantity, calls in progress, updates and restarts: a client order is at the provider at most once more than restarts
set its record back, and a record that names an order names one of its client and of its terms. That rests on
`PlacedOnce`: the orders a client has at the provider are no more than those restarts, and one more if its record is
settled; `SubmitPlace` looks at the record under the lock that it holds while it places the order, and whatever the transport reports of an order that was placed
settles the record (`OutcomesKnown`). The journal is `Correlated` with the records, in memory and in the checkpoint a
restart brings back: every event is of an order that a record names, and a record that names an order names it for
good. `Counts` says of one order that the running total of its events is the number of its fills; it survives the
trades of an update one by one (`IngestTradesKeep`, a loop), the report of a status, and the events of other orders.
A lookup relies on orders it read before: they are still at the provider (`CallsKnown`), which loses none.

`OperatorControlProofs`: `LatchHolds`, `EndOfDayHasRunner`, `FileIsSound`. The invariant `ControlInv` relates the three
copies of the latch (memory, file, answered requests), and says which goroutine stands behind an
end of day: one that has not looked yet behind REQUESTED, one that has behind RUNNING. `EODHasRunner` alone is
not inductive, because the last goroutine may be one that has recorded another's outcome. `File` says that
memory and file hold the same commands, ascending by revision, and that every command somebody was answered
is in them unless the file has been full; it needs that the command written is the newest of all.

`FillIngestionProofs`: `BooksAlwaysBalance`, `StoppedStaysQuiet`, `EvidenceAgrees`, `RestoringReplays`. The
arithmetic is in one lemma,
`AppliedBalances`: what a close takes out of the basis is what enters the realized result, whatever the
rounding, and a reversal opens exactly what it does not close; it splits into opening, closing and reversing
fills. `BooksInv` adds to the balance of the current positions that of the exported bundle, which a restart
brings back, and the types of the calls. `QuietInv` says that a call between `reserve` and `release` holds
its identity alone; without "alone", the release of one call could empty `running` while another still
publishes. For `EvidenceAgrees`, `Reserves` gives every call in progress its reserved identity, position and
place, and `Evidence` says that a quarantined identity is behind its position for good, that a call that has
not decided yet brings a fill no source stored, and that the answers given are true; the order in which the
checks run is what makes it hold. For `RestoringReplays`, `ReplayInv` says that the live and the exported
books each have a history: the function of partial results that the replay of their fills defines. That
there is only one such history is an induction over its positions (`ReplayIs`, by the least position where
two differ), so the position is what the reference replay computes.

`DecisionProofs`, the trading runtime: `PlacesAreCounted`, `DrainingIsFinal`, `ReturnedMeansStopped`, `DaysAreKept`. The
invariant `RuntimeInv` counts the calls that hold a place in the semaphore and in the wait group (`Counted`: what a
step of one call does to the cardinality), and (`Progress`) says how far the shutdown is in the state of the runtime
and of the session: a session that is drained is not stopped before the shutdown stops it. `Restrained` is what makes
draining final: no answer of the calendar and no failure asks for DRAINING or STOPPED, and the table of transitions
refuses everything else from there. The exception is the assignment of `Start`, which asks no table: `Assigned` says what
it may do to the state, `StartKept` that no other step makes a shutdown look overtaken, and the session and
the strategies, which have tables of their own, stay stopped in spite of it. `ReturnedMeansStopped` is the safety
half of `ShutdownStops`: when a shutdown has returned, session and strategies are stopped, and the runtime is unless its
`Start` assigned later.

`DecisionProofs`, the risk runner: `DecisionsKeepLimits`, `ControlsStayLatched`, for any proposals, callers, policies,
configurations, portfolios, times and restarts. The proof is in three parts. First the rules: one lemma per rule
says that its result, whatever the snapshot, either rejects, or allows (`Allows`) no more than its own limit leaves;
what cannot be measured fails closed. Then `buildDecision`: the loop over the results only ever tightens
(`Tightens`, `AddResultTyped`), so a decision that approves is within what every result allowed
(`BuildDecision`); since a valid policy has exactly one rule of every kind of the catalogue (`Catalog`), it keeps
all the limits `ApprovedWithinLimits` names, which are those of every rule that bounds capital or refuses
(`DecisionKeepsLimits`): capital, allocation and the strategy rule's own limit, reserve, daily loss, drawdown, the
three exposures, and the controls. Last the runner: a decision is judged on the
snapshot its caller named and published later. `Judged` says that a call in progress keeps the limits of *that*
snapshot; only because the compare-and-swap refuses a publication whose snapshot is no longer the current one may
`PublishedHistory` add its capital to the sum of the process's decisions and still have `CapitalAccounted`. A restart may
bring back any checkpoint there ever was (`archive`), as the store allows; capital is then counted from that checkpoint
on, and `ControlsStayLatched` is about the steps between restarts. `IndInv` joins
`Books` (the registries hold validated values, the checkpoints are valid and numbered, receipts and history count
each other) and `CallsInv` (who holds the portfolio, what each call in progress has). The action property needs
both: it is about the step, and only under `IndInv` is the snapshot that a publication builds on the current one.

`DecisionProofs`, the strategy runner: `FramesCountOnce`, `RunnerStaysQuiet`, for any callers, frames, limits and
revisions of the instance. `EvaluatedOnce` is inductive by the compare-and-swap alone: a publication names the
checkpoint it was built on, so it extends the end of the chain or is refused (`PublishedChain`). What the calls
have in hand matters for `RunnerIsQuiet`: a call reads the lifecycle long before it publishes, and `EvaluationFine`
says that what it read is still true if the generation is still the instance's, because every replacement raises
the generation. `ReservationInv` adds that a shutdown which has returned left no reservation and that nobody
reserves behind a closed runner, so a call that could still store or take a place does not exist. A call may learn of the
shutdown as late as it likes and publish meanwhile: what makes the runner quiet is that `Shutdown` waits for it, and
without the wait the property is violated (its mutant).

`PublicationProofs`, datasets: `PublicationsChain`, for any processes, requests, faults and crashes. A publisher
reads the history, decides and renames; `PublishingInv` says that what one has decided on between read and rename is
the beginning of the present history. A rename that finds the length it has read has therefore read the whole of it,
and the generation it adds names the end of the chain.

`PublicationProofs`, valuation: `ValuationIsSound`, for any portfolios, quotes, callers, limits and integers of any
width. `ValuingInv` says of the positions a call read first that they are those that were current with its marks,
or that one of them has been overtaken (`Overtaken`); because no state returns, the second read of the coordinator
finds the same positions only in the first case. `SnapshotExact` is the arithmetic: when every position of the
portfolio has a value, the checked sums of `Aggregate` are the exact sums (`EvaluationSays`, and `SumOfSome` of
`SumLemmas`), and where a sum leaves the range there is no snapshot. `Recorded` says that the current valuation is the
end of the history, so that a compare-and-swap on it publishes the next revision, and that the last complete one is
the newest complete entry. The reservations and slots are counted, which is what makes a shutdown final.
The proof showed that the model's classification of a position was ambiguous where two reasons apply at once; it is
now the code's sequence of early returns.

`PublicationProofs`, reconciliation: `ReconciliationIsSound`, for any observations, modes, ledgers, callers and times.
`MatchMeansEqual` goes through the cases of the classification: only a comparable, complete and recent observation
of the same quantity gives MATCH. `CheckingInv` says that a reservation belongs to one call, that stored evidence clears
its own observation only on agreement (`Clears`), and that what somebody was answered is in the store; evidence is stored
once, so all answers to one observation agree.

**Model-checked only.** Out of the prover's reach: liveness (temporal reasoning under fairness, `ENABLED`).
Not proved yet, by choice of what came first: of the run `market_and_broker` `MarketDataInv` and `BrokerInv`, of `shadow_and_reports` `ShadowAndReportsInv`, and `ProgramInv` of `operator`.

## 5. Plan

Done: every component of section 1 is modelled and checked, and the theorems of section 4. Left:

1. The invariants of the Zerodha session and of the two streams.
2. An abstract specification of the bounded runner that strategy, risk and ingestion share, and the three
   shown to implement it; the composition of the OMS store with fill ingestion.

Runs stay few: a new component joins a run as another part.

## 6. Disagreements with the documents

With a run:

- `poisoned_stream`: an execution booked by reconciliation is an error when the stream delivers it, and the
  cursor stays before it for ever. `ORDER_SAFETY.md` calls duplicates harmless.
- `eod_completed`: only the caller that runs the runtime's `stopOnce` gets its error. A second `EOD_CLOSE` after
  a failed one, or one that waits behind the application's own shutdown, is recorded COMPLETED without a
  drain. The M1 runbook says that `EOD_CLOSE` drains and checkpoints.

`PROJECT.json` lists ten more under `findings`, each as a definition of its module that TLC refutes when it is
taken as an invariant: `ExposureWithinLimit`, `ShutdownClearsCredentials`, `SubscriptionsFollowDesired`,
`BuildKeyNamesContent`, `RollbackLeavesDamage`, `EndsAreEvidenced`, `EvictedByMoreSevere`, `ReadyIsForTheDate`,
`AcceptedIsReplayed`, `StoppedIsFinal`. Of the same kind, as documentation in the modules: `SignalFilledOnce`, `ExitReachesRisk`,
`OneChecksumPerIdentity`, `CalendarIsAuthorized`, `LiquidityOfferedOnce`, `NetIsAlwaysEquityChange`.

Behaviour the models have that a reader of the documents may not expect, with no run of its own.

*Execution.* A leg is submitted while another leg of the plan is UNKNOWN. Recovery of an UNKNOWN order publishes
SUBMITTED without looking at the state the broker reports; so an order the broker refused, whose refusal was
not published, is taken for submitted and can be cancelled at the paper broker: the store then says REJECTED and
the broker's book CANCELLED. A cancellation scheduled before a partial fill is delivered carries the lower
cumulative and is dropped as stale; reconciliation learns of it. A failed restart-unknown publication leaves the
order reserved. After a restart a repeated UNKNOWN of one order at the same logical time makes the leg loop
claim progress for ever: `CallsReturn` says that this is the only call that never returns, and without the exception
the run `ends` violates it. A bundle that a report without a fill tore is restored: the store then has a report
that its order never applied, and whoever retries it is told IDEMPOTENT_REPLAY. `Shutdown` waits for plans but not for a cancellation in flight. The observed broker
still cancels after its shutdown, and in the PAPER composition its set of quotes grows without bound.

*Runtime and risk.* A milder failure replaces HALTED by DEGRADED. A global kill switch that arrives while risk
decides does not stop that order, and a proposal may execute for a strategy that was killed meanwhile
(`runtime.go:199` reads the strategies' states before risk runs). An end of day that overtakes `Start` leaves a runtime that says
RUNNING over a stopped session (`StoppedIsFinal`). A restart from an older portfolio checkpoint forgets the reservations and
the trips after it: nothing in the store tells that there was a newer one (`riskruntime/memory/store.go:119`). A runtime without a Refresh in the PRE_CAS window cannot go from
NORMAL_TRADING to CAS_ACTIVE and keeps the regime NORMAL through the auction. An event that passed the state check
may be admitted after the shutdown stopped waiting. Readiness is read before a strategy is evaluated
(`strategy/runner/runner.go:109`) and may be stale when its result is published. `production.go:275` divides by
`LimitBPS` before testing it, and `config.go:236` accepts zero. The adjustments of two rules are intersected in
an order-dependent way (`helpers.go:119`). The lifecycle and the effective window of a risk policy are not checked
by the runner.

*Operations and accounting.* Request identities older than the kept commands are forgotten by a restart. A fill
offered from two places of the source at once can be quarantined for the second although it is in the books. One
position that overflows fails the valuation of all; the capacity of the store is exhausted for good. A
reconciliation that looks up before it reserves can end in an identity collision.

*Market data and Zerodha.* `EventLess` is not transitive when only some events are numbered (`event.go:82`). An event
refused for capacity stays known to the deduplicator (`live.go:49`), and a failing consumer loses the events that
were ready (`live.go:68`). An event after `SetProviderAvailable(false)` revives the provider. `buildDataset` reads its
input twice. A pause lets one more event through (`engine.go:144`). Two concurrent logins exchange the one-shot
token twice (`session.go:87`). A stale 403 expires a new session (`client.go:100`). A connectivity check after the
shutdown overwrites STOPPED (`readiness.go:80`), and the stream's deferred STOPPED overwrites EXPIRED
(`market_stream.go:319`).

*Shadow runtime and reports.* `Restore` of the option machine does not restore the signals it has seen, and an exit
in a restricted session does not reach risk. A clean checkpoint may miss quotes (`shadow_runtime.go:404`); the
checkpoint of another trading date is never compatible (`:287`); the close of a session is never marked dirty
(`:147`). An event refused for a full queue stays in the dispatcher's seen set. A second `Shutdown` returns while the
first still drains. The scorecard counts the stored status after verifying the derived one.

*Validation.* A FULL_PIPELINE manifest can be finalized but no runtime accepts it. The Day-0 gate does not require
SESSION_PASS. The authorization window is checked at the start only. The calendar is read again after its
checksum was verified (`paper_runtime.go:112`).

## 7. Not modelled

`PROJECT.json` gives the reason for each component: immutable values with canonical encoding, read-only HTTP
views, counters, release gates and evidence checks, import of research datasets, process wiring and file
formats. In the modelled components: readiness aggregation and checkpoint manifests of the trading runtime (a
Refresh is told ready or not ready), health and telemetry calls, message texts, the packet layout of the market
stream, and the HTTP and socket front of operator control.
