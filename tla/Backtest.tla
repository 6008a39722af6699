------------------------------- MODULE Backtest -------------------------------
(* An offline backtest (research/model, features, cost, backtest, report): a dataset is
   checked and sorted, the engine takes its observations one by one, fills the order that
   waits for the instrument, shows the control strategy what is known by then and queues
   the order it decides on; a report is drawn from the result.  An observation is one step.

   The fee schedule is a sequence of six rates, in the order the code applies them.  All
   arithmetic is checked: a value outside the machine integers fails the run. *)
EXTENDS Integers, SequencesExt

CONSTANTS
  Datasets,        \* sequences of [instrument, at, hash, price, bid, ask], as read
  AvailableFrom,   \* instrument -> when it is known, the instruments of the dataset
  Directions,      \* of the control strategy
  StartingCapital, Quantity, SlippageBPS,
  Rates,           \* [numerator, denominator, base, ceil], in the order of Calculate
  MaxInt           \* the largest machine integer

NoPrice == -1      \* a quote without that side of the book

VARIABLES dataset, direction, engine, summary

vars == <<dataset, direction, engine, summary>>

Instruments == DOMAIN AvailableFrom
Fits(S) == S \subseteq -MaxInt..MaxInt
Sum(s) == FoldLeft(+, 0, s)
None == [i \in {} |-> 0]

-----------------------------------------------------------------------------
NewObservation(o) ==
  /\ o.price >= 0 /\ o.bid >= NoPrice /\ o.ask >= NoPrice
  /\ NoPrice \notin {o.bid, o.ask} => o.bid <= o.ask

\* By exchange time, then by identity.
ObservationLess(a, b) == a.at < b.at \/ (a.at = b.at /\ a.hash < b.hash)

AvailableAt(instrument, at) == instrument \in Instruments /\ AvailableFrom[instrument] <= at

NewDataset(read) ==
  /\ read # <<>> /\ \A o \in ToSet(read) : NewObservation(o) /\ AvailableAt(o.instrument, o.at)
  /\ \A i, j \in DOMAIN read : read[i].hash = read[j].hash => i = j

MulDiv(value, numerator, denominator, ceil) ==
  LET product == value * numerator
  IN product \div denominator + (IF ceil /\ product % denominator # 0 THEN 1 ELSE 0)

\* What the strategy may see at `asOf': nothing later, in order, of one known instrument.
NewPointInTimeView(asOf, instrument, seen) ==
  /\ AvailableAt(instrument, asOf) /\ \A o \in ToSet(seen) : o.at <= asOf
  /\ \A i \in 2..Len(seen) : ObservationLess(seen[i - 1], seen[i])

\* The return feature is a difference in millionths; its product is checked.
BuildFits(seen) ==
  LET n == Len(seen)
  IN n > 1 /\ seen[n - 1].price > 0 => Fits({(seen[n].price - seen[n - 1].price) * 1000000})

\* Enter on the second observation, leave on the next evaluation.
ControlStrategy(seen, hasPosition) ==
  IF ~hasPosition /\ Len(seen) = 2 THEN IF direction = "BUY" THEN "LONG" ELSE "SHORT"
  ELSE IF hasPosition /\ Len(seen) >= 3 THEN "EXIT" ELSE "NO_ACTION"

-----------------------------------------------------------------------------
Sign(side) == IF side = "BUY" THEN 1 ELSE -1
Opposite(side) == IF side = "BUY" THEN "SELL" ELSE "BUY"

Book(side, o) == IF side = "BUY" THEN o.ask ELSE o.bid

\* Slippage is adverse; the spread's impact is what the book is worse than the last price.
Fill(order, o) ==
  LET book == Book(order.side, o)
      slip == MulDiv(book, SlippageBPS, 10000, TRUE)
  IN [order |-> order, observation |-> o.hash, side |-> order.side, signal |-> order.at, at |-> o.at,
      reference |-> o.price, price |-> book + Sign(order.side) * slip,
      slippage |-> slip * Quantity,
      spread |-> Max({0, Sign(order.side) * (book - o.price)}) * Quantity]

Notional(f) == f.price * Quantity

BaseValue(base, f, prior) ==
  CASE base = "BUY_NOTIONAL" -> IF f.side = "BUY" THEN Notional(f) ELSE 0
    [] base = "SELL_NOTIONAL" -> IF f.side = "SELL" THEN Notional(f) ELSE 0
    [] base = "TOTAL_NOTIONAL" -> Notional(f)
    [] base = "PRIOR_CHARGES" -> prior

\* The charges of a fill: each rate on its base, the charges before it being one.
Calculate(f) ==
  LET Add(prior, r) == prior + MulDiv(BaseValue(r.base, f, prior), r.numerator, r.denominator, r.ceil)
  IN FoldLeft(Add, 0, Rates)

Impact(f) == f.slippage + f.spread
TotalCosts(f) == Calculate(f) + Impact(f)

ApplyCash(cash, f) == cash - Sign(f.side) * Notional(f) - Calculate(f)

CloseTrade(position, f) ==
  LET gross == Sign(position.side) * (f.reference - position.reference) * Quantity
  IN [gross |-> gross, net |-> gross - position.costs - TotalCosts(f),
      signal |-> position.signal, filled |-> position.at, exitSignal |-> f.signal, exitFilled |-> f.at]

Position(f) ==
  [side |-> f.side, reference |-> f.reference, price |-> f.price, costs |-> TotalCosts(f),
   impact |-> Impact(f), signal |-> f.signal, at |-> f.at]

CurrentEquity(cash, positions, last) ==
  cash + SumFunction([i \in DOMAIN positions |-> Sign(positions[i].side) * last[i] * Quantity])

-----------------------------------------------------------------------------
NewEngine ==
  [pc |-> "load", next |-> 1, cash |-> StartingCapital, realized |-> 0, costs |-> 0,
   positions |-> None, pending |-> None, fills |-> {}, last |-> None, trades |-> <<>>,
   rejected |-> <<>>, evaluations |-> 0, signals |-> 0, equity |-> <<>>]

\* An error returns an empty result.
Failed(error) == [NewEngine EXCEPT !.pc = error]
HasFailed(e) == e.pc \notin {"load", "run", "done"}

Init ==
  /\ dataset \in Datasets /\ direction \in Directions
  /\ engine = NewEngine /\ summary = "none"

Load ==
  /\ engine.pc = "load"
  /\ IF NewDataset(dataset)
       THEN dataset' = SortSeq(dataset, ObservationLess) /\ engine' = [engine EXCEPT !.pc = "run"]
       ELSE engine' = Failed("ErrInvalidDataset") /\ UNCHANGED dataset
  /\ UNCHANGED <<direction, summary>>

Drop(f, i) == Restrict(f, DOMAIN f \ {i})

\* The waiting order meets an observation after it: rejected without a book, else booked.
FillPending(e, o) ==
  LET queued == e.pending[o.instrument]
      f == Fill(queued, o)
      cash == ApplyCash(e.cash, f)
      costs == e.costs + TotalCosts(f)
      taken == [e EXCEPT !.pending = Drop(@, o.instrument)]
      booked == [taken EXCEPT !.fills = @ \cup {f}, !.cash = cash, !.costs = costs]
      held == o.instrument \in DOMAIN e.positions
      trade == CloseTrade(e.positions[o.instrument], f)
  IN CASE Book(queued.side, o) <= 0 -> [taken EXCEPT !.rejected = Append(@, queued)]
       [] ~Fits({Book(queued.side, o) * SlippageBPS, f.price, Notional(f), Impact(f), costs, cash}
                  \cup IF queued.exit /\ held THEN {trade.gross, trade.net} ELSE {}) ->
            Failed("ErrArithmeticOverflow")
       [] \E g \in e.fills : g.order = queued /\ g.observation = o.hash -> Failed("ErrInvalidFill")
       [] queued.exit /\ (~held \/ e.positions[o.instrument].side = f.side) ->
            Failed("ErrPositionUnderflow")
       [] ~queued.exit /\ held -> Failed("ErrInvalidDecision")
       [] queued.exit ->
            [booked EXCEPT !.trades = Append(@, trade), !.realized = @ + trade.net,
                           !.positions = Drop(@, o.instrument)]
       [] OTHER -> [booked EXCEPT !.positions = @ @@ o.instrument :> Position(f)]

DecisionSide(decision, e, instrument) ==
  CASE decision = "LONG" -> "BUY"
    [] decision = "SHORT" -> "SELL"
    [] decision = "EXIT" -> Opposite(e.positions[instrument].side)

\* The strategy decides on what is known by the observation; its order waits.
Evaluate(e, o) ==
  LET seen == SelectSeq(SubSeq(dataset, 1, e.next), LAMBDA x : x.instrument = o.instrument)
      decision == ControlStrategy(seen, o.instrument \in DOMAIN e.positions)
      order == [at |-> o.at, instrument |-> o.instrument, exit |-> decision = "EXIT",
                side |-> DecisionSide(decision, e, o.instrument)]
      evaluated == [e EXCEPT !.evaluations = @ + 1, !.next = @ + 1,
                             !.equity = Append(@, CurrentEquity(e.cash, e.positions, e.last))]
  IN CASE ~NewPointInTimeView(o.at, o.instrument, seen) -> Failed("ErrInvalidFrame")
       [] ~BuildFits(seen) \/ ~Fits({Last(evaluated.equity)}) -> Failed("ErrArithmeticOverflow")
       [] decision = "NO_ACTION" -> evaluated
       [] o.instrument \in DOMAIN e.pending -> Failed("ErrInvalidDecision")
       [] OTHER -> [evaluated EXCEPT !.signals = @ + 1, !.pending = @ @@ o.instrument :> order]

\* One observation of Run's loop.
Observe ==
  /\ engine.pc = "run" /\ engine.next <= Len(dataset)
  /\ LET o == dataset[engine.next]
         known == [engine EXCEPT !.last = (o.instrument :> o.price) @@ @]
         due == o.instrument \in DOMAIN known.pending /\ o.at > known.pending[o.instrument].at
         filled == IF due THEN FillPending(known, o) ELSE known
     IN engine' = IF HasFailed(filled) THEN filled ELSE Evaluate(filled, o)
  /\ UNCHANGED <<dataset, direction, summary>>

-----------------------------------------------------------------------------
Unrealized(e) ==
  SumFunction([i \in DOMAIN e.positions |->
                 Sign(e.positions[i].side) * (e.last[i] - e.positions[i].price) * Quantity])

\* Go's division truncates towards zero.
Quotient(a, b) == IF b = 0 THEN 0 ELSE IF a >= 0 THEN a \div b ELSE -((-a) \div b)

MaxDrawdown(equity) ==
  FoldLeft(LAMBDA acc, v : LET peak == Max({acc.peak, v})
                           IN [peak |-> peak, fall |-> Max({acc.fall, peak - v})],
           [peak |-> equity[1], fall |-> 0], equity).fall

\* The quotient in lowest terms.
Reduce(a, b) ==
  LET g == Max({d \in 1..b : a % d = 0 /\ b % d = 0}) IN <<a \div g, b \div g>>

Build(e) ==
  LET nets == [i \in DOMAIN e.trades |-> e.trades[i].net]
      wins == SelectSeq(nets, LAMBDA n : n > 0)
      falls == SelectSeq(nets, LAMBDA n : n < 0)
      profits == Sum(wins)
      losses == -Sum(falls)
      gross == Sum([i \in DOMAIN e.trades |-> e.trades[i].gross]) + Unrealized(e)
                 + SumFunction([i \in DOMAIN e.positions |-> e.positions[i].impact])
  IN [gross |-> gross, costs |-> e.costs, net |-> gross - e.costs, cash |-> e.cash,
      realized |-> e.realized, unrealized |-> Unrealized(e),
      winning |-> Len(wins), losing |-> Len(falls),
      averageWinner |-> Quotient(profits, Len(wins)), averageLoser |-> -Quotient(losses, Len(falls)),
      expectancy |-> Quotient(profits - losses, Len(nets)),
      winRateBPS |-> Quotient(Len(wins) * 10000, Len(nets)),
      profitFactor |-> IF losses > 0 THEN Reduce(profits, losses) ELSE <<0, 0>>,
      maxDrawdown |-> MaxDrawdown(e.equity)]

Report ==
  /\ engine.pc = "run" /\ engine.next > Len(dataset)
  /\ LET r == Build(engine)
     IN IF Fits({r.gross, r.net, r.unrealized})
          THEN engine' = [engine EXCEPT !.pc = "done"] /\ summary' = r
          ELSE engine' = Failed("ErrArithmeticOverflow") /\ UNCHANGED summary
  /\ UNCHANGED <<dataset, direction>>

Next == Load \/ Observe \/ Report

Spec == Init /\ [][Next]_vars

-----------------------------------------------------------------------------
\* No look-ahead: a fill is later than the signal behind it, which had seen two observations
\* of the instrument, and an exit is decided by a strategy that already held the position.
NoLookAhead ==
  /\ \A f \in engine.fills :
       /\ f.signal < f.at
       /\ \E o \in ToSet(dataset) : o.hash = f.observation /\ o.at = f.at
       /\ \E a, b \in ToSet(dataset) :
            /\ a # b /\ {a.instrument, b.instrument} = {f.order.instrument}
            /\ a.at <= f.signal /\ b.at <= f.signal
  /\ \A t \in ToSet(engine.trades) :
       t.signal < t.filled /\ t.filled <= t.exitSignal /\ t.exitSignal < t.exitFilled

\* Every signal is filled, rejected or still waiting, and what waits to leave has something
\* to leave.
SignalsAccounted ==
  /\ engine.signals =
       Cardinality(engine.fills) + Len(engine.rejected) + Cardinality(DOMAIN engine.pending)
  /\ \A i \in DOMAIN engine.pending : engine.pending[i].exit <=> i \in DOMAIN engine.positions
  /\ Cardinality(engine.fills) = 2 * Len(engine.trades) + Cardinality(DOMAIN engine.positions)

InsideBook ==
  \A o \in ToSet(dataset) : (o.bid > 0 => o.bid <= o.price) /\ (o.ask > 0 => o.price <= o.ask)

\* The report's two ways of counting agree: the net result is the change of the equity, and
\* with nothing open it is what was realized, provided that every last price is inside its book.
NetIsEquityChange ==
  engine.pc = "done" /\ InsideBook =>
    /\ summary.net = Last(engine.equity) - StartingCapital
    /\ DOMAIN engine.positions = {} =>
         summary.net = engine.realized /\ engine.cash = StartingCapital + engine.realized

\* The drawdown is the largest fall from an earlier equity to a later one, and the profit
\* factor is that of what was realized: profits less losses.
StatisticsAgree ==
  engine.pc = "done" =>
    LET e == engine.equity
        losses == -Sum([i \in DOMAIN engine.trades |-> Min({0, engine.trades[i].net})])
        factor == summary.profitFactor
    IN /\ summary.maxDrawdown = Max({Max({e[i] : i \in 1..j}) - e[j] : j \in DOMAIN e})
       /\ summary.winning + summary.losing <= Len(engine.trades)
       /\ factor = <<0, 0>> <=> losses = 0
       /\ factor[1] * losses = factor[2] * (engine.realized + losses)

BacktestInv == NoLookAhead /\ SignalsAccounted /\ NetIsEquityChange /\ StatisticsAgree

\* Stated of the report, and not so: the net result is the change of the equity.  A last price
\* outside the book is better than the fill's reference, and no impact is counted for it.
NetIsAlwaysEquityChange == engine.pc = "done" => summary.net = Last(engine.equity) - StartingCapital

\* Stated of the replay, and not so: a dataset that was accepted is replayed to its end.  Two
\* observations of one instrument and time after an entry make the strategy decide to leave
\* twice, and the second decision fails the run.
AcceptedIsReplayed == engine.pc # "ErrInvalidDecision"
==============================================================================
