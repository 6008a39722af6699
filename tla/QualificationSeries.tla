------------------------- MODULE QualificationSeries -------------------------
(***************************************************************************)
(* The evidence the qualification engine (internal/qualification) keeps of *)
(* one underlying, and what each of its operations makes of it.  A series  *)
(* is [state, records, open, trades, blocks, reviews]; every operation     *)
(* answers with [series, answer], where a refused one leaves the series.   *)
(*                                                                         *)
(* A record is identified by its signal and the signal's time: the digest  *)
(* the code computes also covers the option, price and risk outcome, but   *)
(* RecordSignal refuses a second record with the same signal and time.     *)
(***************************************************************************)
EXTENDS Integers, Sequences, SequencesExt, FiniteSetsExt

CONSTANTS Horizons,       \* the policy's forward horizons, positive durations
          Lateness,       \* MaximumObservationLateness
          MinimumTrades,  \* MinimumCompletedTrades
          MinimumSessions,
          Cost,           \* the configured cost of a trade
          SessionLength,  \* units of time in a day
          Nothing         \* the absent value

BlockKinds == {"stale", "mapping", "cas", "session", "control", "quality"}

NewSeries == [state |-> "REFERENCE", records |-> <<>>, open |-> Nothing,
              trades |-> <<>>, blocks |-> [k \in BlockKinds |-> 0], reviews |-> <<>>]

Answer(series, answer) == [series |-> series, answer |-> answer]

(* selectPrice: the touch of a two-sided book, otherwise the last price. *)
TwoSided(quote) == quote.bid > 0 /\ quote.ask >= quote.bid
SelectPrice(quote, entry) ==
    IF TwoSided(quote) THEN IF entry THEN quote.ask ELSE quote.bid ELSE quote.ltp

(***************************************************************************)
(* RecordSignal                                                            *)
(***************************************************************************)
ValidSignal(input) ==
    /\ input.session = "NORMAL_TRADING"
    /\ input.risk \in {"APPROVED", "REJECTED"}
    /\ input.future.at <= input.at
    /\ input.quote.at <= input.at
    /\ input.quote.instrument = input.option

Record(input) ==
    [signal |-> input.signal, at |-> input.at, option |-> input.option,
     risk |-> input.risk, quote |-> input.quote, spot |-> input.spot,
     future |-> input.future, entry |-> SelectPrice(input.quote, TRUE),
     quality |-> IF TwoSided(input.quote) THEN "COMPLETE" ELSE "PARTIAL",
     horizons |-> [h \in Horizons |-> Nothing]]

Identity(record) == <<record.signal, record.at>>

Position(record, quantity) ==
    [record |-> Identity(record), option |-> record.option, quantity |-> quantity,
     entry |-> record.entry, at |-> record.at, mark |-> record.entry,
     mfe |-> 0, mae |-> 0, lastAt |-> Nothing, last |-> Nothing]

(* Everything of a record but the horizons measured since. *)
Content(record) == [record EXCEPT !.horizons = Nothing]

RecordSignal(series, input) ==
    LET record == Record(input)
        known  == SelectSeq(series.records, LAMBDA r : Identity(r) = Identity(record))
    IN IF ~ValidSignal(input) THEN Answer(series, "INVALID")
       ELSE IF known # <<>> THEN
            Answer(series, IF Content(known[1]) = Content(record) THEN "DUPLICATE" ELSE "CONFLICT")
       ELSE IF input.risk = "APPROVED" /\ series.open # Nothing THEN Answer(series, "OPEN_POSITION")
       ELSE IF input.risk = "REJECTED" THEN
            Answer([series EXCEPT !.records = Append(@, record),
                                  !.state = "INSUFFICIENT_SAMPLE"], "RECORDED")
       ELSE Answer([series EXCEPT !.records = Append(@, record),
                                  !.state = "SHADOW_COLLECTING",
                                  !.open = Position(record, input.quantity)], "RECORDED")

(***************************************************************************)
(* Observe: the mark and the excursions of the open position, and every    *)
(* horizon of its record that has come due.                                *)
(***************************************************************************)
Larger(a, b) == IF a > b THEN a ELSE b
Smaller(a, b) == IF a < b THEN a ELSE b

Excursion(position, change) ==
    [position EXCEPT !.mfe = Larger(@, change), !.mae = Smaller(@, change)]

Measured(value, due, at, change, quantity) ==
    IF value # Nothing \/ at < due THEN value
    ELSE IF at - due > Lateness
    THEN [at |-> at, available |-> FALSE, reason |-> "HORIZON_UNAVAILABLE", pnl |-> 0]
    ELSE [at |-> at, available |-> TRUE, reason |-> "NONE", pnl |-> change * quantity]

Observe(series, observation) ==
    LET position == series.open
        at       == observation.at
        mark     == SelectPrice(observation.quote, FALSE)
        change   == mark - position.entry
        measure(r) == [r EXCEPT !.horizons = [h \in Horizons |->
                         Measured(@[h], r.at + h, at, change, position.quantity)]]
    IN IF position = Nothing THEN Answer(series, "NO_POSITION")
       ELSE IF position.record # observation.record THEN Answer(series, "NO_POSITION")
       ELSE IF \/ observation.quote.instrument # position.option
               \/ at < position.at
               \/ observation.quote.at > at
            THEN Answer(series, "INVALID")
       ELSE IF position.lastAt # Nothing /\ at <= position.lastAt
            THEN Answer(series, IF observation = position.last THEN "DUPLICATE" ELSE "CONFLICT")
       ELSE Answer([series EXCEPT
              !.open = [Excursion(position, change) EXCEPT
                           !.mark = mark, !.lastAt = at, !.last = observation],
              !.records = [i \in DOMAIN @ |->
                             IF Identity(@[i]) = position.record
                             THEN measure(@[i]) ELSE @[i]]], "OBSERVED")

(* MarkHorizonUnavailable. *)
MarkUnavailable(series, record, horizon, at, reason) ==
    LET pending == {i \in DOMAIN series.records :
                      /\ Identity(series.records[i]) = record
                      /\ series.records[i].horizons[horizon] = Nothing}
    IN IF pending = {} THEN Answer(series, "NOT_FOUND")
       ELSE Answer([series EXCEPT !.records[Min(pending)].horizons[horizon] =
                      [at |-> at, available |-> FALSE, reason |-> reason, pnl |-> 0]],
                   "MARKED")

(***************************************************************************)
(* Close, and the state the completed trades give.                         *)
(***************************************************************************)
SessionOf(at) == at \div SessionLength

CompletedSessions(trades) == Cardinality({SessionOf(trades[i].entryAt) : i \in DOMAIN trades})

QualificationState(trades) ==
    IF Len(trades) < MinimumTrades \/ CompletedSessions(trades) < MinimumSessions
    THEN "INSUFFICIENT_SAMPLE" ELSE "ELIGIBLE_FOR_REVIEW"

Trade(position, price, at) ==
    LET moved == Excursion(position, price - position.entry)
    IN [record |-> position.record, option |-> position.option,
        quantity |-> position.quantity, entry |-> position.entry, exit |-> price,
        entryAt |-> position.at, exitAt |-> at, mfe |-> moved.mfe, mae |-> moved.mae,
        gross |-> (price - position.entry) * position.quantity,
        net |-> (price - position.entry) * position.quantity - Cost]

Close(series, input) ==
    LET position == series.open
        trades   == Append(series.trades,
                           Trade(position, SelectPrice(input.quote, FALSE), input.at))
    IN IF input.quote.instrument # input.option THEN Answer(series, "INVALID")
       ELSE IF position = Nothing THEN Answer(series, "NO_POSITION")
       ELSE IF position.record # input.record THEN Answer(series, "NO_POSITION")
       ELSE IF \/ position.option # input.option
               \/ input.at <= position.at
               \/ input.quote.at > input.at
            THEN Answer(series, "INVALID")
       ELSE Answer([series EXCEPT !.trades = trades, !.open = Nothing,
                                  !.state = QualificationState(trades)], "CLOSED")

(* RecordBlock. *)
RecordBlock(series, kind) == [series EXCEPT !.blocks[kind] = @ + 1]

ApplyReview(series, approved) ==
    IF series.state # "ELIGIBLE_FOR_REVIEW" THEN Answer(series, "INVALID")
    ELSE Answer([series EXCEPT !.state = IF approved THEN "QUALIFIED" ELSE "REJECTED",
                               !.reviews = Append(@, approved)], "REVIEWED")

(***************************************************************************)
(* scorecard: what is reported of a series.                                *)
(***************************************************************************)
Gross(trades) == FoldSeq(LAMBDA t, sum : sum + t.gross, 0, trades)

(* The running profit after each number of trades, zero included. *)
Running(trades) == [n \in 0 .. Len(trades) |-> Gross(SubSeq(trades, 1, n))]

(* The deepest fall of the running profit from an earlier peak. *)
Drawdown(trades) ==
    LET running == Running(trades)
        spans   == {<<i, j>> \in (DOMAIN running) \X (DOMAIN running) : i <= j}
    IN Max({running[p[1]] - running[p[2]] : p \in spans})

CountTrades(trades, Test(_)) == Cardinality({i \in DOMAIN trades : Test(trades[i])})

Scorecard(series) ==
    LET records == series.records
        trades  == series.trades
    IN [signals   |-> Len(records),
        accepted  |-> Cardinality({i \in DOMAIN records : records[i].risk = "APPROVED"}),
        rejected  |-> Cardinality({i \in DOMAIN records : records[i].risk = "REJECTED"}),
        completed |-> Len(trades),
        open      |-> IF series.open = Nothing THEN 0 ELSE 1,
        wins      |-> CountTrades(trades, LAMBDA t : t.gross > 0),
        losses    |-> CountTrades(trades, LAMBDA t : t.gross < 0),
        flat      |-> CountTrades(trades, LAMBDA t : t.gross = 0),
        gross     |-> Gross(trades),
        mfe       |-> Max({0} \union {trades[i].mfe : i \in DOMAIN trades}),
        mae       |-> Min({0} \union {trades[i].mae : i \in DOMAIN trades}),
        drawdown  |-> Drawdown(trades),
        sessions  |-> CompletedSessions(trades),
        blocks    |-> series.blocks]
=============================================================================
