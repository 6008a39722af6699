--------------------------- MODULE ShadowRuntime ---------------------------
(***************************************************************************)
(* The live SHADOW runtime: internal/shadowruntime, which turns the quotes *)
(* of an index, its futures and its options into candles, crossovers and   *)
(* qualification evidence, under the publisher and the shutdown of         *)
(* internal/app/shadow_runtime.go.                                         *)
(*                                                                         *)
(* Four activities run side by side: the stream delivers quotes (Process   *)
(* holds the runtime's lock; Dirty follows after it is released), the      *)
(* checkpoint publisher reads its target and then stores a snapshot, the   *)
(* operator closes the session, and the application shuts down without     *)
(* waiting for a delivery that is already under way.                       *)
(*                                                                         *)
(* The latest quote of an instrument is the last of its history.  Quotes   *)
(* are identified by their content.                                        *)
(***************************************************************************)
EXTENDS Integers, Sequences, SequencesExt, FiniteSetsExt

(***************************************************************************)
(* The one-minute candles of internal/shadowruntime/candle.go and the      *)
(* fixed-point crossover of internal/shadowruntime/ema.go, for one         *)
(* underlying.  A quote is [at, price]; a series is [open, completed, last,*)
(* lastAt, gaps, first, built], where first and built are not in the code: *)
(* the minute of the first candle and the number of candles completed.     *)
(***************************************************************************)

CONSTANTS MinuteLength,    \* units of time in a minute
          MaximumCandles,  \* completed candles kept
          FastPeriod, SlowPeriod,
          WarmupRequired,  \* candles before the averages are compared
          EMAScale,        \* units of the fixed-point representation
          NoCandle         \* the absent candle

NewCandles == [open |-> NoCandle, completed |-> <<>>, last |-> NoCandle,
               lastAt |-> 0 - 1, gaps |-> 0, first |-> 0 - 1, built |-> 0]

Minute(at) == at \div MinuteLength

CandlePoint(quote) ==
    [minute |-> Minute(quote.at), open |-> quote.price, high |-> quote.price,
     low |-> quote.price, close |-> quote.price, ticks |-> 1, at |-> quote.at]

UpdateCandlePoint(candle, quote) ==
    [candle EXCEPT !.high = IF quote.price > @ THEN quote.price ELSE @,
                   !.low = IF quote.price < @ THEN quote.price ELSE @,
                   !.close = quote.price, !.at = quote.at, !.ticks = @ + 1]

(* The most recent n elements. *)
Recent(s, n) == IF Len(s) > n THEN SubSeq(s, Len(s) - n + 1, Len(s)) ELSE s

MissedMinutes(candle, minute) == minute - candle.minute - 1

(* Accept: the candle a quote completes, if any, and the series after it.  *)
Accept(series, quote) ==
    LET minute  == Minute(quote.at)
        told    == [series EXCEPT !.last = quote, !.lastAt = quote.at]
        fresh   == CandlePoint(quote)
        current == series.open
    IN IF quote = series.last THEN [series |-> series, completed |-> FALSE, answer |-> "DUPLICATE"]
       ELSE IF quote.at <= series.lastAt
       THEN [series |-> series, completed |-> FALSE, answer |-> "OUT_OF_ORDER"]
       ELSE IF current = NoCandle
       THEN [series |-> [told EXCEPT !.open = fresh, !.first = minute],
             completed |-> FALSE, answer |-> "OK"]
       ELSE IF minute = current.minute
       THEN [series |-> [told EXCEPT !.open = UpdateCandlePoint(current, quote)],
             completed |-> FALSE, answer |-> "OK"]
       ELSE [series |-> [told EXCEPT !.open = fresh, !.built = @ + 1,
                            !.gaps = @ + MissedMinutes(current, minute),
                            !.completed = Recent(Append(@, current), MaximumCandles)],
             completed |-> TRUE, answer |-> "OK"]

CloseTime(candle) == (candle.minute + 1) * MinuteLength

(***************************************************************************)
(* The averages.  roundedFraction rounds half away from zero; fixedEMA     *)
(* starts from the oldest candle of the window.                            *)
(***************************************************************************)
Abs(n) == IF n < 0 THEN 0 - n ELSE n

RoundedFraction(value, numerator, denominator) ==
    LET product   == Abs(value) * numerator
        quotient  == product \div denominator
        remainder == product % denominator
        rounded   == IF remainder >= denominator - remainder THEN quotient + 1 ELSE quotient
    IN IF value < 0 THEN 0 - rounded ELSE rounded

FixedEMA(candles, period) ==
    LET scaled(i) == candles[i].close * EMAScale
        ema[i \in 1 .. Len(candles)] ==
            IF i = 1 THEN scaled(1)
            ELSE ema[i - 1] + RoundedFraction(scaled(i) - ema[i - 1], 2, period + 1)
    IN ema[Len(candles)]

NewEMA == [samples |-> 0, fast |-> 0, slow |-> 0, relation |-> 0, lastCandle |-> 0]

Relation(fast, slow) == IF fast > slow THEN 1 ELSE IF fast < slow THEN 0 - 1 ELSE 0

(* EvaluateEMA: the new state, and the direction of a crossover or "NONE". *)
EvaluateEMA(state, candles) ==
    LET latest   == CloseTime(Last(candles))
        counted  == [state EXCEPT !.samples = Len(candles), !.lastCandle = latest]
        fast     == FixedEMA(candles, FastPeriod)
        slow     == FixedEMA(candles, SlowPeriod)
        relation == Relation(fast, slow)
    IN IF Len(candles) < WarmupRequired THEN [state |-> counted, direction |-> "NONE"]
       ELSE [state |-> [counted EXCEPT !.fast = fast, !.slow = slow, !.relation = relation],
             direction |-> IF relation = 0 \/ state.relation = 0 \/ relation = state.relation
                           THEN "NONE"
                           ELSE IF relation > 0 THEN "LONG" ELSE "EXIT"]

-----------------------------------------------------------------------------
CONSTANTS DayLength, Underlyings, Nothing,
          Horizons, Lateness, MinimumTrades, MinimumSessions, Cost, SessionLength,
          Master,           \* the instruments, in the order of their identities
          Spots,            \* the spot instrument of every underlying
          Policies,         \* the derivatives policy of every underlying
          MaxTime,          \* the last time a quote may carry
          Scenarios         \* what may happen: [feed, outcomes, regimes] are the quotes
                            \* that may arrive ([instrument, ltp, bid, ask, depth]), the
                            \* answers of the risk runner and the calendar's regimes;
                            \* the other fields count how often an event may happen

D == INSTANCE DerivativeSelection
Q == INSTANCE QualificationSeries

VARIABLES now,        \* the exchange time of the last quote
          date,       \* the trading date of the process
          phase,      \* "running", "stopping" or "down"
          late,       \* a delivery passed its context check before the shutdown
          history,    \* the retained quotes of every instrument
          book,       \* what the runtime keeps of every underlying
          closed,     \* SessionTracker.Closed
          revision,
          stopNew,    \* controls.NewExposureBlocked
          pending,    \* a processed quote is not yet marked dirty
          publisher,  \* [step, sequence, mutations, published, target, taken, clean]
          file,       \* the current checkpoint generation, or Nothing
          marks,      \* the revision at each Dirty of this process (history)
          exits,      \* what became of the exits the risk gateway saw (history)
          left        \* what is left of the scenario

memory == <<history, book, closed, revision>>
vars == <<now, date, phase, late, memory, stopNew, pending, publisher, file, marks, exits, left>>

-----------------------------------------------------------------------------
NewCard == [ended |-> FALSE, reasons |-> {}, gaps |-> 0, failures |-> 0, restarts |-> 0,
            quality |-> "COLLECTING", ready |-> 0, score |-> Nothing]

Warming == [market |-> FALSE, future |-> FALSE, universe |-> FALSE, strategy |-> FALSE]

NewBook == [candles |-> NewCandles, ema |-> NewEMA, series |-> Q!NewSeries,
            card |-> NewCard, status |-> Warming]

Ids == {Master[i].id : i \in DOMAIN Master}
Instrument(id) == Master[CHOOSE i \in DOMAIN Master : Master[i].id = id]

Latest(quotes, id) == IF quotes[id] = <<>> THEN Nothing ELSE Last(quotes[id])

(* quoteAtOrBefore: the most recent retained quote no later than a time. *)
QuoteAtOrBefore(quotes, id, at) ==
    LET known == {i \in DOMAIN quotes[id] : quotes[id][i].at <= at}
    IN IF known = {} THEN Nothing ELSE quotes[id][Max(known)]

AddReason(b, reason) == [b EXCEPT !.card.reasons = @ \union {reason}]
Blocked(b, kind) == [b EXCEPT !.series = Q!RecordBlock(@, kind)]

(***************************************************************************)
(* observeOpen: a quote of the open option marks the position, when spot   *)
(* and future have been quoted.                                            *)
(***************************************************************************)
ObserveOpen(b, u, quotes, quote) ==
    LET open   == b.series.open
        spot   == Latest(quotes, Spots[u])
        future == D!ResolveFuture(Master, quote.at, Policies[u])
        seen   == Latest(quotes, future.id)
    IN IF open = Nothing THEN b
       ELSE IF open.option # quote.instrument \/ future = Nothing THEN b
       ELSE IF spot = Nothing \/ seen = Nothing THEN b
       ELSE [b EXCEPT !.series = Q!Observe(@,
               [record |-> open.record, at |-> quote.at, quote |-> quote,
                spot |-> spot.ltp, future |-> seen.ltp]).series]

(* refreshStatus: readiness is only ever gained. *)
Fresh(quotes, id, at, policy) ==
    Latest(quotes, id) # Nothing /\ at - Latest(quotes, id).at <= policy.age

RefreshStatus(b, u, quotes, at) ==
    LET policy    == Policies[u]
        future    == D!ResolveFuture(Master, at, policy)
        market    == Fresh(quotes, Spots[u], at, policy)
        known     == future # Nothing /\ Fresh(quotes, future.id, at, policy)
        selection == D!Resolve(Master, at, Latest(quotes, future.id).ltp, "CALL", policy)
        covered   == /\ selection # Nothing
                     /\ \A o \in selection.universe : Fresh(quotes, o.id, at, policy)
    IN [b EXCEPT !.status = [market   |-> @.market \/ market,
                             future   |-> @.future \/ known,
                             universe |-> @.universe \/ (known /\ covered),
                             strategy |-> b.ema.samples >= WarmupRequired],
                 !.card.ready = IF market /\ ~b.status.market THEN at ELSE @]

-----------------------------------------------------------------------------
(***************************************************************************)
(* processSignal, after the candle that produced the crossover.            *)
(***************************************************************************)
SignalTime(b) == b.ema.lastCandle

(* The option an exit sells is the one that is open. *)
ChosenOption(b, direction, selection) ==
    IF direction = "EXIT" THEN Instrument(b.series.open.option) ELSE selection.option

(* The request handed to the gateway.  ExistingOpenOption is never set. *)
ConnectedRequest(direction, option) ==
    [side |-> IF direction = "EXIT" THEN "SELL" ELSE "BUY", option |-> option.id,
     existing |-> Nothing]

(* The SHADOW half of ReleasedPipeline.Process: what the caller learns     *)
(* when the risk runner would answer outcome.                              *)
PipelineProcess(request, outcome) ==
    IF request.side = "SELL" /\ request.existing # request.option THEN "REFUSED" ELSE outcome

SignalInput(b, option, quote, future, price, risk, quantity) ==
    [signal |-> SignalTime(b), at |-> SignalTime(b), session |-> "NORMAL_TRADING",
     risk |-> risk, option |-> option.id, quote |-> quote, spot |-> price,
     future |-> [at |-> future.at, price |-> future.ltp], quantity |-> quantity]

(* What the gateway's answer makes of the evidence. *)
Evaluated(b, direction, option, quote, future, price, answer) ==
    IF answer \in {"REFUSED", "ERROR"}
    THEN [book |-> Blocked(b, "control"), error |-> TRUE]
    ELSE IF direction = "EXIT"
    THEN [book |-> IF answer # "APPROVED" THEN b
                   ELSE [b EXCEPT !.series = Q!Close(@,
                           [record |-> @.open.record, option |-> @.open.option,
                            at |-> SignalTime(b), quote |-> quote]).series],
          error |-> FALSE]
    ELSE IF answer \notin {"APPROVED", "REJECTED"} THEN [book |-> b, error |-> TRUE]
    ELSE LET recorded == Q!RecordSignal(b.series,
                            SignalInput(b, option, quote, future, price, answer, option.lot))
         IN [book  |-> [b EXCEPT !.series = recorded.series],
             error |-> recorded.answer \notin {"RECORDED", "DUPLICATE"}]

Ready(b) == [book |-> b, error |-> FALSE, sold |-> "NONE"]
Outcome(result, sold) == [book |-> result.book, error |-> result.error, sold |-> sold]

ProcessSignal(b, u, direction, quotes, price, outcome) ==
    LET at        == SignalTime(b)
        policy    == Policies[u]
        future    == D!ResolveFuture(Master, at, policy)
        quoted    == QuoteAtOrBefore(quotes, future.id, at)
        selection == D!Resolve(Master, at, quoted.ltp, "CALL", policy)
        option    == ChosenOption(b, direction, selection)
        bought    == QuoteAtOrBefore(quotes, option.id, at)
        side      == IF direction = "EXIT" THEN "SELL" ELSE "BUY"
        answer    == PipelineProcess(ConnectedRequest(direction, option), outcome)
    IN IF future = Nothing THEN Ready(AddReason(Blocked(b, "mapping"), "MAPPING_FAILURE"))
       ELSE IF quoted = Nothing THEN Ready(Blocked(b, "stale"))
       ELSE IF at - quoted.at > policy.age THEN Ready(Blocked(b, "stale"))
       ELSE IF selection = Nothing THEN Ready(Blocked(b, "mapping"))
       ELSE IF direction = "EXIT" /\ b.series.open = Nothing THEN Ready(b)
       ELSE IF ~D!IsMapped(option, at) THEN Ready(b)
       ELSE IF D!ExecutionPrice(option, bought, side, at, policy) = 0 THEN Ready(b)
       ELSE Outcome(Evaluated(b, direction, option, bought, quoted, price, answer),
                    IF direction = "EXIT" THEN answer ELSE "NONE")

(***************************************************************************)
(* Process: one quote, under the lock.  A refused candle or a signal that  *)
(* is not ready is no error to the caller, who marks the state dirty; an   *)
(* error of the gateway is returned and the state stays unmarked.          *)
(***************************************************************************)
AfterCandle(b, u, quotes, quote, regime, stop, outcome) ==
    LET accepted  == Accept(b.candles, [at |-> quote.at, price |-> quote.ltp])
        candled   == [b EXCEPT !.candles = accepted.series]
        evaluated == EvaluateEMA(b.ema, accepted.series.completed)
        told      == RefreshStatus([candled EXCEPT !.ema = evaluated.state], u, quotes, quote.at)
    IN IF accepted.answer # "OK" THEN Ready(b)
       ELSE IF ~accepted.completed THEN Ready(RefreshStatus(candled, u, quotes, quote.at))
       ELSE IF evaluated.direction = "NONE" THEN Ready(told)
       ELSE IF regime = "CAS" THEN Ready(AddReason(Blocked(told, "cas"), "CAS_RESTRICTION"))
       ELSE IF stop /\ evaluated.direction = "LONG" THEN Ready(Blocked(told, "control"))
       ELSE ProcessSignal(told, u, evaluated.direction, quotes,
                          Last(accepted.series.completed).close, outcome)

Applied(u, quotes, quote, regime, outcome) ==
    LET observed == ObserveOpen(book[u], u, quotes, quote)
    IN IF quote.instrument # Spots[u]
       THEN Ready(RefreshStatus(observed, u, quotes, quote.at))
       ELSE AfterCandle(observed, u, quotes, quote, regime, stopNew, outcome)

Process ==
    \E tick \in left.feed, at \in {now, now + 1}, regime \in left.regimes,
       outcome \in left.outcomes :
        LET quote  == [instrument |-> tick.instrument, at |-> at, ltp |-> tick.ltp,
                       bid |-> tick.bid, ask |-> tick.ask, depth |-> tick.depth]
            id     == tick.instrument
            u      == Instrument(id).underlying
            quotes == [history EXCEPT ![id] = Recent(Append(@, quote), MaximumCandles)]
            result == Applied(u, quotes, quote, regime, outcome)
        IN /\ phase = "running" \/ late
           /\ ~pending
           /\ at <= MaxTime /\ left.quotes > 0
           /\ Latest(history, id) # Nothing => Latest(history, id).at < at
           /\ history' = quotes
           /\ book' = [book EXCEPT ![u] = result.book]
           /\ revision' = revision + 1
           /\ pending' = ~result.error
           /\ late' = FALSE
           /\ now' = at
           /\ exits' = exits \union ({result.sold} \ {"NONE"})
           /\ left' = [left EXCEPT !.quotes = @ - 1]
           /\ UNCHANGED <<date, phase, closed, stopNew, publisher, file, marks>>

(* shadowCheckpointPublisher.Dirty, after the runtime's lock is released. *)
Dirty ==
    /\ pending
    /\ pending' = FALSE
    /\ publisher' = [publisher EXCEPT !.mutations = @ + 1]
    /\ marks' = Append(marks, revision)
    /\ UNCHANGED <<now, date, phase, late, memory, stopNew, file, exits, left>>

(* Quality: a malformed, late or refused observation.  It is not marked.  *)
Quality ==
    \E u \in Underlyings, gap \in BOOLEAN :
        LET counted == [book[u] EXCEPT !.card.failures = @ + 1,
                                       !.card.gaps = IF gap THEN @ + 1 ELSE @]
        IN /\ phase = "running" /\ left.quality > 0
           /\ book' = [book EXCEPT ![u] =
                         IF gap THEN AddReason(counted, "MARKET_DATA_GAP") ELSE counted]
           /\ revision' = revision + 1
           /\ left' = [left EXCEPT !.quality = @ - 1]
           /\ UNCHANGED <<now, date, phase, late, history, closed, stopNew, pending,
                          publisher, file, marks, exits>>

-----------------------------------------------------------------------------
(***************************************************************************)
(* CloseSession, run by the operator's end of day.  The gaps are added     *)
(* before Close refuses a session that has ended; nothing marks it dirty.  *)
(***************************************************************************)
Gapped(b) ==
    LET counted == [b EXCEPT !.card.gaps = @ + b.candles.gaps]
    IN IF b.candles.gaps > 0 THEN AddReason(counted, "MARKET_DATA_GAP") ELSE counted

SessionQuality(reasons) ==
    IF "MAPPING_FAILURE" \in reasons THEN "INVALID"
    ELSE IF reasons \subseteq {"NO_CROSSOVER"} THEN "COMPLETE" ELSE "PARTIAL"

(* The engine starts with the process or is restored with its session, so  *)
(* the opening scorecard is always that of an empty series.                *)
FinalCard(b) ==
    LET score   == Q!Scorecard(b.series)
        reasons == b.card.reasons \union
                      (IF score.signals = 0 THEN {"NO_CROSSOVER"} ELSE {})
    IN [b.card EXCEPT !.ended = TRUE, !.score = score, !.reasons = reasons,
                      !.failures = score.blocks["quality"],
                      !.quality = SessionQuality(reasons)]

CloseSession ==
    LET gapped == [u \in Underlyings |-> Gapped(book[u])]
        final  == [u \in Underlyings |-> [gapped[u] EXCEPT !.card = FinalCard(gapped[u])]]
        ended  == \E u \in Underlyings : book[u].card.ended
        cards  == {[date |-> date, underlying |-> u, card |-> final[u].card] : u \in Underlyings}
    IN /\ phase = "running" /\ left.closes > 0
       /\ book' = IF ended THEN gapped ELSE final
       /\ closed' = IF ended THEN closed ELSE closed \o SetToSeq(cards)
       /\ revision' = IF ended THEN revision ELSE revision + 1
       /\ left' = [left EXCEPT !.closes = @ - 1]
       /\ UNCHANGED <<now, date, phase, late, history, stopNew, pending, publisher, file,
                      marks, exits>>

BlockNewExposure ==
    /\ phase = "running" /\ ~stopNew
    /\ left.blocks > 0
    /\ stopNew' = TRUE
    /\ left' = [left EXCEPT !.blocks = @ - 1]
    /\ UNCHANGED <<now, date, phase, late, memory, pending, publisher, file, marks, exits>>

-----------------------------------------------------------------------------
(***************************************************************************)
(* The publisher: the target, the snapshot (under the runtime's read lock) *)
(* and the store.  Its lock keeps two publications apart.                  *)
(***************************************************************************)
Snapshot == [date |-> date, book |-> book, closed |-> closed, revision |-> revision]

(* Mutant of Target: the snapshot under way is taken to be current. *)
TargetLate(p) == p.mutations
Target(p) == p.target

PublishBegin ==
    /\ publisher.step = "idle"
    /\ left.stores > 0
    /\ \/ phase = "running" /\ publisher.mutations # publisher.published
       \/ phase = "stopping"
    /\ publisher' = [publisher EXCEPT !.step = "snapshot", !.target = publisher.mutations,
                                      !.clean = phase = "stopping"]
    /\ UNCHANGED <<now, date, phase, late, memory, stopNew, pending, file, marks, exits, left>>

PublishSnapshot ==
    /\ publisher.step = "snapshot"
    /\ publisher' = [publisher EXCEPT !.step = "store", !.taken = Snapshot]
    /\ UNCHANGED <<now, date, phase, late, memory, stopNew, pending, file, marks, exits, left>>

PublishStore ==
    /\ publisher.step = "store"
    /\ left.stores > 0
    /\ file' = [sequence |-> publisher.sequence + 1, clean |-> publisher.clean,
                snapshot |-> publisher.taken]
    /\ publisher' = [publisher EXCEPT !.step = "idle", !.sequence = @ + 1, !.taken = Nothing,
                                      !.published = Target(publisher)]
    /\ phase' = IF publisher.clean THEN "down" ELSE phase
    /\ left' = [left EXCEPT !.stores = @ - 1]
    /\ UNCHANGED <<now, date, late, memory, stopNew, pending, marks, exits>>

(* The store answers with an error: the context ends and the application   *)
(* shuts down; a failed clean publication leaves the last generation.      *)
PublishFail ==
    /\ publisher.step = "store"
    /\ left.failures > 0
    /\ publisher' = [publisher EXCEPT !.step = "idle", !.taken = Nothing]
    /\ phase' = IF publisher.clean THEN "down" ELSE "stopping"
    /\ late' \in {late, phase = "running"}
    /\ left' = [left EXCEPT !.failures = @ - 1]
    /\ UNCHANGED <<now, date, memory, stopNew, pending, file, marks, exits>>

(* The application's context ends: a delivery may be under way. *)
Shutdown ==
    /\ phase = "running"
    /\ left.stores > 0
    /\ phase' = "stopping"
    /\ late' \in BOOLEAN
    /\ UNCHANGED <<now, date, memory, stopNew, pending, publisher, file, marks, exits, left>>

(***************************************************************************)
(* composeProductionShadow: a generation of the same trading date (and     *)
(* configuration) is restored, any other only gives the next sequence.     *)
(***************************************************************************)
NewPublisher(sequence) ==
    [step |-> "idle", sequence |-> sequence, mutations |-> 0, published |-> 0,
     target |-> 0, taken |-> Nothing, clean |-> FALSE]

(* Restore: everything but the quotes, and one more restart. *)
RestoredBook(b) == [b EXCEPT !.card.restarts = @ + 1]

Compatible(generation, day) == generation # Nothing /\ generation.snapshot.date = day

Start(day) ==
    /\ date' = day
    /\ phase' = "running"
    /\ late' = FALSE /\ pending' = FALSE
    /\ history' = [i \in Ids |-> <<>>]
    /\ book' = [u \in Underlyings |-> IF Compatible(file, day)
                                      THEN RestoredBook(file.snapshot.book[u]) ELSE NewBook]
    /\ closed' = IF Compatible(file, day) THEN file.snapshot.closed ELSE <<>>
    /\ revision' = IF Compatible(file, day) THEN file.snapshot.revision ELSE 1
    /\ publisher' = NewPublisher(IF file = Nothing THEN 0 ELSE file.sequence)
    /\ marks' = <<>>
    /\ left' = [left EXCEPT !.starts = @ - 1]
    /\ UNCHANGED <<now, stopNew, file, exits>>

(* The process ends at any moment and a new one starts, the same day or    *)
(* the next.                                                               *)
Restart == left.starts > 0 /\ \E day \in {date, date + 1} : Start(day)

Init ==
    /\ now = 0 /\ date = 0 /\ phase = "running" /\ late = FALSE
    /\ history = [i \in Ids |-> <<>>]
    /\ book = [u \in Underlyings |-> NewBook]
    /\ closed = <<>> /\ revision = 1
    /\ stopNew = FALSE /\ pending = FALSE
    /\ publisher = NewPublisher(0)
    /\ file = Nothing /\ marks = <<>> /\ exits = {}
    /\ left \in Scenarios

Next ==
    \/ Process \/ Dirty \/ Quality \/ CloseSession \/ BlockNewExposure
    \/ PublishBegin \/ PublishSnapshot \/ PublishStore \/ PublishFail
    \/ Shutdown \/ Restart

Spec == Init /\ [][Next]_vars

-----------------------------------------------------------------------------
(* A mutation the publisher counts as published is in the stored           *)
(* generation, whatever the stream did while it was being written          *)
(* (app/shadow_runtime.go:95-113).                                         *)
PublishedIsStored ==
    publisher.published > 0 =>
        /\ file # Nothing
        /\ file.snapshot.revision >= marks[publisher.published]

(* Every minute since the first candle is a candle or a counted gap, and   *)
(* the averages belong to the retained candles and lie between their       *)
(* lowest and highest close: also after a restart (candle.go:78-121,       *)
(* ema.go:35-100).                                                         *)
CandlesAccount(b) ==
    LET c == b.candles
        closes == {c.completed[i].close * EMAScale : i \in DOMAIN c.completed}
    IN /\ c.open # NoCandle => c.gaps + c.built = c.open.minute - c.first
       /\ b.ema.samples = Len(c.completed)
       /\ c.completed # <<>> => b.ema.lastCandle = CloseTime(Last(c.completed))
       /\ b.ema.samples >= WarmupRequired =>
             {b.ema.fast, b.ema.slow} \subseteq Min(closes) .. Max(closes)

(* A closed session is reported once for its date, and as complete only    *)
(* when no minute was missed and nothing was blocked by CAS or mapping     *)
(* (session.go:118-178).                                                   *)
ClosedIsHonest ==
    /\ \A i, j \in DOMAIN closed :
          /\ closed[i].date = closed[j].date
          /\ closed[i].underlying = closed[j].underlying
          => i = j
    /\ \A i \in DOMAIN closed :
          LET card == closed[i].card
          IN card.quality = "COMPLETE" =>
               card.gaps = 0 /\ card.score.blocks["cas"] = 0

(* The evidence of the shadow session stays coherent. *)
ShadowInv ==
    /\ PublishedIsStored
    /\ ClosedIsHonest
    /\ \A u \in Underlyings :
          /\ CandlesAccount(book[u])
          /\ LET score == Q!Scorecard(book[u].series)
             IN score.accepted = score.completed + score.open

(* An exit of the open option is judged by risk and not refused on the     *)
(* way.  The code refuses it: runtime.go:298 and phase3.go:137-147 leave   *)
(* ExistingOpenOption empty, which connected.go:95 takes for a mismatch.   *)
ExitReachesRisk == "REFUSED" \notin exits

-----------------------------------------------------------------------------
(***************************************************************************)
(* The checkpoint generations of internal/platform/checkpointfile and the  *)
(* PAPER runtime that publishes them (runtimeCheckpoint of                 *)
(* internal/app/paper_runtime.go); above, a checkpoint is stored in one    *)
(* step.                                                                   *)
(*                                                                         *)
(* A publication is three steps on disk: the current generation is read    *)
(* and compared, the new one is written to a pending directory and renamed *)
(* into place, and CURRENT is renamed to name it.  Any step may fail, and  *)
(* the process may end between them.  A process owns one store, whose      *)
(* lock allows one publication at a time.                                  *)
(***************************************************************************)
CONSTANTS Writers,         \* the processes over the checkpoint root
          Contents,        \* what a snapshot may hold
          Configurations,  \* checksums of the bundles a process may start with
          MaxSequence, MaxFaults  \* bounds

VARIABLES generations,  \* the complete generation directories
          abandoned,      \* how many quarantined or abandoned directories there are
          current,      \* the generation CURRENT names, or Nothing
          writer,       \* of every process
          faults

checkpointVars == <<generations, abandoned, current, writer, faults>>

Down == [step |-> "down", configuration |-> Nothing, sequence |-> 0, value |-> Nothing,
         acknowledged |-> Nothing]

Generation(w, content, clean) ==
    [sequence |-> writer[w].sequence + 1, content |-> content, clean |-> clean,
     configuration |-> writer[w].configuration]

Move(w, step) == writer' = [writer EXCEPT ![w].step = step]

(***************************************************************************)
(* restoreOrInitialize: without a generation the genesis is published; one *)
(* of another configuration refuses the start.                             *)
(***************************************************************************)
StartProcess(w) ==
    \E configuration \in Configurations :
        /\ writer[w].step = "down"
        /\ writer' = [writer EXCEPT ![w] =
             IF current = Nothing
             THEN [Down EXCEPT !.step = "load", !.configuration = configuration,
                     !.value = [sequence |-> 1, content |-> "GENESIS", clean |-> FALSE,
                                configuration |-> configuration]]
             ELSE IF current.configuration = configuration
             THEN [Down EXCEPT !.step = "idle", !.configuration = configuration,
                               !.sequence = current.sequence, !.acknowledged = current]
             ELSE Down]
        /\ UNCHANGED <<generations, abandoned, current, faults>>

(* Checkpoint and the SHADOW publisher: a snapshot at the expected sequence. *)
Publish(w) ==
    \E content \in Contents, clean \in BOOLEAN :
        /\ writer[w].step = "idle"
        /\ writer[w].sequence < MaxSequence
        /\ writer' = [writer EXCEPT ![w].step = "load",
                                    ![w].value = Generation(w, content, clean)]
        /\ UNCHANGED <<generations, abandoned, current, faults>>

Expected(value) ==
    value.sequence = 1 + (IF current = Nothing THEN 0 ELSE current.sequence)

(* The caller learns of a refusal; a starting process does not start. *)
Refused(w) == IF writer[w].acknowledged = Nothing THEN "down" ELSE "idle"

PublishLoad(w) ==
    /\ writer[w].step = "load"
    /\ Move(w, IF ~Expected(writer[w].value) THEN Refused(w)
               ELSE IF writer[w].value \in generations THEN "current" ELSE "write")
    /\ UNCHANGED <<generations, abandoned, current, faults>>

PublishGeneration(w) ==
    /\ writer[w].step = "write"
    /\ generations' = generations \union {writer[w].value}
    /\ Move(w, "current")
    /\ UNCHANGED <<abandoned, current, faults>>

PublishCurrent(w) ==
    /\ writer[w].step = "current"
    /\ current' = writer[w].value
    /\ writer' = [writer EXCEPT ![w].step = "idle", ![w].acknowledged = writer[w].value,
                                ![w].sequence = writer[w].value.sequence]
    /\ UNCHANGED <<generations, abandoned, faults>>

Keeps(w) == writer[w].sequence

(* A step on disk fails: a pending directory is quarantined, a complete    *)
(* generation stays, and the caller keeps its sequence.                    *)
PublishFails(w) ==
    /\ writer[w].step \in {"write", "current"}
    /\ faults < MaxFaults
    /\ faults' = faults + 1
    /\ abandoned' = IF writer[w].step = "write" THEN abandoned + 1 ELSE abandoned
    /\ writer' = [writer EXCEPT ![w].step = Refused(w), ![w].sequence = Keeps(w)]
    /\ UNCHANGED <<generations, current>>

Crash(w) ==
    /\ writer[w].step # "down"
    /\ faults < MaxFaults
    /\ faults' = faults + 1
    /\ abandoned' \in IF writer[w].step = "write" THEN {abandoned, abandoned + 1} ELSE {abandoned}
    /\ writer' = [writer EXCEPT ![w] = Down]
    /\ UNCHANGED <<generations, current>>

CheckpointInit ==
    /\ generations = {} /\ abandoned = 0 /\ current = Nothing /\ faults = 0
    /\ writer = [w \in Writers |-> Down]

CheckpointNext ==
    \E w \in Writers :
        \/ StartProcess(w) \/ Publish(w) \/ PublishLoad(w) \/ PublishGeneration(w)
        \/ PublishCurrent(w) \/ PublishFails(w) \/ Crash(w)

-----------------------------------------------------------------------------
(* CURRENT always names a complete generation, generations are numbered    *)
(* without a gap, and between publications the generation a process was    *)
(* last told of is the one a restart would load, or the failed attempt of  *)
(* its successor is still off CURRENT (store.go:108-163).                  *)
CheckpointInv ==
    /\ current # Nothing => current \in generations
    /\ \A g \in generations : g.sequence > 1 =>
          \E h \in generations : h.sequence = g.sequence - 1
    /\ \A w \in Writers : writer[w].acknowledged # Nothing =>
          /\ writer[w].acknowledged \in generations
          /\ writer[w].step = "idle" => current.sequence = writer[w].sequence
          /\ writer[w].step = "idle" => current = writer[w].acknowledged
=============================================================================
