------------------------------ MODULE MarketLive ------------------------------
(* The live market-data path: LiveService.Accept (normalise, suppress the      *)
(* duplicates, put in order, deliver), its observers (the readiness evaluator,  *)
(* the quality tracker and the latest-quote store), and the readiness snapshot  *)
(* that decides whether trading is permitted, taken while events arrive.        *)
EXTENDS EventOrdering, Sequences

(* The verified market calendar (marketdata/calendar): which days it accepts,   *)
(* the session and the regime at an instant, and the candle windows a trading   *)
(* day must produce.  An instant is a number; a date is the number of its day.  *)

CONSTANTS
    DayLength,   \* instants in a civil day
    Durations    \* length of a candle by interval; 0 for the daily one

DateOf(at) == at \div DayLength

(* calendar.New: what it refuses.  Sessions and regimes are sorted by their     *)
(* open before they are checked, so a schedule holds them in that order.        *)
ValidSpans(spans, date) ==
    /\ \A i \in DOMAIN spans :
        /\ spans[i].open < spans[i].close
        /\ DateOf(spans[i].open) = date
        /\ i > 1 => spans[i].open >= spans[i - 1].close

ValidDay(day, date) ==
    /\ day.status \in {"TRADING", "HOLIDAY"}
    /\ (day.status = "HOLIDAY") <=> (day.sessions = <<>>)
    /\ ValidSpans(day.sessions, date)
    /\ Len(day.regimes) \in {0, 3}
    /\ ValidSpans(day.regimes, date)
    /\ \A i \in DOMAIN day.regimes :
        /\ day.regimes[i].regime = <<"PRE_CAS", "CAS_ACTIVE", "POST_CAS">>[i]
        /\ \E s \in DOMAIN day.sessions :
            /\ day.sessions[s].open <= day.regimes[i].open
            /\ day.regimes[i].close <= day.sessions[s].close

ValidSchedule(schedule) ==
    /\ schedule.from <= schedule.to
    /\ DOMAIN schedule.days = schedule.from .. schedule.to
    /\ \A date \in DOMAIN schedule.days : ValidDay(schedule.days[date], date)

(* Schedule.Day: an error outside the verified range. *)
DayKnown(schedule, date) ==
    /\ schedule.from <= date /\ date <= schedule.to
    /\ date \in DOMAIN schedule.days

Day(schedule, date) == schedule.days[date]

Within(span, at) == span.open <= at /\ at < span.close

(* Schedule.SessionAt: the session that holds the instant, if the day is known  *)
(* and open; the sessions of a day do not overlap.                              *)
SessionsAt(schedule, at) ==
    IF DayKnown(schedule, DateOf(at))
    THEN LET sessions == Day(schedule, DateOf(at)).sessions
         IN  { sessions[i] : i \in { j \in DOMAIN sessions : Within(sessions[j], at) } }
    ELSE {}

(* Schedule.RegimeAt: none outside a session, normal outside a regime window. *)
RegimesAt(schedule, at) ==
    IF SessionsAt(schedule, at) = {}
    THEN {}
    ELSE LET regimes == Day(schedule, DateOf(at)).regimes
             inside  == { j \in DOMAIN regimes : Within(regimes[j], at) }
         IN  IF inside = {} THEN {"NORMAL"} ELSE { regimes[i].regime : i \in inside }

(* Schedule.ExpectedWindows: the daily candle spans the day's sessions; the     *)
(* others tile each session from its open and leave out what does not fit.      *)
ExpectedWindows(schedule, date, interval) ==
    LET sessions == Day(schedule, date).sessions
        d        == Durations[interval]
    IN  IF sessions = <<>>
        THEN {}
        ELSE IF d = 0
        THEN {[open |-> sessions[1].open, close |-> sessions[Len(sessions)].close]}
        ELSE { [open |-> sessions[s].open + k * d, close |-> sessions[s].open + (k + 1) * d] :
                 <<s, k>> \in { p \in (DOMAIN sessions) \X (0 .. DayLength) :
                     sessions[p[1]].open + (p[2] + 1) * d <= sessions[p[1]].close } }

(* readiness.sessionPhase: the reason a closed instant is closed. *)
SessionPhase(schedule, at) ==
    LET sessions == Day(schedule, DateOf(at)).sessions
        ahead    == { i \in DOMAIN sessions : at < sessions[i].open }
    IN  CASE SessionsAt(schedule, at) # {} -> "NONE"
          [] SessionsAt(schedule, at) = {} /\ ahead = {} -> "AFTER_CLOSE"
          [] SessionsAt(schedule, at) = {} /\ 1 \in ahead -> "BEFORE_OPEN"
          [] OTHER -> "BETWEEN_SESSIONS"

-----------------------------------------------------------------------------
CONSTANTS
    Schedules,       \* the calendars that may be loaded
    Instruments,     \* token -> [currency, tick, index]
    Observations,    \* what the provider may send
    Watchlists,      \* sequences of [instrument, kind, interval, required]
    Policy,          \* the freshness policy
    StaleAfter,      \* the tracker's limit
    AllowedLateness,
    MaxTime,         \* bound: the clock
    MaxSkew,         \* bound: how far the exchange's clock runs ahead
    MaxCalls         \* bound: calls of Accept

VARIABLES
    schedule,   \* the calendar
    watchlist,  \* the requirements
    now,        \* the clock
    recent,     \* the deduplicator's window, oldest first
    orderer,    \* [max, mark, buffer]; NoTime is the zero time
    call,       \* the Accept under way: [step, ready]
    calls,      \* calls of Accept so far
    evaluator,  \* [observed, candles, missing, provider]
    tracker,    \* [last, accepted, byQuality]
    latest,     \* the newest quote per instrument
    snapshot,   \* the readiness snapshot under way or finished last
    consumed,   \* what the consumer was given, in order
    lost        \* [event, by]: left the buffer and reached nobody

vars == <<schedule, watchlist, now, recent, orderer, call, calls, evaluator, tracker, latest,
          snapshot, consumed, lost>>

-----------------------------------------------------------------------------
(* Normalisation. *)

(* The price checks of NewQuoteEvent and of validateInstrumentTickAlignment: an *)
(* index carries no tick.  Book levels carry a quantity only with a price.      *)
Aligned(price, instrument) == instrument.index \/ price % instrument.tick = 0

GoodQuote(o, instrument) ==
    /\ o.volume >= 0
    /\ Aligned(o.price, instrument)
    /\ o.bid # 0 => Aligned(o.bid, instrument)
    /\ o.bid = 0 => o.bidQuantity = 0
    /\ o.bidQuantity >= 0

(* A candle lies on its session's grid; a daily one is the whole session. *)
OnGrid(o, session) ==
    /\ session.open <= o.open /\ o.close <= session.close
    /\ IF Durations[o.interval] = 0
       THEN o.open = session.open /\ o.close = session.close
       ELSE (o.open - session.open) % Durations[o.interval] = 0

GoodCandle(o, instrument) ==
    /\ o.open < o.close
    /\ Durations[o.interval] # 0 => o.close - o.open = Durations[o.interval]
    /\ o.volume >= 0
    /\ o.low <= o.price /\ o.price <= o.high
    /\ \A p \in {o.low, o.price, o.high} : Aligned(p, instrument)

Normalizes(s, o) ==
    /\ o.token \in DOMAIN Instruments
    /\ o.currency = Instruments[o.token].currency
    /\ LET lookup   == IF o.kind = "CANDLE" THEN o.open ELSE o.at
           sessions == SessionsAt(s, lookup)
       IN  /\ sessions # {}
           /\ IF o.kind = "QUOTE"
              THEN GoodQuote(o, Instruments[o.token])
              ELSE /\ o.interval \in DOMAIN Durations
                   /\ \A session \in sessions : OnGrid(o, session)
                   /\ GoodCandle(o, Instruments[o.token])

(* The canonical event: its exchange time is a candle's close; its identity is  *)
(* what was observed, the ingestion time left out.                              *)
Event(o, at) ==
    [obs |-> o, at |-> IF o.kind = "CANDLE" THEN o.close ELSE o.at, ingested |-> at]

StreamKey(e) == <<e.obs.token, e.obs.kind, IF e.obs.kind = "CANDLE" THEN e.obs.interval ELSE "">>

-----------------------------------------------------------------------------
(* The deduplicator. *)

First(o) == o \notin Range(recent)

Remember(o) ==
    LET longer == Append(recent, o)
    IN  IF Len(longer) > Capacity THEN Tail(longer) ELSE longer

-----------------------------------------------------------------------------
(* LiveService.Accept, one call at a time (its mutex). *)

CallStart(o) ==
    /\ call.step = "idle" /\ calls < MaxCalls
    /\ o.kind = "QUOTE" => o.at <= now + MaxSkew
    /\ o.kind = "CANDLE" => o.close <= now + MaxSkew
    /\ calls' = calls + 1

Quality(code) == tracker' = [tracker EXCEPT !.byQuality[code] = @ + 1]

AcceptMalformed(o) ==
    /\ CallStart(o) /\ ~Normalizes(schedule, o)
    /\ Quality("MALFORMED")
    /\ UNCHANGED <<schedule, watchlist, now, recent, orderer, call, evaluator, latest, snapshot,
                   consumed, lost>>

AcceptDuplicate(o) ==
    /\ CallStart(o) /\ Normalizes(schedule, o) /\ ~First(o)
    /\ Quality("DUPLICATE")
    /\ UNCHANGED <<schedule, watchlist, now, recent, orderer, call, evaluator, latest, snapshot,
                   consumed, lost>>

(* The identity is remembered before Push can refuse it for want of room, so    *)
(* the same observation sent again is suppressed as a duplicate.                *)
AcceptPush(o) ==
    LET e == Event(o, now)
        p == Push(orderer, e)
    IN  /\ CallStart(o) /\ Normalizes(schedule, o) /\ First(o)
        /\ recent'  = Remember(o)
        /\ orderer' = p.orderer
        /\ CASE p.disposition = "CAPACITY"  -> Quality("MISSING")
             [] p.disposition = "DUPLICATE" -> Quality("DUPLICATE")
             [] p.disposition = "LATE"      -> Quality("LATE")
             [] OTHER                       -> UNCHANGED tracker
        /\ lost' = lost \union [event : p.dropped, by : {"capacity"}]
        /\ call' = IF p.ready = <<>> THEN call ELSE [step |-> "deliver", ready |-> p.ready]
        /\ UNCHANGED <<schedule, watchlist, now, evaluator, latest, snapshot, consumed>>

(* Evaluator.Accepted. *)
Newer(e, old) == e.at > old.at \/ (e.at = old.at /\ e.ingested > old.ingested)

Observed(e) == [at |-> e.at, ingested |-> e.ingested]

EvaluatorAccepted(e) ==
    LET key == StreamKey(e)
    IN  [observed |-> IF key \notin DOMAIN evaluator.observed
                         \/ Newer(e, evaluator.observed[key])
                      THEN (key :> Observed(e)) @@ evaluator.observed
                      ELSE evaluator.observed,
         candles  |-> IF e.obs.kind = "CANDLE"
                      THEN (<<key, e.at>> :> Observed(e)) @@ evaluator.candles
                      ELSE evaluator.candles,
         missing  |-> { m \in evaluator.missing :
                          ~(e.obs.kind = "CANDLE" /\ m.key = key /\ m.close = e.at) },
         provider |-> "UP"]

(* Tracker.Accepted takes the last event, latest.Store.Accepted the newest.     *)
TrackerAccepted(e) ==
    [tracker EXCEPT !.accepted = @ + 1, !.last = (e.obs.token :> e.at) @@ @]

LatestAccepted(e) ==
    IF /\ e.obs.kind = "QUOTE"
       /\ \E i \in DOMAIN watchlist :
            watchlist[i].instrument = e.obs.token /\ watchlist[i].kind = "QUOTE"
       /\ e.obs.token \in DOMAIN latest => latest[e.obs.token].at <= e.at
    THEN (e.obs.token :> e) @@ latest
    ELSE latest

(* One ready event goes to the observers, then to the consumer. *)
DeliverTo(ok) ==
    LET e == Head(call.ready)
    IN  /\ call.step = "deliver"
        /\ evaluator' = EvaluatorAccepted(e)
        /\ tracker'   = TrackerAccepted(e)
        /\ latest'    = LatestAccepted(e)
        /\ IF ok
           THEN /\ consumed' = Append(consumed, e)
                /\ lost' = lost
                /\ call' = IF Len(call.ready) = 1
                           THEN [step |-> "idle", ready |-> <<>>]
                           ELSE [call EXCEPT !.ready = Tail(@)]
           ELSE /\ lost' = lost \union [event : Range(call.ready), by : {"consumer"}]
                /\ consumed' = consumed
                /\ call' = [step |-> "idle", ready |-> <<>>]
        /\ UNCHANGED <<schedule, watchlist, now, recent, orderer, calls, snapshot>>

Deliver == DeliverTo(TRUE)

(* The consumer fails: the call returns, and the ready events after it are gone. *)
DeliverFails == DeliverTo(FALSE)

-----------------------------------------------------------------------------
(* The provider's availability and the missing windows, set by other callers:   *)
(* outside the tests the provider is only ever set unavailable, on a stream's   *)
(* end, and an accepted event makes it available again.                         *)

SetProviderUnavailable ==
    /\ evaluator.provider # "DOWN"
    /\ evaluator' = [evaluator EXCEPT !.provider = "DOWN"]
    /\ UNCHANGED <<schedule, watchlist, now, recent, orderer, call, calls, tracker, latest, snapshot,
                   consumed, lost>>

CandleKeys ==
    { <<watchlist[i].instrument, "CANDLE", watchlist[i].interval>> :
        i \in { j \in DOMAIN watchlist : watchlist[j].kind = "CANDLE" } }

MarkMissing(key, window) ==
    /\ evaluator.missing = {}
    /\ evaluator' = [evaluator EXCEPT !.missing =
            @ \union {[key |-> key, open |-> window.open, close |-> window.close]}]
    /\ UNCHANGED <<schedule, watchlist, now, recent, orderer, call, calls, tracker, latest, snapshot,
                   consumed, lost>>

Tick ==
    /\ now < MaxTime
    /\ now' = now + 1
    /\ UNCHANGED <<schedule, watchlist, recent, orderer, call, calls, evaluator, tracker, latest,
                   snapshot, consumed, lost>>

-----------------------------------------------------------------------------
(* Evaluator.Snapshot: the clock is read once; each requirement reads the       *)
(* provider's flag and then, in a second critical section, the events.  It      *)
(* changes nothing, so one snapshot per behaviour, at any moment, is enough.    *)

Diagnostic(state, reason) == [state |-> state, reason |-> reason]

(* evaluateRequirement up to the second read; "" when that read decides.        *)
ByProviderAndDay(at) ==
    IF evaluator.provider = "DOWN" THEN Diagnostic("UNKNOWN", "PROVIDER_UNAVAILABLE")
    ELSE IF ~DayKnown(schedule, DateOf(at)) THEN Diagnostic("UNKNOWN", "CALENDAR_OUT_OF_RANGE")
    ELSE IF Day(schedule, DateOf(at)).status = "HOLIDAY"
    THEN Diagnostic("SESSION_CLOSED", "HOLIDAY")
    ELSE Diagnostic("", "NONE")

(* Mutant of EvaluateAges: only the ingestion age is tested, so a stream that   *)
(* replays old quotes looks fresh.                                              *)
EvaluateIngestionAge(at, o) ==
    IF at - o.ingested > Policy.maxIngestionAge
    THEN Diagnostic("STALE", "INGESTION_TIME_STALE")
    ELSE Diagnostic("READY", "NONE")

EvaluateAges(at, o) ==
    IF at - o.at < -Policy.skew \/ at - o.ingested < -Policy.skew \/ o.ingested - o.at < -Policy.skew
    THEN Diagnostic("STALE", "CLOCK_SKEW")
    ELSE IF at - o.at > Policy.maxExchangeAge THEN Diagnostic("STALE", "EXCHANGE_TIME_STALE")
    ELSE IF at - o.ingested > Policy.maxIngestionAge THEN Diagnostic("STALE", "INGESTION_TIME_STALE")
    ELSE IF o.ingested - o.at > Policy.maxTransportLag
    THEN Diagnostic("STALE", "TRANSPORT_LAG_EXCEEDED")
    ELSE Diagnostic("READY", "NONE")

QuoteDiagnostic(at, key) ==
    LET sessions == SessionsAt(schedule, at)
    IN  IF sessions = {} THEN Diagnostic("SESSION_CLOSED", SessionPhase(schedule, at))
        ELSE IF \E s \in sessions : at < s.open + Policy.warmup
        THEN Diagnostic("WARMING_UP", "WARMUP_ACTIVE")
        ELSE IF key \notin DOMAIN evaluator.observed THEN Diagnostic("NO_DATA", "NO_ACCEPTED_EVENT")
        ELSE EvaluateAges(at, evaluator.observed[key])

(* The newest window past its grace is the one that must have arrived, and no   *)
(* earlier window of the day may be marked missing.                             *)
CandleDiagnostic(at, key) ==
    LET day      == Day(schedule, DateOf(at))
        active   == SessionsAt(schedule, at) # {}
        closed   == { w \in ExpectedWindows(schedule, DateOf(at), key[3]) :
                        w.close + Policy.grace <= at }
        expected == CHOOSE w \in closed : \A v \in closed : v.close <= w.close
        gaps     == { m \in evaluator.missing :
                        /\ m.key = key
                        /\ m.open >= day.sessions[1].open
                        /\ m.close <= expected.close }
        candle   == <<key, expected.close>>
    IN  IF closed = {}
        THEN IF active THEN Diagnostic("WARMING_UP", "WARMUP_ACTIVE")
                       ELSE Diagnostic("SESSION_CLOSED", SessionPhase(schedule, at))
        ELSE IF candle \notin DOMAIN evaluator.candles \/ gaps # {}
        THEN Diagnostic("INCOMPLETE", "MISSING_CANDLE")
        ELSE IF evaluator.candles[candle].ingested - evaluator.candles[candle].at > Policy.grace
        THEN Diagnostic("STALE", "TRANSPORT_LAG_EXCEEDED")
        ELSE IF ~active THEN Diagnostic("SESSION_CLOSED", SessionPhase(schedule, at))
        ELSE Diagnostic("READY", "NONE")

RequirementKey(r) == <<r.instrument, r.kind, r.interval>>

StatePriority ==
    [UNKNOWN |-> 70, INCOMPLETE |-> 60, NO_DATA |-> 50, STALE |-> 40, WARMING_UP |-> 30,
     READY |-> 20, SESSION_CLOSED |-> 10]

(* aggregateScope over the required diagnostics: the worst state, and unknown   *)
(* when nothing is required.                                                    *)
AggregateScope(diagnostics) ==
    LET required == { i \in DOMAIN diagnostics : watchlist[i].required }
        states   == { diagnostics[i].state : i \in required }
    IN  IF required = {}
        THEN "UNKNOWN"
        ELSE CHOOSE s \in states : \A t \in states : StatePriority[t] <= StatePriority[s]

SnapshotStart ==
    /\ snapshot.step = "idle"
    /\ snapshot' = [step |-> "provider", at |-> now, diagnostics |-> <<>>,
                    state |-> ""]
    /\ UNCHANGED <<schedule, watchlist, now, recent, orderer, call, calls, evaluator, tracker, latest,
                   consumed, lost>>

Conclude(diagnostic) ==
    LET all == Append(snapshot.diagnostics, diagnostic)
    IN  snapshot' =
            [snapshot EXCEPT !.diagnostics = all,
                             !.step  = IF Len(all) = Len(watchlist) THEN "done" ELSE "provider",
                             !.state = IF Len(all) = Len(watchlist) THEN AggregateScope(all) ELSE ""]

SnapshotReadProvider ==
    /\ snapshot.step = "provider"
    /\ LET d == ByProviderAndDay(snapshot.at)
       IN  IF d.state # "" THEN Conclude(d)
           ELSE snapshot' = [snapshot EXCEPT !.step = "events"]
    /\ UNCHANGED <<schedule, watchlist, now, recent, orderer, call, calls, evaluator, tracker, latest,
                   consumed, lost>>

SnapshotReadEvents ==
    /\ snapshot.step = "events"
    /\ LET key == RequirementKey(watchlist[Len(snapshot.diagnostics) + 1])
       IN  Conclude(IF key[2] = "QUOTE" THEN QuoteDiagnostic(snapshot.at, key)
                                        ELSE CandleDiagnostic(snapshot.at, key))
    /\ UNCHANGED <<schedule, watchlist, now, recent, orderer, call, calls, evaluator, tracker, latest,
                   consumed, lost>>

TradingPermitted == snapshot.step = "done" /\ snapshot.state = "READY"

(* Tracker.State. *)
TrackerState(token) ==
    IF SessionsAt(schedule, now) = {} THEN "SESSION_CLOSED"
    ELSE IF token \notin DOMAIN tracker.last THEN "NO_DATA"
    ELSE IF now - tracker.last[token] > StaleAfter THEN "DATA_STALE" ELSE "CURRENT"

-----------------------------------------------------------------------------
(* NewWatchlist: no requirement twice, an interval just for a candle, at least  *)
(* one that is required.                                                        *)
ValidWatchlist(w) ==
    /\ w # <<>>
    /\ \A i \in DOMAIN w :
        /\ IF w[i].kind = "QUOTE" THEN w[i].interval = "" ELSE w[i].interval \in DOMAIN Durations
        /\ \A j \in DOMAIN w : RequirementKey(w[i]) = RequirementKey(w[j]) => i = j
    /\ \E i \in DOMAIN w : w[i].required

(* FreshnessPolicy.Validate. *)
ValidPolicy ==
    /\ Policy.skew >= 0 /\ Policy.warmup >= 0 /\ Policy.grace > 0
    /\ Policy.maxExchangeAge > 0 /\ Policy.maxIngestionAge > 0 /\ Policy.maxTransportLag > 0

QualityCodes == {"MALFORMED", "DUPLICATE", "LATE", "MISSING"}

LiveInit ==
    /\ schedule \in { s \in Schedules : ValidSchedule(s) }
    /\ watchlist \in { w \in Watchlists : ValidWatchlist(w) } /\ ValidPolicy
    /\ now = 0 /\ calls = 0 /\ recent = <<>>
    /\ orderer   = NewOrderer(AllowedLateness)
    /\ call      = [step |-> "idle", ready |-> <<>>]
    /\ evaluator = [observed |-> <<>>, candles |-> <<>>, missing |-> {}, provider |-> ""]
    /\ tracker   = [last |-> <<>>, accepted |-> 0, byQuality |-> [c \in QualityCodes |-> 0]]
    /\ latest    = <<>>
    /\ snapshot  = [step |-> "idle", at |-> 0, diagnostics |-> <<>>, state |-> ""]
    /\ consumed  = <<>> /\ lost = {}

LiveNext ==
    \/ \E o \in Observations : AcceptMalformed(o) \/ AcceptDuplicate(o) \/ AcceptPush(o)
    \/ Deliver \/ DeliverFails
    \/ SetProviderUnavailable
    \/ \E key \in CandleKeys :
         DayKnown(schedule, 0) /\ \E w \in ExpectedWindows(schedule, 0, key[3]) : MarkMissing(key, w)
    \/ Tick
    \/ SnapshotStart \/ SnapshotReadProvider \/ SnapshotReadEvents

LiveSpec == LiveInit /\ [][LiveNext]_vars

-----------------------------------------------------------------------------
(* The consumer is given each event once and in the canonical order, however    *)
(* late, often or out of order the provider sends it, although the duplicate    *)
(* window forgets (live.go Accept, ordering.go Push).                           *)
ConsumedInOrder ==
    \A i, j \in DOMAIN consumed : i < j => EventLess(consumed[i], consumed[j])

(* An observation that was let in is waiting, consumed, counted as rejected, or *)
(* among those a failing consumer left behind.  The events a new maximum        *)
(* released are never dropped by the capacity test that follows: whenever it    *)
(* released one there is room (ordering.go:48-57, live.go:54,66).               *)
InFlight == orderer.buffer \union Range(call.ready)

NothingVanishes ==
    /\ \A l \in lost : l.by = "consumer" /\ l.event \notin Range(consumed)
    /\ InFlight \cap Range(consumed) = {}
    /\ calls = tracker.byQuality["MALFORMED"] + tracker.byQuality["DUPLICATE"]
                + tracker.byQuality["LATE"] + tracker.byQuality["MISSING"] + Len(consumed) + Cardinality(InFlight)
                + Cardinality(lost)

(* The three observers agree on the newest event of a stream, although one of   *)
(* them takes the last event without comparing it (tracker.go:47).              *)
ObserversAgree ==
    \A token \in DOMAIN latest :
        LET key == <<token, "QUOTE", "">>
        IN  /\ key \in DOMAIN evaluator.observed
            /\ evaluator.observed[key].at = latest[token].at
            /\ latest[token].at <= tracker.last[token]

(* When a snapshot permits trading, every required quote was accepted with an   *)
(* exchange time no older than the policy allows at the snapshot's own clock,   *)
(* the instant it was judged at lies in a session, and the quality tracker,     *)
(* asked at that instant with a limit no tighter, finds it current as well      *)
(* (evaluator.go:152, tracker.go:56).                                           *)
PermittedIsFresh ==
    TradingPermitted =>
        /\ SessionsAt(schedule, snapshot.at) # {}
        /\ \A i \in DOMAIN watchlist :
            (watchlist[i].required /\ watchlist[i].kind = "QUOTE") =>
                \E e \in Range(consumed) \union { l.event : l \in lost } :
                    /\ e.obs.token = watchlist[i].instrument
                    /\ snapshot.at - e.at <= Policy.maxExchangeAge
                    /\ e.ingested - e.at <= Policy.maxTransportLag
        /\ (snapshot.at = now /\ StaleAfter >= Policy.maxExchangeAge) =>
            \A i \in DOMAIN watchlist :
                (watchlist[i].required /\ watchlist[i].kind = "QUOTE") =>
                    TrackerState(watchlist[i].instrument) = "CURRENT"

(* The calendar tiles a session: an instant has at most one session and one     *)
(* regime, and the windows of an interval lie in one session each.              *)
CalendarSound ==
    \A at \in 0 .. MaxTime :
        /\ Cardinality(SessionsAt(schedule, at)) <= 1
        /\ Cardinality(RegimesAt(schedule, at)) = Cardinality(SessionsAt(schedule, at))

(* What the live path keeps: order, account, agreement and calendar. *)
MarketLiveInv == ConsumedInOrder /\ NothingVanishes /\ ObserversAgree /\ CalendarSound
=============================================================================
