------------------------- MODULE QualificationEngine -------------------------
(***************************************************************************)
(* internal/qualification/engine.go: the engine that turns SHADOW signals, *)
(* observations and exits into the evidence of a strategy, one series per  *)
(* underlying.  Each method holds the engine's lock, so each is an action; *)
(* callers offer evidence in any order, repeat it and contradict it.  The  *)
(* owner persists snapshots, and a crash restores the persisted one.       *)
(***************************************************************************)
EXTENDS QualificationSeries

CONSTANTS Underlyings,  \* NIFTY and BANKNIFTY
          Inputs,       \* the signals offered: what WithReleasedRisk returns
          Quotes,       \* the option quotes offered
          Times,        \* the times of observations and exits
          MaxOffers,    \* bound: calls in a behaviour
          MaxCrashes    \* bound: restarts

VARIABLES series, file, offers, crashes
engineVars == <<series, file, offers, crashes>>

EngineInit ==
    /\ series = [u \in Underlyings |-> NewSeries]
    /\ file = series
    /\ offers = 0
    /\ crashes = 0

(* The series of one underlying takes what an operation answered.  A call  *)
(* that changed nothing is not a step.                                     *)
Take(u, result) ==
    /\ offers < MaxOffers
    /\ result.series # series[u]
    /\ series' = [series EXCEPT ![u] = result.series]
    /\ offers' = offers + 1
    /\ UNCHANGED <<file, crashes>>

EngineRecordSignal == \E u \in Underlyings, input \in Inputs : Take(u, RecordSignal(series[u], input))

EngineObserve ==
    \E u \in Underlyings, quote \in Quotes, at \in Times :
        /\ series[u].open # Nothing
        /\ Take(u, Observe(series[u], [record |-> series[u].open.record, at |-> at,
                                       quote |-> quote]))

EngineMark ==
    \E u \in Underlyings, h \in Horizons, at \in Times, i \in 1 .. MaxOffers :
        /\ i \in DOMAIN series[u].records
        /\ Take(u, MarkUnavailable(series[u], Identity(series[u].records[i]), h, at,
                                   "SESSION_ENDED"))

EngineClose ==
    \E u \in Underlyings, quote \in Quotes, at \in Times :
        /\ series[u].open # Nothing
        /\ Take(u, Close(series[u], [record |-> series[u].open.record,
                                     option |-> series[u].open.option,
                                     at |-> at, quote |-> quote]))

EngineBlock ==
    \E u \in Underlyings, k \in {"control"} :
        Take(u, Answer(RecordBlock(series[u], k), "BLOCKED"))

EngineReview ==
    \E u \in Underlyings, approved \in BOOLEAN : Take(u, ApplyReview(series[u], approved))

Persist ==
    /\ crashes < MaxCrashes
    /\ file # series
    /\ file' = series
    /\ UNCHANGED <<series, offers, crashes>>

CrashRestore ==
    /\ crashes < MaxCrashes
    /\ crashes' = crashes + 1
    /\ series' = file
    /\ UNCHANGED <<file, offers>>

EngineNext ==
    \/ EngineRecordSignal \/ EngineObserve \/ EngineMark \/ EngineClose
    \/ EngineBlock \/ EngineReview \/ Persist \/ CrashRestore

EngineSpec == EngineInit /\ [][EngineNext]_engineVars

-----------------------------------------------------------------------------
(* Every accepted signal is exactly one completed trade or the open       *)
(* position, and no signal is recorded twice.                             *)
AcceptedAreAccounted(s) ==
    LET card == Scorecard(s)
    IN /\ card.accepted = card.completed + card.open
       /\ card.wins + card.losses + card.flat = card.completed
       /\ \A i, j \in DOMAIN s.records :
             Identity(s.records[i]) = Identity(s.records[j]) => i = j
       /\ \A i \in DOMAIN s.trades : \E j \in DOMAIN s.records :
             /\ Identity(s.records[j]) = s.trades[i].record
             /\ s.records[j].risk = "APPROVED"
             /\ s.records[j].entry = s.trades[i].entry

(* A trade ends after it began, and its result lies within the excursions *)
(* it reports; the drawdown covers any overall loss.                      *)
ExcursionsEnclose(s) ==
    /\ \A i \in DOMAIN s.trades :
         LET t == s.trades[i]
         IN /\ t.exitAt > t.entryAt
            /\ t.mae <= t.exit - t.entry /\ t.exit - t.entry <= t.mfe
    /\ Scorecard(s).drawdown >= 0
    /\ Scorecard(s).drawdown >= 0 - Scorecard(s).gross

(* A horizon counts as measured only from an observation made when it was *)
(* due and no later than the policy allows.                               *)
HorizonsAreTimely(s) ==
    \A i \in DOMAIN s.records, h \in Horizons :
        LET r == s.records[i]
            m == r.horizons[h]
        IN m # Nothing => (m.available => m.at \in (r.at + h) .. (r.at + h + Lateness))

(* A review's verdict stands only on a sufficient sample. *)
ReviewNeedsSample(s) ==
    s.state \in {"QUALIFIED", "REJECTED"} =>
        /\ QualificationState(s.trades) = "ELIGIBLE_FOR_REVIEW"
        /\ s.reviews # <<>>
        /\ Last(s.reviews) <=> s.state = "QUALIFIED"

(* However evidence is repeated, contradicted, reordered or lost with a    *)
(* crash, the series stays coherent (engine.go:36-251, 290-311, 389-482).  *)
QualificationInv ==
    \A u \in Underlyings :
        /\ AcceptedAreAccounted(series[u])
        /\ ExcursionsEnclose(series[u])
        /\ HorizonsAreTimely(series[u])
        /\ ReviewNeedsSample(series[u])
=============================================================================
