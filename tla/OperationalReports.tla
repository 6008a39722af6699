------------------------- MODULE OperationalReports -------------------------
(***************************************************************************)
(* The operations observer and the records it keeps: the end-of-day        *)
(* accumulator (counts, financial series, summaries) and the closing       *)
(* auction (CAS) evidence.  Observe runs in the goroutine that emitted the *)
(* event; the observer's lock covers the duplicate table and the evidence  *)
(* map, the accumulator has a lock of its own, and nothing is held from    *)
(* one to the next, so concurrent Observe calls interleave between them.   *)
(* Prices and reasons are abstracted to the identity of the event that     *)
(* supplied them.                                                          *)
(***************************************************************************)
EXTENDS Integers, Sequences, FiniteSets, SequencesExt, FiniteSetsExt

CONSTANTS
  Nothing,
  Observers,         \* goroutines that emit events
  Feeds,             \* sequences of events the program may emit
  SeenLimit,         \* the observer's duplicate table: 4096 in the code
  EvidenceCapacity,  \* cas.NewStore's capacity
  SummaryCapacity    \* reporting.NewAccumulator's capacity

VARIABLES
  feed, observer,            \* what is still to be emitted; each call's place
  seen, seenOrder,
  counts,                    \* day -> kind -> Nat
  financial, series,         \* day -> the newest valuation; its drawdown series
  summaries,                 \* closed days, oldest first
  evidence,                  \* subject -> the CAS record being built, or Nothing
  records,                   \* the CAS store
  published,                 \* events handed to the dispatcher, in order
  counted, valued            \* history: events counted; totals observed, by day

vars == <<feed, observer, seen, seenOrder, counts, financial, series, summaries,
          evidence, records, published, counted, valued>>

AllEvents == UNION {ToSet(f) : f \in Feeds}
Days == {e.day : e \in AllEvents}
Subjects == {<<e.day, e.subject>> : e \in {x \in AllEvents : x.subject # Nothing}}
Subject(e) == <<e.day, e.subject>>

(* Only these kinds are counted; both mismatch kinds share one counter.    *)
Counters == {"STRATEGY_ACTIVATED", "PROPOSAL_GENERATED", "RISK_APPROVED", "RISK_MODIFIED",
             "RISK_REJECTED", "PAPER_EXECUTION_SUBMITTED", "SHADOW_TRADE",
             "PAPER_PARTIAL_FILL", "PAPER_FILL", "KILL_SWITCH_ACTIVATED",
             "CIRCUIT_BREAKER_ACTIVATED", "RECONCILIATION_MISMATCH", "EXECUTION_UNKNOWN",
             "CAS_RESTRICTED", "READINESS_LOST", "CAS_EVIDENCE"}
CounterOf(kind) == IF kind = "BROKER_ONLY_EXPOSURE" THEN "RECONCILIATION_MISMATCH" ELSE kind

NoFinancial == [status |-> "", total |-> Nothing, drawdown |-> Nothing]
NoSeries == [observed |-> FALSE, hasComplete |-> FALSE, complete |-> FALSE,
             peak |-> 0, maxDrawdown |-> 0]

Fields == {"PRE_CAS", "LTP", "ELIGIBILITY", "BLOCKED", "PROPOSAL", "RISK", "SHADOW",
           "PAPER", "READINESS", "BEFORE", "AFTER"}

Idle == [pc |-> "idle", event |-> Nothing]

Init ==
  /\ feed \in Feeds
  /\ observer = [o \in Observers |-> Idle]
  /\ seen = {} /\ seenOrder = <<>>
  /\ counts = [d \in Days |-> [c \in Counters |-> 0]]
  /\ financial = [d \in Days |-> NoFinancial]
  /\ series = [d \in Days |-> NoSeries]
  /\ summaries = <<>>
  /\ evidence = [s \in Subjects |-> Nothing]
  /\ records = <<>>
  /\ published = <<>>
  /\ counted = {} /\ valued = [d \in Days |-> <<>>]

-----------------------------------------------------------------------------
(* Observer.Observe *)

IsSeen(e) == e.id \in seen

(* The duplicate table is filled under the observer's lock; a duplicate is *)
(* only passed on to the dispatcher.                                       *)
Observe(o) ==
  LET e == Head(feed)
      full == Len(seenOrder) = SeenLimit
  IN  /\ observer[o].pc = "idle" /\ feed # <<>>
      /\ feed' = Tail(feed)
      /\ IF IsSeen(e)
         THEN /\ observer' = [observer EXCEPT ![o] = [pc |-> "publish", event |-> e]]
              /\ UNCHANGED <<seen, seenOrder>>
         ELSE /\ observer' = [observer EXCEPT ![o] = [pc |-> "count", event |-> e]]
              /\ seen' = (seen \cup {e.id}) \ (IF full THEN {Head(seenOrder)} ELSE {})
              /\ seenOrder' = Append(IF full THEN Tail(seenOrder) ELSE seenOrder, e.id)
      /\ UNCHANGED <<counts, financial, series, summaries, evidence, records, published,
                     counted, valued>>

Go(o, pc) == observer' = [observer EXCEPT ![o].pc = pc]

(* Accumulator.Observe *)
Count(o) ==
  LET e == observer[o].event
      c == CounterOf(e.kind)
  IN  /\ observer[o].pc = "count"
      /\ counts' = IF c \in Counters THEN [counts EXCEPT ![e.day][c] = @ + 1] ELSE counts
      /\ counted' = counted \cup {e}
      /\ Go(o, "value")
      /\ UNCHANGED <<feed, seen, seenOrder, financial, series, summaries, evidence, records,
                     published, valued>>

(* Accumulator.UpdateFinancial: the drawdown is known only while every     *)
(* valuation of the day was COMPLETE.                                      *)
IsComplete(e) == e.status = "COMPLETE" /\ e.total # Nothing

Extend(s, e) ==
  LET t == IF s.observed THEN s ELSE [s EXCEPT !.observed = TRUE, !.complete = TRUE]
      peak == IF e.total > t.peak THEN e.total ELSE t.peak
  IN  CASE ~IsComplete(e) -> [t EXCEPT !.complete = FALSE]
        [] ~t.hasComplete -> [t EXCEPT !.hasComplete = TRUE, !.peak = e.total]
        [] t.complete -> [t EXCEPT !.peak = peak,
                                   !.maxDrawdown = Max({t.maxDrawdown, peak - e.total})]
        [] OTHER -> t

UpdateFinancial(o) ==
  LET e == observer[o].event
      s == Extend(series[e.day], e)
  IN  /\ observer[o].pc = "value"
      /\ IF e.category = "VALUATION"
         THEN /\ series' = [series EXCEPT ![e.day] = s]
              /\ financial' = [financial EXCEPT ![e.day] =
                   [status |-> e.status, total |-> e.total,
                    drawdown |-> IF s.hasComplete /\ s.complete THEN s.maxDrawdown ELSE Nothing]]
              /\ valued' = [valued EXCEPT ![e.day] = Append(@, e)]
         ELSE UNCHANGED <<series, financial, valued>>
      /\ Go(o, "close")
      /\ UNCHANGED <<feed, seen, seenOrder, counts, summaries, evidence, records, published,
                     counted>>

(* NewSummary: an absent valuation is UNAVAILABLE, a COMPLETE one must     *)
(* carry its total, and no other status keeps one.                         *)
ValidFinancial(f) ==
  /\ f.status \in {"", "COMPLETE", "PARTIAL", "STALE", "UNAVAILABLE"}
  /\ f.status = "COMPLETE" => f.total # Nothing
NewSummary(d) ==
  LET f == financial[d]
  IN  [day |-> d, counts |-> counts[d], financial |->
        [status |-> IF f.status = "" THEN "UNAVAILABLE" ELSE f.status,
         total |-> IF f.status = "COMPLETE" THEN f.total ELSE Nothing,
         drawdown |-> f.drawdown]]

IsClosed(d) == \E k \in DOMAIN summaries : summaries[k].day = d

(* Accumulator.Close and the rewriting of the end-of-day event: it carries *)
(* the summary's figures, so its checksum is no longer that of the event   *)
(* the program emitted.                                                    *)
Close(o) ==
  LET e == observer[o].event
      full == Len(summaries) = SummaryCapacity
  IN  /\ observer[o].pc = "close"
      /\ IF e.kind = "END_OF_DAY_SUMMARY" /\ (IsClosed(e.day) \/ ValidFinancial(financial[e.day]))
         THEN /\ summaries' = IF IsClosed(e.day) THEN summaries
                              ELSE Append(IF full THEN Tail(summaries) ELSE summaries,
                                          NewSummary(e.day))
              /\ observer' = [observer EXCEPT ![o].pc = "capture", ![o].event.checksum = "summary"]
         ELSE Go(o, "capture") /\ UNCHANGED summaries
      /\ UNCHANGED <<feed, seen, seenOrder, counts, financial, series, evidence, records,
                     published, counted, valued>>

-----------------------------------------------------------------------------
(* CAS evidence *)

NewEvidence(s) == [subject |-> s, regime |-> "", field |-> [f \in Fields |-> Nothing]]

(* The field an event's kind fills in.                                     *)
FieldOf(kind) ==
  CASE kind \in {"PRE_CAS", "CAS_ACTIVE"} -> "ELIGIBILITY"
    [] kind \in {"CAS_RESTRICTED", "STRATEGY_RESTRICTED"} -> "BLOCKED"
    [] kind = "PROPOSAL_GENERATED" -> "PROPOSAL"
    [] kind \in {"RISK_APPROVED", "RISK_MODIFIED", "RISK_REJECTED"} -> "RISK"
    [] kind = "SHADOW_TRADE" -> "SHADOW"
    [] kind \in {"PAPER_EXECUTION_SUBMITTED", "PAPER_FILL", "PAPER_PARTIAL_FILL"} -> "PAPER"
    [] kind \in {"READINESS_LOST", "READINESS_RESTORED"} -> "READINESS"
    [] OTHER -> Nothing

Regimes == {"PRE_CAS", "CAS_ACTIVE", "POST_CAS"}

WithPrice(r, e) ==
  IF ~e.priced THEN r
  ELSE IF e.kind = "PRE_CAS" THEN [r EXCEPT !.field["LTP"] = e.id, !.field["PRE_CAS"] = e.id]
  ELSE [r EXCEPT !.field["LTP"] = e.id]

WithEvent(r, e) ==
  LET q == WithPrice(r, e)
      regime == IF e.kind \in Regimes THEN e.kind ELSE q.regime
      f == FieldOf(e.kind)
  IN  IF f = Nothing THEN [q EXCEPT !.regime = regime]
      ELSE [q EXCEPT !.regime = regime, !.field[f] = IF e.filled THEN e.id ELSE "EMPTY"]

(* NewRecord refuses a record without a regime, and one with a KNOWN value *)
(* that is empty: the event did not carry the detail its kind is read for. *)
ValidRecord(r) == r.regime \in Regimes /\ \A f \in Fields : r.field[f] # "EMPTY"

(* Store.Put: replaced in place, or appended with the oldest evicted.      *)
Put(store, r) ==
  LET at == {k \in DOMAIN store : store[k].subject = r.subject}
  IN  IF at # {} THEN [store EXCEPT ![CHOOSE k \in at : TRUE] = r]
      ELSE Append(IF Len(store) = EvidenceCapacity THEN Tail(store) ELSE store, r)

(* captureFinancial: a valuation is written into every open record of the  *)
(* day, as the position before or after the auction.  The map is ranged    *)
(* over in any order; the records are put in the order of one of them.     *)
Valued(r, e) ==
  [r EXCEPT !.field[IF r.regime = "POST_CAS" THEN "AFTER" ELSE "BEFORE"] = e.id]
CaptureFinancial(e, order) ==
  LET Step(store, s) == Put(store, Valued(evidence[s], e))
  IN  /\ evidence' = [s \in DOMAIN evidence |->
                        IF s \in ToSet(order) THEN Valued(evidence[s], e) ELSE evidence[s]]
      /\ records' = FoldLeft(Step, records, order)

(* capture: a record is begun by the first CAS event of its subject.       *)
CaptureOne(e) ==
  LET s == Subject(e)
      r == WithEvent(IF evidence[s] = Nothing THEN NewEvidence(s) ELSE evidence[s], e)
  IN  IF ValidRecord(r)
      THEN /\ evidence' = [evidence EXCEPT ![s] = r]
           /\ records' = Put(records, r)
           /\ counts' = IF evidence[s] = Nothing
                        THEN [counts EXCEPT ![e.day]["CAS_EVIDENCE"] = @ + 1] ELSE counts
      ELSE UNCHANGED <<evidence, records, counts>>

Open(d) == {s \in DOMAIN evidence : s[1] = d /\ evidence[s] # Nothing}

(* hasCASEvidence: any event about a subject whose record was begun.       *)
IsEvidence(e) ==
  e.subject # Nothing /\ IF e.category = "CAS" THEN TRUE ELSE evidence[Subject(e)] # Nothing

Capture(o) ==
  LET e == observer[o].event
  IN  /\ observer[o].pc = "capture"
      /\ \/ /\ e.category = "VALUATION"
            /\ \E order \in SetToSeqs(Open(e.day)) : CaptureFinancial(e, order)
            /\ UNCHANGED counts
         \/ e.category # "VALUATION" /\ IsEvidence(e) /\ CaptureOne(e)
         \/ /\ e.category # "VALUATION" /\ ~IsEvidence(e)
            /\ UNCHANGED <<evidence, records, counts>>
      /\ Go(o, "publish")
      /\ UNCHANGED <<feed, seen, seenOrder, financial, series, summaries, published, counted,
                     valued>>

Publish(o) ==
  /\ observer[o].pc = "publish"
  /\ published' = Append(published, observer[o].event)
  /\ observer' = [observer EXCEPT ![o] = Idle]
  /\ UNCHANGED <<feed, seen, seenOrder, counts, financial, series, summaries, evidence,
                 records, counted, valued>>

Next ==
  \E o \in Observers :
    Observe(o) \/ Count(o) \/ UpdateFinancial(o) \/ Close(o) \/ Capture(o) \/ Publish(o)

Spec == Init /\ [][Next]_vars

-----------------------------------------------------------------------------
TypeOK ==
  /\ \A o \in Observers : observer[o].pc \in {"idle", "count", "value", "close", "capture", "publish"}
  /\ Len(seenOrder) <= SeenLimit /\ seen = ToSet(seenOrder)
  /\ Len(records) <= EvidenceCapacity /\ Len(summaries) <= SummaryCapacity

(* A counter is the number of distinct events of its kind: an event that   *)
(* was emitted twice, or by two goroutines at once, is counted once.       *)
CountsDistinctEvents ==
  \A d \in DOMAIN counts, c \in Counters \ {"CAS_EVIDENCE"} :
    counts[d][c] = Cardinality({e \in counted : e.day = d /\ CounterOf(e.kind) = c})

(* CAS_EVIDENCE counts the records of the day that were ever begun.        *)
EvidenceCounted ==
  \A d \in DOMAIN counts : counts[d]["CAS_EVIDENCE"] = Cardinality(Open(d))

(* The reference definition of the drawdown: the largest fall from an      *)
(* earlier total of the day to a later one; known only when every          *)
(* valuation of the day was complete.                                      *)
DrawdownIsLargestFall ==
  \A d \in DOMAIN valued : valued[d] # <<>> =>
    LET v == valued[d]
        falls == {v[x[1]].total - v[x[2]].total :
                    x \in {y \in (DOMAIN v) \X (DOMAIN v) : y[1] <= y[2]}}
    IN  financial[d].drawdown =
          IF \A k \in DOMAIN v : IsComplete(v[k]) THEN Max(falls) ELSE Nothing

(* A summary states a total only for a COMPLETE valuation, and a day has   *)
(* one summary, whatever was emitted after it was closed.                  *)
SummariesAreHonest ==
  \A k \in DOMAIN summaries :
    /\ summaries[k].financial.total # Nothing => summaries[k].financial.status = "COMPLETE"
    /\ \A j \in DOMAIN summaries : summaries[j].day = summaries[k].day => j = k

(* What the store retains of a subject is the record the observer builds.  *)
StoreFollowsObserver ==
  \A k \in DOMAIN records : evidence[records[k].subject] = records[k]

ReportsInv ==
  /\ TypeOK /\ CountsDistinctEvents /\ EvidenceCounted
  /\ DrawdownIsLargestFall /\ SummariesAreHonest /\ StoreFollowsObserver

(* ADR 0031: "Duplicate identity and repeated readiness states are         *)
(* suppressed deterministically".  The dispatcher suppresses a duplicate   *)
(* whose checksum it knows and reports any other as a collision, so the    *)
(* observer must hand on one checksum per identity.                        *)
OneChecksumPerIdentity ==
  \A j, k \in DOMAIN published :
    published[j].id = published[k].id => published[j].checksum = published[k].checksum
=============================================================================
