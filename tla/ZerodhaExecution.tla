-------------------------- MODULE ZerodhaExecution --------------------------
(***************************************************************************)
(* The guarded order adapter of adapters/broker/zerodha (ExecutionAdapter):*)
(* correlation of client orders with provider orders over a transport that *)
(* may lose the answer, the journal of events built from order updates,    *)
(* the snapshot built from two reads, checkpoint and restart; and the      *)
(* router that brings the updates.  The provider is external: it fills,    *)
(* cancels and rejects orders, and any past view of an order may arrive    *)
(* late, twice or never, with any part of its trades.                      *)
(***************************************************************************)
EXTENDS Integers, Sequences, FiniteSets

CONSTANTS ClientIDs,      \* client order identities
          Terms,          \* instrument, side and price of a submission
          OrderQuantity,  \* quantity of every submission; trades are of one unit
          MaxExecutionEvents,  \* maximumExecutionEvents
          MaxOrders,      \* bound: orders the provider holds
          Budgets,        \* bounds: [workers, clients, terms, crashes, journal], one chosen
                          \* at the start
          Nothing         \* no checkpoint

ASSUME ExecutionAssumption == OrderQuantity \in Nat \ {0}

VARIABLES records,     \* correlation records of the known client orders
          journal,     \* the events, oldest first
          gap,         \* executionState.gap
          adapterOpen, \* not executionState.closed
          usable,      \* the session grants authorization
          worker,      \* the calls in progress
          remote,      \* the provider's orders
          saved,       \* the checkpoint supplied at the next start
          budget,      \* who submits what, the restarts left, the events before the last update
          forgotten    \* how many restarts lost or set back each client order's correlation

correlationVars == <<records, journal, gap>>
executionVars == <<records, journal, gap, adapterOpen, usable, worker, remote, saved,
                   budget, forgotten>>
-----------------------------------------------------------------------------
OrderOf(id) == {o \in remote : o.id = id}
Place(id, terms, status) == [id |-> id, n |-> Cardinality(OrderOf(id)) + 1, terms |-> terms,
                             filled |-> 0, status |-> status]
Becomes(o, filled, status) ==
    [id |-> o.id, n |-> o.n, terms |-> o.terms, filled |-> filled, status |-> status]
(* Every view of an order the provider has had. *)
Views == UNION {{o} \cup {Becomes(o, f, "OPEN") :
                             f \in {n \in 0..o.filled : n < OrderQuantity}} : o \in remote}
Name(o) == <<o.id, o.n>>
NoOrder == <<>>

(* parseINR, translateSubmission and the mapper: terms that the instrument master
   does not cover are refused before anything is recorded. *)
Translates(terms) == terms # "untranslatable"

PutRecord(id, terms, state, order) ==
    records' = [k \in DOMAIN records \cup {id} |->
                  IF k = id THEN [terms |-> terms, state |-> state, order |-> order]
                  ELSE records[k]]

ExecutionInit ==
    /\ records = << >> /\ journal = <<>> /\ gap = FALSE /\ adapterOpen = TRUE /\ usable = TRUE
    /\ budget \in Budgets /\ worker = [w \in budget.workers |-> [pc |-> "idle"]]
    /\ remote = {} /\ saved = Nothing /\ forgotten = [id \in ClientIDs |-> 0]

Become(w, value) == worker' = [worker EXCEPT ![w] = value]
Answer(w) == Become(w, [pc |-> "idle"])
-----------------------------------------------------------------------------
SameTerms(id, terms) == records[id].terms = terms
Settled(id) == records[id].state \in {"ACCEPTED", "REJECTED", "SEND_UNCERTAIN"}

(* Submit up to the unlock: a settled record is its answer, other terms conflict. *)
Submit(w, id, terms) ==
    /\ worker[w].pc = "idle" /\ id \in budget.clients /\ terms \in budget.terms
    /\ id \in DOMAIN records => SameTerms(id, terms) /\ ~Settled(id)
    /\ Become(w, [pc |-> "authorize", id |-> id, terms |-> terms])
    /\ UNCHANGED <<correlationVars, adapterOpen, usable, remote, saved, budget, forgotten>>
SubmitAuthorize(w) ==
    /\ worker[w].pc = "authorize"
    /\ IF usable /\ Translates(worker[w].terms)
       THEN Become(w, [pc |-> "place", id |-> worker[w].id, terms |-> worker[w].terms])
       ELSE Answer(w)
    /\ UNCHANGED <<correlationVars, adapterOpen, usable, remote, saved, budget, forgotten>>

(* What the transport may report of Place, with what the provider did: the record's new
   state, the order at the provider if there is one, whether the record names it, and
   whether the session ended.  A rejected order may be there, and be named, too. *)
Reported(state, status, named, expired) ==
    [state |-> state, status |-> status, named |-> named, expired |-> expired]
Outcomes ==
    {Reported("ACCEPTED", "OPEN", TRUE, FALSE), Reported("NOT_SENT", "none", FALSE, FALSE)}
    \cup {Reported("REJECTED", "REJECTED", named, FALSE) : named \in BOOLEAN}
    \cup {Reported("REJECTED", "none", FALSE, expired) : expired \in BOOLEAN}
    \cup {Reported("SEND_UNCERTAIN", status, FALSE, expired) :
             status \in {"none", "OPEN"}, expired \in BOOLEAN}

(* Mutant of MayPlace: only an accepted order is not sent again. *)
PlacesUnlessAccepted(id, terms) == id \in DOMAIN records => records[id].state # "ACCEPTED"
MayPlace(id, terms) == id \in DOMAIN records => SameTerms(id, terms) /\ ~Settled(id)

(* Submit after the second lock, held while the transport places the order. *)
SubmitPlace(w) ==
    /\ worker[w].pc = "place"
    /\ Answer(w)
    /\ LET id == worker[w].id  terms == worker[w].terms IN
         IF ~adapterOpen \/ ~MayPlace(id, terms)
         THEN UNCHANGED <<records, remote, usable>>
         ELSE \E outcome \in Outcomes :
                LET placed == outcome.status # "none"
                    order == Place(id, terms, outcome.status) IN
                /\ placed => Cardinality(remote) < MaxOrders
                /\ remote' = IF placed THEN remote \cup {order} ELSE remote
                /\ usable' = (usable /\ ~outcome.expired)
                /\ PutRecord(id, terms, outcome.state,
                             IF outcome.named THEN Name(order) ELSE NoOrder)
    /\ UNCHANGED <<journal, gap, adapterOpen, saved, budget, forgotten>>

(* Cancel: only the provider order the record names; the answer may be lost, and the
   session may end with or without the cancellation. *)
Cancel(id) ==
    /\ usable /\ adapterOpen
    /\ id \in DOMAIN records /\ records[id].order # NoOrder
    /\ \/ \E o \in remote :
            /\ Name(o) = records[id].order /\ o.status = "OPEN"
            /\ remote' = (remote \ {o}) \cup {Becomes(o, o.filled, "CANCELLED")}
       \/ remote' = remote
    /\ usable' \in BOOLEAN
    /\ UNCHANGED <<correlationVars, adapterOpen, worker, saved, budget, forgotten>>
-----------------------------------------------------------------------------
(* The journal. *)
Fills(log, name, n) == {i \in 1..n : log[i].order = name /\ log[i].trade > 0}
CurrentCumulative(log, name) ==
    LET cums == {log[i].cumulative : i \in {j \in DOMAIN log : log[j].order = name}}
    IN  IF cums = {} THEN 0 ELSE CHOOSE c \in cums : \A d \in cums : d <= c
Seen(log, name, trade) ==
    \E i \in DOMAIN log : log[i].order = name /\ log[i].trade = trade

(* statusEvent: the report a provider status stands for; fills come from trades. *)
StatusEvent(status) ==
    CASE status = "OPEN" -> "ACKNOWLEDGED"
      [] status = "REJECTED" -> "REJECTED"
      [] status = "CANCELLED" -> "CANCELLED"
      [] status = "COMPLETE" -> "FILL"
      [] OTHER -> "none"

Event(name, trade, kind, cumulative) ==
    [order |-> name, trade |-> trade, kind |-> kind, cumulative |-> cumulative]
(* appendEvent suppresses an event whose identity is in the journal. *)
AppendEvent(log, event) ==
    IF \E i \in DOMAIN log : log[i] = event THEN log ELSE Append(log, event)

Journaled(log, conflict, cumulative) ==
    [log |-> log, conflict |-> conflict, cumulative |-> cumulative]
(* One trade of an update; [sound] is whether its evidence is unchanged. *)
IngestTrade(acc, name, trade, sound) ==
    CASE acc.conflict -> acc
      [] ~acc.conflict /\ Seen(acc.log, name, trade) -> Journaled(acc.log, ~sound, acc.cumulative)
      [] ~acc.conflict /\ ~Seen(acc.log, name, trade) /\ acc.cumulative + 1 > OrderQuantity ->
           Journaled(acc.log, TRUE, acc.cumulative)
      [] OTHER -> LET total == acc.cumulative + 1 IN
           Journaled(Append(acc.log, Event(name, trade,
                        IF total = OrderQuantity THEN "FILL" ELSE "PARTIAL_FILL", total)),
                     FALSE, total)
(* The trades that came, in the order of their times. *)
IngestTrades(log, name, trades, sound) ==
    LET after[trade \in 0..OrderQuantity] ==
          IF trade = 0 THEN Journaled(log, FALSE, CurrentCumulative(log, name))
          ELSE IF trade \in trades THEN IngestTrade(after[trade - 1], name, trade, sound)
          ELSE after[trade - 1]
    IN  after[OrderQuantity]

VerifyBrokerOrder(record, view) == view.terms = record.terms
Correlates(view) == view.id \in DOMAIN records

Stale(view) == view.filled < CurrentCumulative(journal, Name(view))

(* IngestOrderUpdate of a view and the trades that came with it. *)
IngestOrderUpdate(view, trades, sound) ==
    LET record == records[view.id]
        done == IngestTrades(journal, Name(view), trades, sound)
        kind == StatusEvent(view.status)
        log == IF done.conflict \/ view.filled # done.cumulative \/ kind = "FILL" THEN done.log
               ELSE AppendEvent(done.log, Event(Name(view), 0, kind, done.cumulative))
    IN  IF (record.order # NoOrder /\ record.order # Name(view)) \/ ~VerifyBrokerOrder(record, view)
        THEN gap' = TRUE /\ UNCHANGED <<records, journal>>
        ELSE /\ IF record.order = NoOrder
                THEN PutRecord(view.id, record.terms, "ACCEPTED", Name(view))
                ELSE UNCHANGED records
             /\ IF Stale(view) THEN UNCHANGED <<journal, gap>>
                ELSE /\ journal' = log
                     /\ gap' = (gap \/ done.conflict \/ view.filled # done.cumulative
                                  \/ Len(log) > MaxExecutionEvents)
-----------------------------------------------------------------------------
(* The provider works on its orders. *)
RemoteStep ==
    /\ adapterOpen
    /\ \E o \in remote : \E next \in
         {Becomes(o, o.filled + 1, IF o.filled + 1 = OrderQuantity THEN "COMPLETE" ELSE "OPEN"),
          Becomes(o, o.filled, "CANCELLED"), Becomes(o, o.filled, "REJECTED")} :
         /\ o.status = "OPEN" /\ (next.status = "REJECTED" => o.filled = 0)
         /\ remote' = (remote \ {o}) \cup {next}
    /\ UNCHANGED <<correlationVars, adapterOpen, usable, worker, saved, budget, forgotten>>

(* StreamRouter.ObserveOrder: orders nobody correlated are dropped. *)
ObserveOrder(view, trades, sound) ==
    /\ Correlates(view) /\ adapterOpen /\ Len(journal) < budget.journal
    /\ IngestOrderUpdate(view, trades, sound)
    /\ UNCHANGED <<adapterOpen, usable, worker, remote, saved, budget, forgotten>>
-----------------------------------------------------------------------------
(* LookupByClientOrderID over Snapshot: the record is read, then the provider's orders,
   where the session may end, and then the trades. *)
Lookup(w, id) ==
    /\ worker[w].pc = "idle" /\ id \in DOMAIN records
    /\ usable
    /\ \/ /\ usable' = usable
          /\ Become(w, [pc |-> "trades", id |-> id, terms |-> records[id].terms, orders |-> remote])
       \/ usable' = FALSE /\ worker' = worker
    /\ UNCHANGED <<correlationVars, adapterOpen, remote, saved, budget, forgotten>>
TradesAgree(orders) == \A o \in orders : \E r \in remote : Name(r) = Name(o) /\ r.filled = o.filled
SnapshotTrades(w) ==
    /\ worker[w].pc = "trades"
    /\ \/ Become(w, [pc |-> "build", id |-> worker[w].id, terms |-> worker[w].terms,
                     orders |-> worker[w].orders, agree |-> TradesAgree(worker[w].orders)])
       \/ Answer(w)
    /\ UNCHANGED <<correlationVars, adapterOpen, usable, remote, saved, budget, forgotten>>

(* buildSnapshot: complete only when every order agrees with its trades and its
   record, and no update was missed. *)
SnapshotComplete(orders, agree) ==
    /\ ~gap /\ agree
    /\ \A o \in orders : o.id \in DOMAIN records =>
         VerifyBrokerOrder(records[o.id], o) /\ records[o.id].order \in {NoOrder, Name(o)}
BuildSnapshot(w) ==
    /\ worker[w].pc = "build"
    /\ LET matches == {o \in worker[w].orders : o.id = worker[w].id} IN
       IF /\ SnapshotComplete(worker[w].orders, worker[w].agree)
          /\ Cardinality(matches) = 1
          /\ \A o \in matches : o.terms = worker[w].terms
       THEN \E o \in matches : Become(w, [pc |-> "correlate", id |-> o.id, order |-> Name(o)])
       ELSE Answer(w)
    /\ UNCHANGED <<correlationVars, adapterOpen, usable, remote, saved, budget, forgotten>>
(* The record is read again: an update may have named an order in it meanwhile. *)
LookupDone(w) ==
    /\ worker[w].pc = "correlate"
    /\ Answer(w)
    /\ LET id == worker[w].id  match == worker[w].order IN
       IF records[id].order \in {NoOrder, match}
       THEN PutRecord(id, records[id].terms, "ACCEPTED", match)
       ELSE UNCHANGED records
    /\ UNCHANGED <<journal, gap, adapterOpen, usable, remote, saved, budget, forgotten>>

(* EventsAfter changes nothing; a cursor of before a restart may be beyond the
   journal, and a journal with a gap is not served. *)
EventsAfter(cursor, limit) ==
    IF ~adapterOpen \/ gap \/ cursor > Len(journal) THEN [served |-> FALSE, events |-> <<>>]
    ELSE [served |-> TRUE,
          events |-> SubSeq(journal, cursor + 1,
                            IF cursor + limit > Len(journal) THEN Len(journal) ELSE cursor + limit)]

SetGap(value) ==   \* MarkUpdateGap and ClearUpdateGapAfterReconciliation
    /\ adapterOpen /\ gap # value /\ gap' = value
    /\ UNCHANGED <<records, journal, adapterOpen, usable, worker, remote, saved, budget,
                   forgotten>>

AdapterShutdown ==
    /\ adapterOpen /\ adapterOpen' = FALSE
    /\ UNCHANGED <<correlationVars, usable, worker, remote, saved, budget, forgotten>>

Reauthenticate ==
    /\ adapterOpen /\ ~usable /\ usable' = TRUE
    /\ UNCHANGED <<correlationVars, adapterOpen, worker, remote, saved, budget, forgotten>>

Checkpoint ==
    /\ budget.crashes > 0 /\ saved = Nothing /\ adapterOpen
    /\ saved' = [records |-> records, journal |-> journal, gap |-> gap]
    /\ UNCHANGED <<correlationVars, adapterOpen, usable, worker, remote, budget, forgotten>>
SetBack(id) ==
    /\ id \in DOMAIN records
    /\ id \notin DOMAIN saved.records \/ saved.records[id] # records[id]
(* restoreExecutionState of the checkpoint that was kept; calls in progress are lost. *)
Restart ==
    /\ budget.crashes > 0 /\ saved # Nothing
    /\ budget' = [budget EXCEPT !.crashes = @ - 1]
    /\ records' = saved.records /\ journal' = saved.journal /\ gap' = saved.gap
    /\ adapterOpen' = TRUE
    /\ worker' = [w \in DOMAIN worker |-> [pc |-> "idle"]]
    /\ forgotten' = [id \in ClientIDs |-> forgotten[id] + IF SetBack(id) THEN 1 ELSE 0]
    /\ UNCHANGED <<usable, remote, saved>>

ExecutionNext ==
    \/ \E w \in DOMAIN worker :
         \/ \E id \in ClientIDs : Lookup(w, id) \/ \E terms \in Terms : Submit(w, id, terms)
         \/ SubmitAuthorize(w) \/ SubmitPlace(w) \/ SnapshotTrades(w) \/ BuildSnapshot(w)
         \/ LookupDone(w)
    \/ \E id \in ClientIDs : Cancel(id)
    \/ RemoteStep
    \/ \E view \in Views : \E trades \in SUBSET (1..view.filled) : \E sound \in BOOLEAN :
         ObserveOrder(view, trades, sound)
    \/ \E value \in BOOLEAN : SetGap(value)
    \/ AdapterShutdown \/ Reauthenticate \/ Checkpoint \/ Restart

ExecutionSpec == ExecutionInit /\ [][ExecutionNext]_executionVars
-----------------------------------------------------------------------------
(* A client order is at the provider once, and once more for every restart from a
   checkpoint that did not know how its submission ended, whatever the transport reported
   and however Submit, lookups, updates and restarts interleave (ADR 0024). *)
NoDuplicateOrder == \A id \in ClientIDs : Cardinality(OrderOf(id)) <= 1 + forgotten[id]

(* A record that names an order names one that the provider has, of that client and with
   the terms that were submitted (verifyBrokerOrder, termsDiffer). *)
AcceptedIsRemote ==
    \A id \in DOMAIN records : records[id].order # NoOrder =>
        \E o \in remote :
            Name(o) = records[id].order /\ o.id = id /\ o.terms = records[id].terms

(* Of every provider order the journal holds each trade once, with running totals
   that count the fills, never beyond the quantity, and FILL exactly at the last. *)
JournalCounts ==
    \A o \in remote : \A i \in Fills(journal, Name(o), Len(journal)) :
        LET fill == journal[i] IN
        /\ fill.cumulative = Cardinality(Fills(journal, Name(o), i))
        /\ fill.cumulative <= OrderQuantity
        /\ (fill.kind = "FILL") = (fill.cumulative = OrderQuantity)
        /\ fill.trade \in 1..o.filled
        /\ \A j \in Fills(journal, Name(o), Len(journal)) : journal[j].trade = fill.trade => i = j

(* Whatever EventsAfter serves belongs to the provider order that a record names. *)
ServedIsCorrelated ==
    LET served == EventsAfter(0, Len(journal)).events IN
    \A i \in DOMAIN served : \E id \in DOMAIN records : records[id].order = served[i].order

(* The four together, for the adapter as a whole. *)
ExecutionAdapterInv ==
    /\ DOMAIN records \subseteq ClientIDs
    /\ NoDuplicateOrder /\ AcceptedIsRemote /\ JournalCounts /\ ServedIsCorrelated
=============================================================================
