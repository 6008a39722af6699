---------------------------- MODULE EventOrdering ----------------------------
(* The canonical order of market-data events and the bounded reorder buffer     *)
(* (marketdata/ingest/ordering.go) that the live path and the historical        *)
(* builder share.  An event is a record with its observation, the exchange time *)
(* `at' and the ingestion time; the observation is its identity, `hash' the     *)
(* order of the identities' digests.                                            *)
EXTENDS Integers, FiniteSets, SequencesExt

CONSTANT Capacity    \* of the reorder buffer

NoTime == -1000      \* the zero time

(* model.EventLess, for a source that numbers none of its events. *)
EventLess(l, r) == l.at < r.at \/ (l.at = r.at /\ l.obs.hash < r.obs.hash)

NewOrderer(lateness) ==
    [lateness |-> lateness, max |-> NoTime, mark |-> NoTime, buffer |-> {}]

Due(buffer, mark) == { e \in buffer : e.at <= mark }

FlushThrough(buffer, mark) == SetToSortSeq(Due(buffer, mark), EventLess)

Later(x, y) == IF x > y THEN x ELSE y

BehindWatermark(orderer, e) == orderer.mark # NoTime /\ e.at <= orderer.mark

(* The newer maximum is flushed through before the capacity is tested; were the *)
(* test to fail then, what the flush released would be gone.                    *)
Advanced(orderer, e) ==
    IF orderer.max = NoTime \/ e.at > orderer.max
    THEN LET mark == e.at - orderer.lateness
         IN  [max    |-> e.at,
              mark   |-> Later(mark, orderer.mark),
              buffer |-> orderer.buffer \ Due(orderer.buffer, mark),
              ready  |-> FlushThrough(orderer.buffer, mark)]
    ELSE [max |-> orderer.max, mark |-> orderer.mark, buffer |-> orderer.buffer,
          ready |-> <<>>]

Refused(orderer, disposition) ==
    [disposition |-> disposition, orderer |-> orderer, ready |-> <<>>, dropped |-> {}]

(* Orderer.Push. *)
Push(orderer, e) ==
    IF \E b \in orderer.buffer : b.obs = e.obs THEN Refused(orderer, "DUPLICATE")
    ELSE IF BehindWatermark(orderer, e) THEN Refused(orderer, "LATE")
    ELSE LET a    == Advanced(orderer, e)
             mark == a.max - orderer.lateness
             all  == a.buffer \union {e}
         IN  IF Cardinality(a.buffer) >= Capacity
             THEN [Refused([orderer EXCEPT !.max = a.max, !.mark = a.mark, !.buffer = a.buffer],
                           "CAPACITY") EXCEPT !.dropped = Range(a.ready)]
             ELSE [disposition |-> "ACCEPTED",
                   orderer |-> [orderer EXCEPT !.max = a.max, !.mark = Later(mark, a.mark),
                                               !.buffer = all \ Due(all, mark)],
                   ready |-> a.ready \o FlushThrough(all, mark), dropped |-> {}]

(* Orderer.Flush, at the end of a finite source. *)
FlushAll(orderer) == SetToSortSeq(orderer.buffer, EventLess)
=============================================================================
