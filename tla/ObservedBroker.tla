---------------------------- MODULE ObservedBroker ----------------------------
(* The paper broker of a PAPER session (adapters/broker/paper/observed.go): it fills
   submitted orders from the quotes the market stream delivers.  Every method holds one
   mutex, so a method is a step.  A checkpoint copies the broker; a restart begins with
   the last one, or empty, and the provider delivers quotes again.

   A client order is a number, for the broker sorts its orders by identity; a quote is its
   own identity. *)
EXTENDS Naturals, SequencesExt

CONSTANTS
  Submissions,   \* [client, order, instrument, side, quantity, limit, at]
  Quotes,        \* [instrument, at, bid, bidQuantity, ask, askQuantity]; price 0: no level
  CancelTimes, MaxRestarts

VARIABLES
  orders,        \* client -> [submission, state, cumulative, fills, at], the known ones
  events,        \* what EventsAfter serves
  quotes,        \* the quotes observed
  closed,
  checkpoint,    \* the last Checkpoint
  restarts

vars == <<orders, events, quotes, closed, checkpoint, restarts>>

NoOrders == <<>>

Terminal == {"FILLED", "CANCELLED"}

NewObserved == [orders |-> NoOrders, events |-> <<>>, quotes |-> {}]

Init ==
  /\ orders = NoOrders /\ events = <<>> /\ quotes = {} /\ closed = FALSE
  /\ checkpoint = NewObserved /\ restarts = 0

Event(type, client, cumulative, quantity, price, source, at) ==
  [type |-> type, client |-> client, cumulative |-> cumulative, quantity |-> quantity,
   price |-> price, source |-> source, at |-> at]

-----------------------------------------------------------------------------
\* A new submission is acknowledged; the same one again is answered from the map, another
\* one of the same client order refused.
Submit(s) ==
  /\ ~closed /\ s.client \notin DOMAIN orders
  /\ orders' = orders @@ s.client :> [submission |-> s, state |-> "ACKNOWLEDGED", cumulative |-> 0,
                                      fills |-> <<>>, at |-> s.at]
  /\ events' = Append(events, Event("ACKNOWLEDGED", s.client, 0, 0, 0, "submit", s.at))
  /\ UNCHANGED <<quotes, closed, checkpoint, restarts>>

\* The level an order trades against.
Level(item, q) ==
  IF item.submission.side = "BUY" THEN [price |-> q.ask, quantity |-> q.askQuantity]
                                  ELSE [price |-> q.bid, quantity |-> q.bidQuantity]

Within(item, price) ==
  IF item.submission.side = "BUY" THEN price <= item.submission.limit
                                  ELSE price >= item.submission.limit

Eligible(item, q) ==
  /\ item.submission.instrument = q.instrument /\ item.state \notin Terminal
  /\ q.at > item.submission.at
  /\ Level(item, q).price > 0 /\ Level(item, q).quantity > 0 /\ Within(item, Level(item, q).price)

FillQuantity(item, q) == Min({Level(item, q).quantity, item.submission.quantity - item.cumulative})

FillEvent(item, q) ==
  LET cumulative == item.cumulative + FillQuantity(item, q)
  IN Event(IF cumulative = item.submission.quantity THEN "FILLED" ELSE "PARTIALLY_FILLED",
           item.submission.client, cumulative, FillQuantity(item, q), Level(item, q).price, q, q.at)

Apply(item, e) ==
  [item EXCEPT !.state = e.type, !.cumulative = e.cumulative, !.at = e.at,
               !.fills = IF e.quantity > 0 THEN Append(@, e) ELSE @]

\* A quote is used once; each eligible order is filled from it, in the order of the
\* identities, and each sees the whole level.
ObserveQuote(q) ==
  /\ ~closed /\ q \notin quotes
  /\ LET eligible == {c \in DOMAIN orders : Eligible(orders[c], q)}
         filled == SetToSortSeq(eligible, <)
     IN /\ orders' = [c \in DOMAIN orders |->
                        IF c \in eligible THEN Apply(orders[c], FillEvent(orders[c], q)) ELSE orders[c]]
        /\ events' = events \o [i \in DOMAIN filled |-> FillEvent(orders[filled[i]], q)]
  /\ quotes' = quotes \cup {q}
  /\ UNCHANGED <<closed, checkpoint, restarts>>

\* A terminal order only answers; a shut-down broker still cancels.
Cancel(client, at) ==
  /\ client \in DOMAIN orders /\ orders[client].state \notin Terminal
  /\ LET e == Event("CANCELLED", client, orders[client].cumulative, 0, 0, "cancel", at)
     IN orders' = [orders EXCEPT ![client] = Apply(@, e)] /\ events' = Append(events, e)
  /\ UNCHANGED <<quotes, closed, checkpoint, restarts>>

\* A page of the events after a cursor.
EventsAfter(cursor, limit) ==
  LET end == Min({cursor + limit, Len(events)})
  IN [events |-> SubSeq(events, cursor + 1, end), next |-> end, complete |-> end = Len(events)]

Checkpoint ==
  /\ checkpoint' = [orders |-> orders, events |-> events, quotes |-> quotes]
  /\ checkpoint' # checkpoint
  /\ UNCHANGED <<orders, events, quotes, closed, restarts>>

RestoreObserved ==
  /\ restarts < MaxRestarts /\ restarts' = restarts + 1
  /\ orders' = checkpoint.orders /\ events' = checkpoint.events /\ quotes' = checkpoint.quotes
  /\ closed' = FALSE /\ UNCHANGED checkpoint

Shutdown == ~closed /\ closed' = TRUE /\ UNCHANGED <<orders, events, quotes, checkpoint, restarts>>

Next ==
  \/ \E s \in Submissions : Submit(s)
  \/ \E q \in Quotes : ObserveQuote(q)
  \/ \E c \in DOMAIN orders, at \in CancelTimes : Cancel(c, at)
  \/ Checkpoint \/ RestoreObserved \/ Shutdown

Spec == Init /\ [][Next]_vars

-----------------------------------------------------------------------------
Of(client) == SelectSeq(events, LAMBDA e : e.client = client)

\* What the execution coordinator learns from the event stream is what a reconciliation
\* reads in the snapshot: the events of an order, applied one after the other, give it, and
\* nothing follows a terminal one.
EventsTellSnapshot ==
  /\ {e.client : e \in ToSet(events)} = DOMAIN orders
  /\ \A c \in DOMAIN orders :
       LET mine == Of(c)
           fresh == [orders[c] EXCEPT !.state = "NEW", !.cumulative = 0, !.fills = <<>>]
       IN /\ FoldLeft(Apply, fresh, mine) = orders[c]
          /\ mine[1].type = "ACKNOWLEDGED"
          /\ \A i \in DOMAIN mine : mine[i].type \in Terminal => i = Len(mine)

\* An order is never filled beyond its quantity nor at a price worse than its limit, from
\* quotes after its submission only, from each of them at most once, restarts included; it
\* is FILLED exactly when nothing remains.
FillsAreEarned ==
  \A c \in DOMAIN orders :
    LET item == orders[c]
        mine == item.fills
    IN /\ FoldLeft(LAMBDA sum, e : sum + e.quantity, 0, mine) = item.cumulative
       /\ item.cumulative <= item.submission.quantity
       /\ item.state = "FILLED" <=> item.cumulative = item.submission.quantity
       /\ \A i \in DOMAIN mine :
            /\ mine[i].source \in quotes /\ mine[i].at > item.submission.at
            /\ Within(item, mine[i].price)
            /\ \A j \in DOMAIN mine : mine[i].source = mine[j].source => i = j

\* Reading page after page with the cursor each page returns serves every event once, in
\* order, whatever the size of the pages.
PagesTile ==
  \A limit \in 1..2 :
    LET page[cursor \in 0..Len(events)] ==
          LET p == EventsAfter(cursor, limit)
          IN IF p.complete THEN p.events ELSE p.events \o page[p.next]
    IN page[0] = events

ObservedBrokerInv == EventsTellSnapshot /\ FillsAreEarned /\ PagesTile

\* Stated of the simulation, and not so: a quote's quantity is offered once.  Each eligible
\* order is filled from the whole level, so two orders can buy more than was on offer.
LiquidityOfferedOnce ==
  \A q \in quotes :
    LET Buys(e) == e.quantity > 0 /\ e.source = q /\ orders[e.client].submission.side = "BUY"
        taken == SelectSeq(events, Buys)
    IN FoldLeft(LAMBDA sum, e : sum + e.quantity, 0, taken) <= q.askQuantity
==============================================================================
