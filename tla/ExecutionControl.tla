-------------------------- MODULE ExecutionControl --------------------------
(***************************************************************************)
(* The facts the proofs about the execution coordinator rest on: types of  *)
(* the state, what a publication does to the store, what the steps of the  *)
(* paper broker keep, what each step does to the calls, the reservations   *)
(* and the store, and the invariant Control of the control state.          *)
(***************************************************************************)
EXTENDS ExecutionCoordinator, SumLemmas, SequenceTheorems

-----------------------------------------------------------------------------
(* Types of the state.                                                     *)

OrderRecords ==
  [quantity : Nat, state : OrderStates, revision : Nat \ {0}, filled : Nat, broker : {"", BrokerID}]

Suffixes == {"none", "ack", "partial", "fill", "fill-early", "ack-late", "cancelled", "late-fill"}

Keys ==
  {"planned", "pending", "accepted", "rejected", "unknown", "restart-unknown", "recovered",
   "cancel", "cancel-unknown"} \cup Suffixes \cup ReportTypes

Identities == {"COORDINATOR", "BROKER", "reconcile"} \X Keys \X Nat

EventRecords ==
  [order : Orders, id : Identities, exec : Suffixes, type : ReportTypes, cum : Nat, fill : Nat]

Executions == [exec : Suffixes, fill : Nat, cum : Nat]

Entries == [state : OrderStates \cup {"none"}, cum : Nat, late : BOOLEAN, fills : Seq(Executions)]

Items == [due : Nat, event : EventRecords]

Scenarios == [behavior : Behaviors, unavailable : Nat]

RecordedReports == [id : Identities, at : Times \cup {0}, cum : Nat, live : BOOLEAN]

BookedFills == [exec : Suffixes, quantity : Nat \ {0}]

BrokerTyped ==
  /\ now \in Nat
  /\ book \in [Orders -> Entries]
  /\ scheduled \in Seq(Items)
  /\ delivered \in Seq(EventRecords)
  /\ script \in Seq(Scenarios)
  /\ attempts \in Nat

StoreTyped ==
  /\ orders \in [Orders -> OrderRecords]
  /\ reports \in [Orders -> SUBSET RecordedReports]
  /\ fills \in [Orders -> SUBSET BookedFills]
  /\ \A o \in Orders : ValidOrder(orders[o]) /\ orders[o].quantity = Quantity[o]

Calls ==
  [pc : PCs, plan : Plans \cup {"none"}, leg : Nat, seen : [Orders -> OrderRecords],
   progress : BOOLEAN, at : Times \cup {0}, tries : Nat, current : OrderRecords]

Drains ==
  [by : Drainers \cup {"none"}, pc : {"read", "reserve", "apply"}, left : Seq(EventRecords),
   next : Nat, read : OrderRecords]

Cancels ==
  [pc : {"idle", "reserve", "send", "unknown", "drain"}, order : Orders \cup {"none"},
   current : OrderRecords, at : Times \cup {0}]

Recons ==
  [pc : {"idle", "local", "remote", "orders"}, at : Times \cup {0}, snapshot : [Orders -> Entries],
   local : [Orders -> OrderRecords], todo : SUBSET Orders, events : Seq(EventRecords),
   read : OrderRecords, step : {"read", "reserve", "apply"}, blocked : BOOLEAN]

-----------------------------------------------------------------------------
LEMMA NoOrderTyped == NoOrder \in OrderRecords /\ NoOrders \in [Orders -> OrderRecords]
BY DEF NoOrder, NoOrders, NewOrder, OrderRecords, OrderStates

LEMMA IdleTyped ==
  /\ IdleCall \in Calls /\ IdleDrain \in Drains /\ IdleCancel \in Cancels /\ IdleRecon \in Recons
<1>1. IdleCall \in Calls
  BY NoOrderTyped DEF IdleCall, Calls, PCs
<1>2. IdleDrain \in Drains
  BY NoOrderTyped DEF IdleDrain, Drains
<1>3. IdleCancel \in Cancels
  BY NoOrderTyped DEF IdleCancel, Cancels
<1>4. NotPlaced \in Entries
  BY DEF NotPlaced, Entries
<1>5. IdleRecon \in Recons
  BY NoOrderTyped, <1>4 DEF IdleRecon, Recons
<1> QED BY <1>1, <1>2, <1>3, <1>5

-----------------------------------------------------------------------------
(* Publication.                                                            *)

ReportRecords ==
  [id : Identities, type : ReportTypes, cum : Nat, broker : {"", BrokerID}, at : Times \cup {0}]

\* What publish does to the store when it commits.
Publication(o, report, exec, quantity) ==
  /\ Applies(orders[o], report, quantity)
  /\ ~KnownReport(o, report.id)
  /\ quantity > 0 => ~Booked(o, exec)
  /\ orders' = [orders EXCEPT ![o] = ApplyExecutionReport(@, report)]
  /\ reports' = [reports EXCEPT ![o] = @ \cup
       {[id |-> report.id, at |-> report.at, cum |-> report.cum, live |-> TRUE]}]
  /\ fills' = [fills EXCEPT ![o] = @ \cup
       (IF quantity = 0 THEN {} ELSE {[exec |-> exec, quantity |-> quantity]})]

\* publish either commits or leaves the store alone.
LEMMA PublishCases ==
  ASSUME NEW o, NEW report, NEW exec, NEW quantity, NEW result,
         publish(o, report, exec, quantity, result)
  PROVE  \/ result = "published" /\ Publication(o, report, exec, quantity)
         \/ result # "published" /\ UNCHANGED storeVars
<1>1. CASE result = "published" /\ result = PublishResult(o, report, exec, quantity)
  BY <1>1 DEF publish, PublishResult, Publication
<1>2. CASE ~(result = "published" /\ result = PublishResult(o, report, exec, quantity))
  BY <1>2 DEF publish
<1> QED BY <1>1, <1>2

\* An accepted report gives a well-formed order.
LEMMA AppliedTyped ==
  ASSUME NEW order \in OrderRecords, NEW report \in ReportRecords
  PROVE  /\ ApplyExecutionReport(order, report) \in OrderRecords
         /\ ApplyExecutionReport(order, report).quantity = order.quantity
         /\ ApplyExecutionReport(order, report).filled = report.cum
         /\ ApplyExecutionReport(order, report).revision = order.revision + 1
         /\ ApplyExecutionReport(order, report).state = NextState(order, report)
<1> DEFINE next == ApplyExecutionReport(order, report)
<1>1. reportTarget[report.type] \in OrderStates
  <2>1. report.type \in ReportTypes
    BY DEF ReportRecords
  <2> QED BY <2>1 DEF reportTarget, ReportTypes, OrderStates
<1>2. /\ order.state \in OrderStates /\ order.quantity \in Nat /\ order.revision \in Nat \ {0}
      /\ order.broker \in {"", BrokerID} /\ report.broker \in {"", BrokerID} /\ report.cum \in Nat
  BY DEF OrderRecords, ReportRecords
<1>3. NextState(order, report) \in OrderStates
  BY <1>1, <1>2 DEF NextState
<1>4. order.revision + 1 \in Nat \ {0}
  <2>1. order.revision \in Nat
    BY <1>2
  <2> QED BY <2>1
<1>5. (IF report.broker = "" THEN order.broker ELSE report.broker) \in {"", BrokerID}
  BY <1>2
<1> QED BY <1>2, <1>3, <1>4, <1>5 DEF ApplyExecutionReport, OrderRecords

\* The reports the coordinator makes are well-formed.
LEMMA ReportsTyped ==
  ASSUME NEW current \in OrderRecords, NEW type \in ReportTypes, NEW key \in Keys,
         NEW number \in Nat, NEW at \in Times \cup {0}
  PROVE  /\ Internal(current, type, key, number, at) \in ReportRecords
         /\ Accepted(current, type, key, number, at) \in ReportRecords
<1>1. current.filled \in Nat /\ current.broker \in {"", BrokerID}
  BY DEF OrderRecords
<1>2. <<"COORDINATOR", key, number>> \in Identities
  BY DEF Identities
<1> QED BY <1>1, <1>2 DEF Internal, Accepted, Report, ReportRecords

LEMMA EventReportTyped ==
  ASSUME NEW event \in EventRecords, NEW at \in Times \cup {0}
  PROVE  EventReport(event, at) \in ReportRecords
BY DEF EventReport, Report, ReportRecords, EventRecords

\* A commit keeps the store well-typed.
LEMMA PublicationTyped ==
  ASSUME StoreTyped, NEW o \in Orders, NEW report \in ReportRecords, NEW exec \in Suffixes,
         NEW quantity \in Nat, Publication(o, report, exec, quantity)
  PROVE  StoreTyped'
<1> DEFINE next == ApplyExecutionReport(orders[o], report)
           recorded == [id |-> report.id, at |-> report.at, cum |-> report.cum, live |-> TRUE]
<1>1. orders[o] \in OrderRecords
  BY DEF StoreTyped
<1>2. next \in OrderRecords /\ next.quantity = orders[o].quantity
  BY <1>1, AppliedTyped
<1>3. ValidOrder(next)
  BY DEF Publication, Applies
<1> HIDE DEF next
<1>4. orders' = [orders EXCEPT ![o] = next]
  BY DEF Publication, next
<1>5. orders' \in [Orders -> OrderRecords]
  BY <1>2, <1>4 DEF StoreTyped
<1>6. \A x \in Orders : ValidOrder(orders'[x]) /\ orders'[x].quantity = Quantity[x]
  BY <1>2, <1>3, <1>4 DEF StoreTyped
<1>7. recorded \in RecordedReports
  BY DEF ReportRecords, RecordedReports
<1> HIDE DEF recorded
<1>8. reports' \in [Orders -> SUBSET RecordedReports]
  <2>1. reports' = [reports EXCEPT ![o] = @ \cup {recorded}]
    BY DEF Publication, recorded
  <2> QED BY <1>7, <2>1 DEF StoreTyped
<1>9. fills' \in [Orders -> SUBSET BookedFills]
  <2> DEFINE booked == IF quantity = 0 THEN {} ELSE {[exec |-> exec, quantity |-> quantity]}
  <2>1. booked \subseteq BookedFills
    BY DEF BookedFills
  <2> HIDE DEF booked
  <2>2. fills' = [fills EXCEPT ![o] = @ \cup booked]
    BY DEF Publication, booked
  <2> QED BY <2>1, <2>2 DEF StoreTyped
<1>10. \A x \in Orders : (ValidOrder(orders[x]))' /\ orders'[x].quantity = Quantity[x]
  BY <1>6 DEF ValidOrder
<1> QED BY <1>5, <1>8, <1>9, <1>10 DEF StoreTyped

-----------------------------------------------------------------------------
(* The paper broker.                                                       *)

Deliveries ==
  [book : [Orders -> Entries], delivered : Seq(EventRecords), remaining : Seq(Items)]

LEMMA applyTyped ==
  ASSUME NEW entry \in Entries, NEW event \in EventRecords
  PROVE  apply(entry, event) \in Entries
<1> DEFINE next == apply(entry, event)
<1>0. /\ entry.state \in OrderStates \cup {"none"} /\ entry.cum \in Nat /\ entry.late \in BOOLEAN
      /\ entry.fills \in Seq(Executions) /\ event.cum \in Nat /\ event.fill \in Nat
      /\ event.exec \in Suffixes
  BY DEF Entries, EventRecords
<1>1. next.state \in OrderStates \cup {"none"}
  BY <1>0 DEF apply, OrderStates
<1>2. next.cum \in Nat /\ next.late \in BOOLEAN
  BY <1>0 DEF apply
<1>3. next.fills \in Seq(Executions)
  <2>1. [exec |-> event.exec, fill |-> event.fill, cum |-> event.cum] \in Executions
    BY <1>0 DEF Executions
  <2> QED BY <1>0, <2>1, AppendProperties DEF apply
<1>4. next = [state |-> next.state, cum |-> next.cum, late |-> next.late, fills |-> next.fills]
  BY DEF apply
<1> HIDE DEF next
<1> QED BY <1>1, <1>2, <1>3, <1>4 DEF Entries, next

LEMMA DeliverTyped ==
  ASSUME NEW before \in Deliveries, NEW item \in Items
  PROVE  Deliver(before, item) \in Deliveries
<1>1. /\ before.book \in [Orders -> Entries] /\ before.delivered \in Seq(EventRecords)
      /\ before.remaining \in Seq(Items) /\ item.event \in EventRecords
      /\ item.event.order \in Orders
  BY DEF Deliveries, Items, EventRecords
<1>2. Append(before.delivered, item.event) \in Seq(EventRecords)
  BY <1>1, AppendProperties
<1>3. Append(before.remaining, item) \in Seq(Items)
  BY <1>1, AppendProperties
<1>4. [before.book EXCEPT ![item.event.order] = apply(@, item.event)] \in [Orders -> Entries]
  BY <1>1, applyTyped
<1> QED BY <1>1, <1>2, <1>3, <1>4 DEF Deliver, Deliveries

\* EventsAfter's loop is well-defined: every round delivers or keeps one event.
LEMMA DeliveryDef ==
  ASSUME BrokerTyped
  PROVE  /\ Delivery[0] = [book |-> book, delivered |-> delivered, remaining |-> <<>>]
         /\ \A n \in 1..Len(scheduled) : Delivery[n] = Deliver(Delivery[n - 1], scheduled[n])
         /\ \A n \in 0..Len(scheduled) : Delivery[n] \in Deliveries
<1> DEFINE N == Len(scheduled)
           start == [book |-> book, delivered |-> delivered, remaining |-> <<>>]
           step == [x \in Deliveries \X (1..N) |-> Deliver(x[1], scheduled[x[2]])]
<1>1. N \in Nat /\ \A n \in 1..N : scheduled[n] \in Items
  BY DEF BrokerTyped
<1>2. start \in Deliveries
  BY DEF BrokerTyped, Deliveries
<1>3. step \in [Deliveries \X (1..N) -> Deliveries]
  BY <1>1, DeliverTyped
<1>4. ASSUME NEW d \in Deliveries, NEW n \in 1..N PROVE step[<<d, n>>] = Deliver(d, scheduled[n])
  OBVIOUS
<1> HIDE DEF start, step, N
<1>5. PICK f : Loops(f, N, Deliveries, start, step)
  BY <1>1, <1>2, <1>3, LoopExists DEF Rounds
<1>6. ASSUME NEW n \in 0..N
      PROVE  f[n] = IF n = 0 THEN start ELSE Deliver(f[n - 1], scheduled[n])
  <2>1. CASE n = 0
    BY <1>5, <2>1 DEF Loops
  <2>2. CASE n # 0
    <3>1. n \in 1..N /\ n - 1 \in 0..N
      BY <1>1, <2>2
    <3> QED BY <1>4, <1>5, <2>2, <3>1 DEF Loops
  <2> QED BY <2>1, <2>2
<1>7. f = [n \in 0..N |-> IF n = 0 THEN start ELSE Deliver(f[n - 1], scheduled[n])]
  BY <1>5, <1>6 DEF Loops
<1>8. Delivery = CHOOSE g : g = [n \in 0..N |-> IF n = 0 THEN start ELSE Deliver(g[n - 1], scheduled[n])]
  BY DEF Delivery, start, N
<1>9. Delivery = [n \in 0..N |-> IF n = 0 THEN start ELSE Deliver(Delivery[n - 1], scheduled[n])]
  BY <1>7, <1>8
<1>10. Delivery[0] = start
  BY <1>1, <1>9
<1>11. ASSUME NEW n \in 1..N PROVE Delivery[n] = Deliver(Delivery[n - 1], scheduled[n])
  BY <1>1, <1>9
<1>12. \A n \in 0..N : Delivery[n] \in Deliveries
  <2> DEFINE G == {n \in 0..N : Delivery[n] \in Deliveries}
  <2>1. 0 \in G
    BY <1>1, <1>2, <1>10
  <2>2. ASSUME NEW n \in 0..(N - 1), n \in G PROVE n + 1 \in G
    <3>1. n + 1 \in 1..N /\ n + 1 - 1 = n
      BY <1>1
    <3>2. Delivery[n + 1] = Deliver(Delivery[n], scheduled[n + 1])
      BY <1>11, <3>1
    <3>3. scheduled[n + 1] \in Items
      BY <1>1, <3>1
    <3>4. n + 1 \in 0..N
      BY <3>1
    <3> QED BY <2>2, <3>2, <3>3, <3>4, DeliverTyped
  <2> HIDE DEF G
  <2>3. \A n \in 0..N : n \in G
    BY <1>1, <2>1, <2>2, Induction
  <2> QED BY <2>3 DEF G
<1> QED BY <1>10, <1>11, <1>12 DEF N, start

\* What the scripted broker schedules: the suffix of an event tells its type, and the
\* cumulative of a fill; an event carries its suffix as its identity.
SoundEvent(e) ==
  /\ e.id = <<"BROKER", e.exec, 0>>
  /\ e.cum <= Quantity[e.order] /\ e.fill <= e.cum
  /\ \/ e.exec \in {"ack", "ack-late"} /\ e.type = "ACKNOWLEDGED" /\ e.fill = 0
     \/ e.exec = "cancelled" /\ e.type = "CANCELLED" /\ e.fill = 0
     \/ e.exec = "partial" /\ e.type = "PARTIAL_FILL" /\ e.cum = Quantity[e.order] \div 2
     \/ e.exec \in {"fill", "fill-early", "late-fill"} /\ e.type = "FILL" /\ e.cum = Quantity[e.order]

\* f is the execution that event e reports.
Shows(f, e) == e.exec = f.exec /\ e.fill = f.fill /\ e.cum = f.cum /\ e.fill > 0

\* The book b holds exactly what the delivered events d say.
Consistent(b, d) ==
  /\ \A i \in 1..Len(d) :
       SoundEvent(d[i]) /\ b[d[i].order].state # "none" /\ d[i].cum <= b[d[i].order].cum
  /\ \A o \in Orders :
       /\ b[o].cum <= Quantity[o]
       /\ b[o].state = "none" => b[o].cum = 0 /\ b[o].fills = <<>>
       /\ b[o].state = "FILLED" => b[o].cum = Quantity[o]
       /\ b[o].state = "CANCELLED" => \E i \in 1..Len(d) : d[i].order = o /\ d[i].type = "CANCELLED"
       /\ \A k \in 1..Len(b[o].fills) : \E i \in 1..Len(d) : d[i].order = o /\ Shows(b[o].fills[k], d[i])

Scheduled(b, items) ==
  \A i \in 1..Len(items) : SoundEvent(items[i].event) /\ b[items[i].event.order].state # "none"

\* The broker refused the order when it was submitted: nothing but a cancellation of
\* nothing was ever scheduled for it.
RefusedIn(b, d, items, o) ==
  /\ b[o].state \in {"REJECTED", "CANCELLED"} /\ b[o].cum = 0 /\ ~b[o].late
  /\ \A i \in 1..Len(d) : d[i].order = o => d[i].type = "CANCELLED" /\ d[i].cum = 0
  /\ \A i \in 1..Len(items) : items[i].event.order = o => items[i].event.type = "CANCELLED" /\ items[i].event.cum = 0

Refused(o) == RefusedIn(book, delivered, scheduled, o)

BrokerSound ==
  /\ BrokerTyped
  /\ Consistent(book, delivered)
  /\ Scheduled(book, scheduled)
  /\ \A o \in Orders : book[o].state = "REJECTED" => Refused(o)

\* What the broker never takes back.
Extends(b, d, c, e) ==
  /\ Len(d) <= Len(e) /\ \A i \in 1..Len(d) : e[i] = d[i]
  /\ \A o \in Orders : (b[o].state # "none" <=> c[o].state # "none") /\ b[o].cum <= c[o].cum

LEMMA QuantityTyped == \A o \in Orders : Quantity[o] \in Nat \ {0} /\ Quantity[o] \div 2 \in Nat
  /\ Quantity[o] \div 2 <= Quantity[o]
<1>1. ASSUME NEW q \in Nat PROVE q \div 2 \in Nat /\ q \div 2 <= q
  OBVIOUS
<1> QED BY <1>1, CoordinatorAssumption DEF CoordinatorAssumption

\* A round of EventsAfter keeps book and delivered events consistent.
LEMMA DeliverConsistent ==
  ASSUME NEW before \in Deliveries, NEW item \in Items,
         Consistent(before.book, before.delivered),
         SoundEvent(item.event), before.book[item.event.order].state # "none"
  PROVE  LET after == Deliver(before, item) IN
         /\ Consistent(after.book, after.delivered)
         /\ Extends(before.book, before.delivered, after.book, after.delivered)
<1> DEFINE after == Deliver(before, item)
           e == item.event
           b == before.book
           d == before.delivered
           next == apply(b[e.order], e)
<1>1. CASE ~(item.due <= now)
  <2>1. after.book = b /\ after.delivered = d
    BY <1>1 DEF Deliver, Deliveries
  <2>2. Extends(b, d, b, d)
    <3>1. \A o \in Orders : b[o].cum \in Nat
      BY DEF Deliveries, Entries
    <3>2. Len(d) \in Nat
      BY DEF Deliveries
    <3> QED BY <3>1, <3>2 DEF Extends
  <2> QED BY <2>1, <2>2
<1>2. CASE item.due <= now
  <2>1. after.book = [b EXCEPT ![e.order] = next] /\ after.delivered = Append(d, e)
    BY <1>2 DEF Deliver
  <2>2. /\ b \in [Orders -> Entries] /\ d \in Seq(EventRecords) /\ e \in EventRecords /\ e.order \in Orders
        /\ b[e.order] \in Entries /\ e.cum \in Nat /\ e.fill \in Nat
    BY DEF Deliveries, Items, EventRecords
  <2>3. /\ Len(Append(d, e)) = Len(d) + 1 /\ Len(d) \in Nat
        /\ \A i \in 1..Len(d) : Append(d, e)[i] = d[i]
        /\ Append(d, e)[Len(d) + 1] = e
    BY <2>2, AppendProperties
  <2>4. /\ next.cum = IF e.cum >= b[e.order].cum THEN e.cum ELSE b[e.order].cum
        /\ next.fills = IF e.fill > 0
                        THEN Append(b[e.order].fills, [exec |-> e.exec, fill |-> e.fill, cum |-> e.cum])
                        ELSE b[e.order].fills
        /\ next.state = CASE e.type = "ACKNOWLEDGED" /\ b[e.order].state \notin Terminal -> "ACKNOWLEDGED"
                          [] e.type = "PARTIAL_FILL" -> "PARTIALLY_FILLED"
                          [] e.type = "FILL" -> "FILLED"
                          [] e.type = "CANCELLED" -> "CANCELLED"
                          [] OTHER -> b[e.order].state
    BY DEF apply
  <2>5. /\ b[e.order].cum \in Nat /\ b[e.order].cum <= Quantity[e.order]
        /\ Quantity[e.order] \in Nat /\ e.cum <= Quantity[e.order]
        /\ b[e.order].fills \in Seq(Executions)
    BY <2>2, QuantityTyped DEF Consistent, Entries, SoundEvent
  <2>6. next.cum \in Nat /\ next.cum >= b[e.order].cum /\ next.cum >= e.cum /\ next.cum <= Quantity[e.order]
    BY <2>2, <2>4, <2>5
  <2> HIDE DEF next, after
  <2>7. next.state # "none" /\ (next.state = "FILLED" => next.cum = Quantity[e.order])
    <3>1. e.type = "FILL" => e.cum = Quantity[e.order]
      BY DEF SoundEvent
    <3>2. e.type \in {"ACKNOWLEDGED", "PARTIAL_FILL", "FILL", "CANCELLED"}
      BY DEF SoundEvent
    <3>3. b[e.order].state = "FILLED" => b[e.order].cum = Quantity[e.order]
      BY <2>2 DEF Consistent
    <3>4. next.cum \in Nat /\ Quantity[e.order] \in Nat
      BY <2>5, <2>6
    <3>5. CASE e.type = "FILL"
      BY <2>4, <2>5, <2>6, <3>1, <3>4, <3>5
    <3>6. CASE e.type # "FILL"
      <4>1. next.state = "FILLED" => b[e.order].state = "FILLED"
        BY <2>4, <3>2, <3>6
      <4>2. next.state # "none"
        BY <2>4, <3>2, <3>6
      <4> QED BY <2>5, <2>6, <3>3, <3>4, <4>1, <4>2
    <3> QED BY <3>5, <3>6
  <2>8. next.state = "CANCELLED" => b[e.order].state = "CANCELLED" \/ e.type = "CANCELLED"
    <3>1. e.type \in {"ACKNOWLEDGED", "PARTIAL_FILL", "FILL", "CANCELLED"}
      BY DEF SoundEvent
    <3> QED BY <2>4, <3>1
  <2> DEFINE c == [b EXCEPT ![e.order] = next]
             f == Append(d, e)
  <2>9. /\ c[e.order] = next
        /\ \A o \in Orders : o # e.order => c[o] = b[o]
    BY <2>2
  <2>10. Len(f) = Len(d) + 1 /\ (\A i \in 1..Len(d) : f[i] = d[i]) /\ f[Len(d) + 1] = e
    BY <2>3
  <2> HIDE DEF c, f
  <2>11. \A o \in Orders : b[o].cum \in Nat /\ c[o].cum \in Nat /\ b[o].cum <= c[o].cum
    <3>1. \A o \in Orders : b[o].cum \in Nat
      BY <2>2 DEF Entries
    <3> QED BY <2>6, <2>9, <3>1
  <2>12. ASSUME NEW i \in 1..Len(f)
         PROVE  SoundEvent(f[i]) /\ c[f[i].order].state # "none" /\ f[i].cum <= c[f[i].order].cum
    <3>1. CASE i = Len(d) + 1
      BY <2>6, <2>7, <2>9, <2>10, <3>1
    <3>2. CASE i # Len(d) + 1
      <4>1. i \in 1..Len(d)
        BY <2>3, <2>10, <3>2
      <4>2. f[i] = d[i] /\ d[i].order \in Orders /\ d[i].cum \in Nat
        <5>1. d[i] \in EventRecords
          BY <2>2, <4>1
        <5> QED BY <2>10, <4>1, <5>1 DEF EventRecords
      <4>3. SoundEvent(d[i]) /\ b[d[i].order].state # "none" /\ d[i].cum <= b[d[i].order].cum
        BY <4>1 DEF Consistent
      <4>4. c[d[i].order].state # "none"
        BY <2>7, <2>9, <4>2, <4>3
      <4>5. b[d[i].order].cum \in Nat /\ c[d[i].order].cum \in Nat /\ b[d[i].order].cum <= c[d[i].order].cum
        BY <2>11, <4>2
      <4> QED BY <4>2, <4>3, <4>4, <4>5
    <3> QED BY <3>1, <3>2
  <2>13. ASSUME NEW o \in Orders
         PROVE  /\ c[o].cum <= Quantity[o]
                /\ c[o].state = "none" => c[o].cum = 0 /\ c[o].fills = <<>>
                /\ c[o].state = "FILLED" => c[o].cum = Quantity[o]
                /\ c[o].state = "CANCELLED" => \E i \in 1..Len(f) : f[i].order = o /\ f[i].type = "CANCELLED"
    <3>1. Len(d) + 1 \in 1..Len(f) /\ 1..Len(d) \subseteq 1..Len(f)
      BY <2>3, <2>10
    <3>2. CASE o = e.order
      <4>1. b[o].state = "CANCELLED" => \E i \in 1..Len(d) : d[i].order = o /\ d[i].type = "CANCELLED"
        BY DEF Consistent
      <4> QED BY <2>6, <2>7, <2>8, <2>9, <2>10, <3>1, <3>2, <4>1
    <3>3. CASE o # e.order
      BY <2>9, <2>10, <3>1, <3>3 DEF Consistent
    <3> QED BY <3>2, <3>3
  <2>14. ASSUME NEW o \in Orders, NEW k \in 1..Len(c[o].fills)
         PROVE  \E i \in 1..Len(f) : f[i].order = o /\ Shows(c[o].fills[k], f[i])
    <3>1. Len(d) + 1 \in 1..Len(f) /\ 1..Len(d) \subseteq 1..Len(f)
      BY <2>3, <2>10
    <3>2. CASE k \in 1..Len(b[o].fills) /\ c[o].fills[k] = b[o].fills[k]
      <4>1. PICK i \in 1..Len(d) : d[i].order = o /\ Shows(b[o].fills[k], d[i])
        BY <3>2 DEF Consistent
      <4>2. i \in 1..Len(f) /\ f[i] = d[i]
        BY <2>10, <3>1
      <4> QED BY <3>2, <4>1, <4>2
    <3>3. CASE o = e.order /\ e.fill > 0
      <4> DEFINE new == [exec |-> e.exec, fill |-> e.fill, cum |-> e.cum]
      <4>1. c[o].fills = Append(b[o].fills, new)
        BY <2>4, <2>9, <3>3
      <4>2. b[o].fills \in Seq(Executions) /\ new \in Executions
        BY <2>2, <2>5, <3>3 DEF Executions, EventRecords
      <4>3. CASE k = Len(b[o].fills) + 1
        <5>1. c[o].fills[k] = new
          BY <4>1, <4>2, <4>3, AppendProperties
        <5>2. Shows(new, e)
          BY <3>3 DEF Shows
        <5> HIDE DEF new
        <5> QED BY <2>10, <3>1, <3>3, <5>1, <5>2
      <4>4. CASE k # Len(b[o].fills) + 1
        <5>1. k \in 1..Len(b[o].fills) /\ c[o].fills[k] = b[o].fills[k]
          BY <4>1, <4>2, <4>4, AppendProperties
        <5> QED BY <3>2, <5>1
      <4> QED BY <4>3, <4>4
    <3>4. CASE ~(o = e.order /\ e.fill > 0)
      <4>1. c[o].fills = b[o].fills
        BY <2>4, <2>9, <3>4
      <4> QED BY <3>2, <4>1
    <3> QED BY <3>3, <3>4
  <2>15. Consistent(c, f)
    BY <2>12, <2>13, <2>14 DEF Consistent
  <2>16. Extends(b, d, c, f)
    <3>1. \A o \in Orders : b[o].state # "none" <=> c[o].state # "none"
      BY <2>7, <2>9
    <3>2. Len(d) <= Len(f)
      BY <2>3, <2>10
    <3> QED BY <2>10, <2>11, <3>1, <3>2 DEF Extends
  <2>17. after.book = c /\ after.delivered = f
    BY <2>1 DEF c, f
  <2> QED BY <2>15, <2>16, <2>17 DEF after
<1> QED BY <1>1, <1>2

\* A refused order stays refused while events are delivered.
LEMMA DeliverRefused ==
  ASSUME NEW before \in Deliveries, NEW item \in Items, NEW o \in Orders, NEW items \in Seq(Items),
         RefusedIn(before.book, before.delivered, before.remaining, o),
         item.event.order = o => item.event.type = "CANCELLED" /\ item.event.cum = 0
  PROVE  LET after == Deliver(before, item) IN
         RefusedIn(after.book, after.delivered, after.remaining, o)
<1> DEFINE after == Deliver(before, item)
           e == item.event
           b == before.book
           d == before.delivered
           r == before.remaining
<1>1. /\ b \in [Orders -> Entries] /\ d \in Seq(EventRecords) /\ e \in EventRecords /\ e.order \in Orders
      /\ r \in Seq(Items) /\ b[o] \in Entries
  BY DEF Deliveries, Items, EventRecords
<1>2. CASE ~(item.due <= now)
  <2>1. after.book = b /\ after.delivered = d /\ after.remaining = Append(r, item)
    BY <1>2 DEF Deliver, Deliveries
  <2>2. ASSUME NEW i \in 1..Len(Append(r, item)), Append(r, item)[i].event.order = o
        PROVE  Append(r, item)[i].event.type = "CANCELLED" /\ Append(r, item)[i].event.cum = 0
    BY <1>1, <2>2, AppendProperties DEF RefusedIn
  <2> QED BY <2>1, <2>2 DEF RefusedIn
<1>3. CASE item.due <= now
  <2>1. /\ after.book = [b EXCEPT ![e.order] = apply(b[e.order], e)]
        /\ after.delivered = Append(d, e) /\ after.remaining = r
    BY <1>3 DEF Deliver
  <2>2. ASSUME NEW i \in 1..Len(Append(d, e)), Append(d, e)[i].order = o
        PROVE  Append(d, e)[i].type = "CANCELLED" /\ Append(d, e)[i].cum = 0
    BY <1>1, <2>2, AppendProperties DEF RefusedIn
  <2>3. LET x == after.book[o] IN x.state \in {"REJECTED", "CANCELLED"} /\ x.cum = 0 /\ ~x.late
    <3>1. CASE e.order = o
      <4>1. after.book[o] = apply(b[o], e)
        BY <1>1, <2>1, <3>1
      <4>2. e.type = "CANCELLED" /\ e.cum = 0 /\ b[o].cum = 0 /\ ~b[o].late
        BY <3>1 DEF RefusedIn
      <4> QED BY <4>1, <4>2 DEF apply
    <3>2. CASE e.order # o
      BY <1>1, <2>1, <3>2 DEF RefusedIn
    <3> QED BY <3>1, <3>2
  <2> HIDE DEF after
  <2>4. RefusedIn(after.book, after.delivered, after.remaining, o)
    BY <2>1, <2>2, <2>3 DEF RefusedIn
  <2> QED BY <2>4 DEF after
<1> QED BY <1>2, <1>3

\* The remaining events are events that were scheduled before.
Keeps(r, n) == \A i \in 1..Len(r) : \E j \in 1..n : r[i] = scheduled[j]

LEMMA DeliverKeeps ==
  ASSUME BrokerTyped, NEW n \in 1..Len(scheduled), NEW before \in Deliveries,
         Keeps(before.remaining, n - 1)
  PROVE  Keeps(Deliver(before, scheduled[n]).remaining, n)
<1> DEFINE r == before.remaining
<1>1. r \in Seq(Items) /\ scheduled[n] \in Items /\ Len(scheduled) \in Nat
  BY DEF Deliveries, BrokerTyped
<1>2. 1..(n - 1) \subseteq 1..n /\ n \in 1..n
  BY <1>1
<1>3. Keeps(r, n)
  BY <1>2 DEF Keeps
<1>4. ASSUME NEW i \in 1..Len(Append(r, scheduled[n]))
      PROVE  \E j \in 1..n : Append(r, scheduled[n])[i] = scheduled[j]
  <2>1. CASE i = Len(r) + 1
    BY <1>1, <1>2, <2>1, AppendProperties
  <2>2. CASE i # Len(r) + 1
    <3>1. i \in 1..Len(r) /\ Append(r, scheduled[n])[i] = r[i]
      BY <1>1, <2>2, AppendProperties
    <3> QED BY <1>3, <3>1 DEF Keeps
  <2> QED BY <2>1, <2>2
<1>5. Deliver(before, scheduled[n]).remaining \in {r, Append(r, scheduled[n])}
  BY DEF Deliver, Deliveries
<1> QED BY <1>3, <1>4, <1>5 DEF Keeps

BookTyped(b, d) == b \in [Orders -> Entries] /\ d \in Seq(EventRecords)

LEMMA ExtendsTransitive ==
  ASSUME NEW b, NEW d, NEW c, NEW e, NEW x, NEW y,
         BookTyped(b, d), BookTyped(c, e), BookTyped(x, y),
         Extends(b, d, c, e), Extends(c, e, x, y)
  PROVE  Extends(b, d, x, y)
<1>1. Len(d) \in Nat /\ Len(e) \in Nat /\ Len(y) \in Nat
  BY DEF BookTyped
<1>2. \A o \in Orders : b[o].cum \in Nat /\ c[o].cum \in Nat /\ x[o].cum \in Nat
  BY DEF Entries, BookTyped
<1>3. \A i \in 1..Len(d) : y[i] = d[i]
  BY <1>1 DEF Extends
<1> QED BY <1>1, <1>2, <1>3 DEF Extends

\* EventsAfter keeps the broker sound, and takes nothing back.
LEMMA EventsAfterStep ==
  ASSUME BrokerSound, EventsAfter
  PROVE  /\ BrokerSound'
         /\ Extends(book, delivered, book', delivered')
         /\ \A o \in Orders : Refused(o) => Refused(o)'
<1> DEFINE N == Len(scheduled)
           D(n) == Delivery[n]
           Sound(n) == /\ Consistent(D(n).book, D(n).delivered)
                       /\ Extends(book, delivered, D(n).book, D(n).delivered)
                       /\ Keeps(D(n).remaining, n)
                       /\ \A o \in Orders : Refused(o) => RefusedIn(D(n).book, D(n).delivered, D(n).remaining, o)
                       /\ \A o \in Orders : D(n).book[o].state = "REJECTED" => book[o].state = "REJECTED"
           G == {n \in 0..N : Sound(n)}
<1>0. BrokerTyped /\ N \in Nat /\ \A n \in 1..N : scheduled[n] \in Items
  BY DEF BrokerSound, BrokerTyped
<1>1. /\ D(0) = [book |-> book, delivered |-> delivered, remaining |-> <<>>]
      /\ \A n \in 1..N : D(n) = Deliver(D(n - 1), scheduled[n])
      /\ \A n \in 0..N : D(n) \in Deliveries
  BY <1>0, DeliveryDef
<1> HIDE DEF D
<1>2. 0 \in G
  <2>1. Extends(book, delivered, book, delivered)
    <3>1. \A o \in Orders : book[o].cum \in Nat
      BY <1>0 DEF BrokerTyped, Entries
    <3>2. Len(delivered) \in Nat
      BY <1>0 DEF BrokerTyped
    <3> QED BY <3>1, <3>2 DEF Extends
  <2>2. Keeps(D(0).remaining, 0)
    BY <1>1 DEF Keeps
  <2>3. ASSUME NEW o \in Orders, Refused(o)
        PROVE  RefusedIn(D(0).book, D(0).delivered, D(0).remaining, o)
    BY <1>1, <2>3 DEF Refused, RefusedIn
  <2>4. Sound(0)
    BY <1>1, <2>1, <2>2, <2>3 DEF BrokerSound
  <2> QED BY <1>0, <2>4
<1>3. ASSUME NEW n \in 0..(N - 1), n \in G PROVE n + 1 \in G
  <2>1. n + 1 \in 1..N /\ n \in 0..N /\ n + 1 \in 0..N /\ n + 1 - 1 = n
    BY <1>0
  <2>2. D(n) \in Deliveries /\ D(n + 1) \in Deliveries /\ D(n + 1) = Deliver(D(n), scheduled[n + 1])
    BY <1>1, <2>1
  <2>3. Sound(n)
    BY <1>3
  <2> DEFINE item == scheduled[n + 1]
  <2>4. item \in Items /\ item.event.order \in Orders
    BY <1>0, <2>1 DEF Items, EventRecords
  <2>5. SoundEvent(item.event) /\ book[item.event.order].state # "none"
    BY <2>1 DEF BrokerSound, Scheduled
  <2>6. D(n).book[item.event.order].state # "none"
    BY <2>3, <2>4, <2>5 DEF Extends
  <2>7. /\ Consistent(D(n + 1).book, D(n + 1).delivered)
        /\ Extends(D(n).book, D(n).delivered, D(n + 1).book, D(n + 1).delivered)
    BY <2>2, <2>3, <2>4, <2>5, <2>6, DeliverConsistent
  <2>8. Extends(book, delivered, D(n + 1).book, D(n + 1).delivered)
    <3>1. /\ BookTyped(D(n).book, D(n).delivered)
          /\ BookTyped(D(n + 1).book, D(n + 1).delivered)
          /\ BookTyped(book, delivered)
      BY <1>0, <2>2 DEF Deliveries, BrokerTyped, BookTyped
    <3>2. Extends(book, delivered, D(n).book, D(n).delivered)
      BY <2>3
    <3> QED BY <2>7, <3>1, <3>2, ExtendsTransitive
  <2>9. Keeps(D(n + 1).remaining, n + 1)
    <3>1. Keeps(D(n).remaining, n + 1 - 1)
      BY <2>1, <2>3
    <3> QED BY <1>0, <2>1, <2>2, <3>1, DeliverKeeps
  <2>10. ASSUME NEW o \in Orders, Refused(o)
         PROVE  RefusedIn(D(n + 1).book, D(n + 1).delivered, D(n + 1).remaining, o)
    <3>1. RefusedIn(D(n).book, D(n).delivered, D(n).remaining, o)
      BY <2>3, <2>10
    <3>2. item.event.order = o => item.event.type = "CANCELLED" /\ item.event.cum = 0
      BY <2>1, <2>10 DEF Refused, RefusedIn
    <3>3. <<>> \in Seq(Items)
      OBVIOUS
    <3> QED BY <2>2, <2>4, <3>1, <3>2, <3>3, DeliverRefused
  <2>11. ASSUME NEW o \in Orders, D(n + 1).book[o].state = "REJECTED"
         PROVE  book[o].state = "REJECTED"
    <3>1. D(n).book \in [Orders -> Entries]
      BY <2>2 DEF Deliveries
    <3>2. item.event.type \in {"ACKNOWLEDGED", "PARTIAL_FILL", "FILL", "CANCELLED"}
      BY <2>5 DEF SoundEvent
    <3>3. D(n + 1).book = D(n).book \/
          D(n + 1).book = [D(n).book EXCEPT ![item.event.order] = apply(@, item.event)]
      <4>1. ~(item.due <= now) => D(n + 1) = [D(n) EXCEPT !.remaining = Append(@, item)]
        BY <2>2 DEF Deliver
      <4>2. item.due <= now => D(n + 1).book = [D(n).book EXCEPT ![item.event.order] = apply(@, item.event)]
        BY <2>2 DEF Deliver
      <4>3. [D(n) EXCEPT !.remaining = Append(@, item)].book = D(n).book
        BY <2>2 DEF Deliveries
      <4> QED BY <4>1, <4>2, <4>3
    <3>4. apply(D(n).book[o], item.event).state = "REJECTED" => D(n).book[o].state = "REJECTED"
      BY <3>2 DEF apply
    <3>5. D(n).book[o].state = "REJECTED"
      BY <2>4, <2>11, <3>1, <3>3, <3>4
    <3> QED BY <2>3, <3>5
  <2> HIDE DEF item
  <2> QED BY <2>1, <2>7, <2>8, <2>9, <2>10, <2>11
<1>4. N \in G
  <2> HIDE DEF G
  <2>1. \A n \in 0..N : n \in G
    BY <1>0, <1>2, <1>3, Induction
  <2> QED BY <1>0, <2>1
<1>5. Sound(N)
  BY <1>4
<1>6. /\ book' = D(N).book /\ delivered' = D(N).delivered /\ scheduled' = D(N).remaining
      /\ UNCHANGED <<now, script, attempts>>
  BY DEF EventsAfter, D
<1>7. BrokerTyped'
  <2>1. D(N) \in Deliveries
    BY <1>0, <1>1
  <2> QED BY <1>0, <1>6, <2>1 DEF BrokerTyped, Deliveries
<1>8. (Consistent(book, delivered))'
  <2>1. Consistent(book', delivered')
    BY <1>5, <1>6
  <2> QED BY <2>1 DEF Consistent, SoundEvent, Shows
<1>9. Extends(book, delivered, book', delivered')
  BY <1>5, <1>6
<1>10. (Scheduled(book, scheduled))'
  <2>1. ASSUME NEW i \in 1..Len(scheduled')
        PROVE  SoundEvent(scheduled'[i].event) /\ book'[scheduled'[i].event.order].state # "none"
    <3>1. PICK j \in 1..N : scheduled'[i] = scheduled[j]
      BY <1>5, <1>6 DEF Keeps
    <3>2. SoundEvent(scheduled[j].event) /\ book[scheduled[j].event.order].state # "none"
      BY DEF BrokerSound, Scheduled
    <3>3. scheduled[j].event.order \in Orders
      BY <1>0 DEF Items, EventRecords
    <3>4. book'[scheduled[j].event.order].state # "none"
      BY <1>9, <3>2, <3>3 DEF Extends
    <3> QED BY <3>1, <3>2, <3>4
  <2> QED BY <2>1 DEF Scheduled, SoundEvent
<1>11. ASSUME NEW o \in Orders, Refused(o) PROVE Refused(o)'
  <2>1. RefusedIn(book', delivered', scheduled', o)
    BY <1>5, <1>6, <1>11
  <2> QED BY <2>1 DEF Refused, RefusedIn
<1>12. ASSUME NEW o \in Orders, book'[o].state = "REJECTED" PROVE Refused(o)'
  BY <1>5, <1>6, <1>11, <1>12 DEF BrokerSound
<1> QED BY <1>7, <1>8, <1>9, <1>10, <1>11, <1>12 DEF BrokerSound

\* What no step of the broker takes back.
Grows ==
  /\ Len(delivered) <= Len(delivered') /\ \A i \in 1..Len(delivered) : delivered'[i] = delivered[i]
  /\ \A o \in Orders : (Placed(o) => Placed(o)') /\ book[o].cum <= book'[o].cum
  /\ \A o \in Orders : Refused(o) => Refused(o)'

LEMMA GrowsIdle ==
  ASSUME BrokerSound, UNCHANGED <<book, delivered, scheduled>>
  PROVE  Grows
<1>1. \A o \in Orders : book[o].cum \in Nat
  BY DEF BrokerSound, BrokerTyped, Entries
<1>2. Len(delivered) \in Nat
  BY DEF BrokerSound, BrokerTyped
<1> QED BY <1>1, <1>2 DEF Grows, Placed, Refused, RefusedIn

LEMMA GrowsAfterEvents ==
  ASSUME BrokerSound, EventsAfter
  PROVE  Grows /\ \A o \in Orders : Placed(o)' <=> Placed(o)
<1>1. Extends(book, delivered, book', delivered') /\ \A o \in Orders : Refused(o) => Refused(o)'
  BY EventsAfterStep
<1> QED BY <1>1 DEF Grows, Extends, Placed

\* Scheduling sound events of placed orders.
LEMMA Reschedule ==
  ASSUME BrokerSound, NEW items \in Seq(Items),
         \A i \in 1..Len(items) : SoundEvent(items[i].event) /\ book'[items[i].event.order].state # "none",
         scheduled' = scheduled \o items,
         book' \in [Orders -> Entries],
         UNCHANGED <<now, delivered>>, script' \in Seq(Scenarios), attempts' \in Nat,
         \A o \in Orders : Placed(o) => book'[o] = book[o],
         \A o \in Orders : ~Placed(o) => book'[o].cum = 0 /\ book'[o].fills = <<>>
                             /\ book'[o].state \in {"none", "SUBMITTED", "REJECTED"},
         \A o \in Orders : ~Placed(o) /\ book'[o].state = "REJECTED" => ~book'[o].late,
         \A o \in Orders : Refused(o) \/ (~Placed(o) /\ book'[o].state = "REJECTED") =>
           \A i \in 1..Len(items) : items[i].event.order = o =>
             items[i].event.type = "CANCELLED" /\ items[i].event.cum = 0
  PROVE  BrokerSound' /\ Grows
<1>0. /\ BrokerTyped /\ scheduled \in Seq(Items) /\ delivered \in Seq(EventRecords)
      /\ book \in [Orders -> Entries]
  BY DEF BrokerSound, BrokerTyped
<1>1. /\ scheduled' \in Seq(Items) /\ Len(scheduled') = Len(scheduled) + Len(items)
      /\ Len(scheduled) \in Nat /\ Len(items) \in Nat
      /\ \A i \in 1..Len(scheduled') :
           scheduled'[i] = IF i <= Len(scheduled) THEN scheduled[i] ELSE items[i - Len(scheduled)]
  BY <1>0, ConcatProperties
<1>2. BrokerTyped'
  BY <1>0, <1>1 DEF BrokerTyped
<1>3. ASSUME NEW i \in 1..Len(scheduled')
      PROVE  \/ i \in 1..Len(scheduled) /\ scheduled'[i] = scheduled[i]
             \/ i - Len(scheduled) \in 1..Len(items) /\ scheduled'[i] = items[i - Len(scheduled)]
  BY <1>1
<1>4. \A o \in Orders : Placed(o) => Placed(o)'
  BY DEF Placed
<1>5. (Scheduled(book, scheduled))'
  <2>1. ASSUME NEW i \in 1..Len(scheduled')
        PROVE  SoundEvent(scheduled'[i].event) /\ book'[scheduled'[i].event.order].state # "none"
    <3>1. CASE i \in 1..Len(scheduled) /\ scheduled'[i] = scheduled[i]
      <4>1. SoundEvent(scheduled[i].event) /\ Placed(scheduled[i].event.order)
        BY <3>1 DEF BrokerSound, Scheduled, Placed
      <4>2. scheduled[i].event.order \in Orders
        <5>1. scheduled[i] \in Items
          BY <1>0, <3>1
        <5> QED BY <5>1 DEF Items, EventRecords
      <4> QED BY <1>4, <3>1, <4>1, <4>2 DEF Placed
    <3>2. CASE i - Len(scheduled) \in 1..Len(items) /\ scheduled'[i] = items[i - Len(scheduled)]
      BY <3>2 DEF Placed
    <3> QED BY <1>3, <3>1, <3>2
  <2> QED BY <2>1 DEF Scheduled, SoundEvent
<1>6. ASSUME NEW i \in 1..Len(delivered)
      PROVE  delivered[i].order \in Orders /\ Placed(delivered[i].order)
  <2>1. delivered[i] \in EventRecords
    BY <1>0
  <2> QED BY <2>1 DEF BrokerSound, Consistent, Placed, EventRecords
<1>7. (Consistent(book, delivered))'
  <2>1. \A i \in 1..Len(delivered) : SoundEvent(delivered[i])
          /\ book'[delivered[i].order].state # "none" /\ delivered[i].cum <= book'[delivered[i].order].cum
    BY <1>6 DEF BrokerSound, Consistent, Placed
  <2>2. ASSUME NEW o \in Orders
        PROVE  /\ book'[o].cum <= Quantity[o]
               /\ book'[o].state = "none" => book'[o].cum = 0 /\ book'[o].fills = <<>>
               /\ book'[o].state = "FILLED" => book'[o].cum = Quantity[o]
               /\ book'[o].state = "CANCELLED" =>
                    \E i \in 1..Len(delivered) : delivered[i].order = o /\ delivered[i].type = "CANCELLED"
               /\ \A k \in 1..Len(book'[o].fills) : \E i \in 1..Len(delivered) :
                    delivered[i].order = o /\ Shows(book'[o].fills[k], delivered[i])
    <3>1. CASE Placed(o)
      <4>1. book'[o] = book[o]
        BY <3>1
      <4>2. Consistent(book, delivered)
        BY DEF BrokerSound
      <4> QED BY <4>1, <4>2 DEF Consistent
    <3>2. CASE ~Placed(o)
      <4>1. Quantity[o] \in Nat
        BY QuantityTyped
      <4> QED BY <3>2, <4>1
    <3> QED BY <3>1, <3>2
  <2> QED BY <2>1, <2>2 DEF Consistent, SoundEvent, Shows
<1>8. ASSUME NEW o \in Orders, Refused(o) \/ book'[o].state = "REJECTED" PROVE Refused(o)'
  <2>1. Refused(o) \/ (~Placed(o) /\ book'[o].state = "REJECTED")
    BY <1>8 DEF BrokerSound, Placed
  <2>2. /\ book'[o].state \in {"REJECTED", "CANCELLED"} /\ book'[o].cum = 0 /\ ~book'[o].late
    <3>1. CASE Refused(o)
      <4>1. Placed(o)
        BY <3>1 DEF Refused, RefusedIn, Placed
      <4> QED BY <3>1, <4>1 DEF Refused, RefusedIn
    <3>2. CASE ~Placed(o) /\ book'[o].state = "REJECTED"
      BY <3>2
    <3> QED BY <2>1, <3>1, <3>2
  <2>3. ASSUME NEW i \in 1..Len(delivered), delivered[i].order = o
        PROVE  delivered[i].type = "CANCELLED" /\ delivered[i].cum = 0
    <3>1. Refused(o)
      BY <1>6, <2>1, <2>3
    <3> QED BY <2>3, <3>1 DEF Refused, RefusedIn
  <2>4. ASSUME NEW i \in 1..Len(scheduled'), scheduled'[i].event.order = o
        PROVE  scheduled'[i].event.type = "CANCELLED" /\ scheduled'[i].event.cum = 0
    <3>1. CASE i \in 1..Len(scheduled) /\ scheduled'[i] = scheduled[i]
      <4>1. Placed(o)
        BY <2>4, <3>1 DEF BrokerSound, Scheduled, Placed
      <4>2. Refused(o)
        BY <2>1, <4>1
      <4> QED BY <2>4, <3>1, <4>2 DEF Refused, RefusedIn
    <3>2. CASE i - Len(scheduled) \in 1..Len(items) /\ scheduled'[i] = items[i - Len(scheduled)]
      BY <2>1, <2>4, <3>2
    <3> QED BY <1>3, <3>1, <3>2
  <2>5. RefusedIn(book', delivered', scheduled', o)
    BY <2>2, <2>3, <2>4 DEF RefusedIn
  <2> QED BY <2>5 DEF Refused, RefusedIn
<1>9. Grows
  <2>1. \A o \in Orders : book[o].cum <= book'[o].cum
    <3>1. ASSUME NEW o \in Orders PROVE book[o].cum <= book'[o].cum
      <4>1. book[o].cum \in Nat
        BY <1>0 DEF Entries
      <4>2. ~Placed(o) => book[o].cum = 0
        BY DEF Placed, BrokerSound, Consistent
      <4> QED BY <4>1, <4>2
    <3> QED BY <3>1
  <2>2. Len(delivered) \in Nat
    BY <1>0
  <2> QED BY <1>4, <1>8, <2>1, <2>2 DEF Grows
<1> QED BY <1>2, <1>5, <1>7, <1>8, <1>9 DEF BrokerSound

\* What Submit schedules is sound.
LEMMA FollowupsSound ==
  ASSUME now \in Nat, NEW o \in Orders, NEW behavior \in Behaviors,
         behavior = "PARTIAL_FILL" => Quantity[o] >= 2
  PROVE  LET items == <<At(now, Event(o, "ack", "ACKNOWLEDGED", 0, 0))>> \o Followups(o, behavior) IN
         /\ items \in Seq(Items)
         /\ \A i \in 1..Len(items) : SoundEvent(items[i].event) /\ items[i].event.order = o
<1> DEFINE q == Quantity[o]
           S == {x \in Items : SoundEvent(x.event) /\ x.event.order = o}
<1>1. q \in Nat /\ q \div 2 \in Nat /\ q \div 2 <= q /\ q - (q \div 2) \in Nat /\ q - (q \div 2) <= q
  <2>1. ASSUME NEW n \in Nat, NEW m \in Nat, m <= n PROVE n - m \in Nat /\ n - m <= n
    <3>1. n \in Int /\ m \in Int /\ 0 <= m
      OBVIOUS
    <3> QED BY <3>1, <2>1
  <2> QED BY <2>1, QuantityTyped
<1>2. ASSUME NEW due \in Nat, NEW suffix \in {"ack", "partial", "fill", "fill-early", "ack-late"},
             NEW type \in {"ACKNOWLEDGED", "PARTIAL_FILL", "FILL"}, NEW cum \in Nat, NEW fill \in Nat,
             cum <= q, fill <= cum \/ fill = 0,
             \/ suffix \in {"ack", "ack-late"} /\ type = "ACKNOWLEDGED" /\ fill = 0
             \/ suffix = "partial" /\ type = "PARTIAL_FILL" /\ cum = q \div 2
             \/ suffix \in {"fill", "fill-early"} /\ type = "FILL" /\ cum = q
      PROVE  At(due, Event(o, suffix, type, cum, fill)) \in S
  <2>1. <<"BROKER", suffix, 0>> \in Identities
    BY DEF Identities, Keys, Suffixes
  <2>2. Event(o, suffix, type, cum, fill) \in EventRecords
    BY <2>1 DEF Event, EventRecords, Suffixes, ReportTypes
  <2>3. SoundEvent(Event(o, suffix, type, cum, fill))
    BY <1>2 DEF Event, SoundEvent
  <2>4. Event(o, suffix, type, cum, fill).order = o
    BY DEF Event
  <2> QED BY <2>2, <2>3, <2>4 DEF At, Items
<1>3. now + 1 \in Nat
  OBVIOUS
<1>4. At(now, Event(o, "ack", "ACKNOWLEDGED", 0, 0)) \in S
  BY <1>1, <1>2
<1>5. /\ At(now, Event(o, "fill", "FILL", q, q)) \in S
      /\ At(now + 1, Event(o, "fill", "FILL", q, q)) \in S
      /\ At(now, Event(o, "fill-early", "FILL", q, q)) \in S
  BY <1>1, <1>2, <1>3
<1>6. /\ At(now, Event(o, "partial", "PARTIAL_FILL", q \div 2, q \div 2)) \in S
      /\ At(now + 1, Event(o, "fill", "FILL", q, q - (q \div 2))) \in S
  BY <1>1, <1>2, <1>3
<1>7. At(now, Event(o, "ack-late", "ACKNOWLEDGED", q, 0)) \in S
  BY <1>1, <1>2
<1> DEFINE items == <<At(now, Event(o, "ack", "ACKNOWLEDGED", 0, 0))>> \o Followups(o, behavior)
<1> HIDE DEF S
<1>8. Followups(o, behavior) \in Seq(S)
  BY <1>5, <1>6, <1>7 DEF Followups
<1>9. items \in Seq(S)
  <2>1. <<At(now, Event(o, "ack", "ACKNOWLEDGED", 0, 0))>> \in Seq(S)
    BY <1>4
  <2> QED BY <1>8, <2>1, ConcatProperties
<1> HIDE DEF items
<1>10. items \in Seq(Items) /\ \A i \in 1..Len(items) : SoundEvent(items[i].event) /\ items[i].event.order = o
  BY <1>9 DEF S
<1> QED BY <1>10 DEF items

\* Submit keeps the broker sound; an accepted order is in the book, a rejected one was
\* refused, and no other order enters it.
LEMMA SubmitStep ==
  ASSUME BrokerSound, NEW o \in Orders, NEW result, Submit(o, result)
  PROVE  /\ BrokerSound' /\ Grows
         /\ result = "accepted" => Placed(o)'
         /\ result = "rejected" => Refused(o)'
         /\ \A x \in Orders : x # o => (Placed(x)' <=> Placed(x))
<1>0. /\ BrokerTyped /\ book \in [Orders -> Entries] /\ now \in Nat /\ script \in Seq(Scenarios)
      /\ scheduled \in Seq(Items)
  BY DEF BrokerSound, BrokerTyped
<1>1. CASE UNCHANGED brokerVars
  <2>1. BrokerSound'
    BY <1>1 DEF BrokerSound, BrokerTyped, Consistent, Scheduled, SoundEvent, Shows, Refused, RefusedIn, brokerVars
  <2>2. Grows
    BY <1>1, GrowsIdle DEF brokerVars
  <2>3. \A x \in Orders : Placed(x)' <=> Placed(x)
    BY <1>1 DEF Placed, brokerVars
  <2>4. result = "accepted" => Placed(o)
    <3>1. ~Placed(o) => result # "accepted"
      <4>1. SUFFICES ASSUME ~Placed(o), result = "accepted" PROVE FALSE
        OBVIOUS
      <4>2. (script # <<>> /\ script' = Tail(script)) \/ result = "unknown"
        BY <4>1 DEF Submit, Place
      <4>3. script' = script
        BY <1>1 DEF brokerVars
      <4>4. Len(Tail(script)) = Len(script) - 1 /\ Len(script) \in Nat
        BY <1>0, <4>1, <4>2, HeadTailProperties
      <4> QED BY <4>1, <4>2, <4>3, <4>4
    <3> QED BY <3>1
  <2>5. result = "rejected" => Refused(o)
    <3>1. ~Placed(o) => result # "rejected"
      <4>1. SUFFICES ASSUME ~Placed(o), result = "rejected" PROVE FALSE
        OBVIOUS
      <4>2. (script # <<>> /\ script' = Tail(script)) \/ result = "unknown"
        BY <4>1 DEF Submit, Place
      <4>3. script' = script
        BY <1>1 DEF brokerVars
      <4>4. Len(Tail(script)) = Len(script) - 1 /\ Len(script) \in Nat
        BY <1>0, <4>1, <4>2, HeadTailProperties
      <4> QED BY <4>1, <4>2, <4>3, <4>4
    <3>2. Placed(o) /\ result = "rejected" => book[o].state = "REJECTED"
      BY DEF Submit
    <3> QED BY <3>1, <3>2 DEF BrokerSound
  <2> QED BY <2>1, <2>2, <2>3, <2>4, <2>5 DEF Grows
<1>2. CASE ~UNCHANGED brokerVars
  <2> DEFINE behavior == Head(script).behavior
             items == IF behavior = "REJECT" THEN <<>>
                      ELSE <<At(now, Event(o, "ack", "ACKNOWLEDGED", 0, 0))>> \o Followups(o, behavior)
             entry == [state |-> IF behavior = "REJECT" THEN "REJECTED" ELSE "SUBMITTED",
                       cum |-> 0, late |-> behavior = "LATE_FILL", fills |-> <<>>]
  <2>1. /\ ~Placed(o) /\ script # <<>> /\ Place(o, behavior) /\ result = Answer(behavior)
        /\ ~(behavior = "PARTIAL_FILL" /\ Quantity[o] < 2)
    BY <1>2 DEF Submit
  <2>2. behavior \in Behaviors /\ Tail(script) \in Seq(Scenarios)
    <3>1. Head(script) \in Scenarios /\ Tail(script) \in Seq(Scenarios)
      BY <1>0, <2>1, HeadTailProperties
    <3> QED BY <3>1 DEF Scenarios
  <2>3. items \in Seq(Items) /\ \A i \in 1..Len(items) : SoundEvent(items[i].event) /\ items[i].event.order = o
    <3>1. CASE behavior = "REJECT"
      BY <3>1
    <3>2. CASE behavior # "REJECT"
      <4>1. behavior = "PARTIAL_FILL" => Quantity[o] >= 2
        BY <2>1, QuantityTyped
      <4> HIDE DEF behavior
      <4> QED BY <1>0, <2>2, <3>2, <4>1, FollowupsSound
    <3> QED BY <3>1, <3>2
  <2>4. scheduled' = scheduled \o items
    BY <2>1 DEF Place
  <2>5. entry \in Entries /\ book' = [book EXCEPT ![o] = entry]
    <3>1. <<>> \in Seq(Executions)
      OBVIOUS
    <3> QED BY <2>1, <3>1 DEF Place, Entries, OrderStates
  <2>6. UNCHANGED <<now, delivered>> /\ script' \in Seq(Scenarios) /\ attempts' \in Nat
    BY <2>1, <2>2 DEF Place
  <2>7. entry.state \in {"SUBMITTED", "REJECTED"} /\ entry.cum = 0 /\ entry.fills = <<>>
        /\ (entry.state = "REJECTED" => ~entry.late /\ items = <<>>)
        /\ (behavior = "REJECT" => entry.state = "REJECTED")
    OBVIOUS
  <2>8. (result = "rejected" => behavior = "REJECT") /\ (result = "accepted" => TRUE)
    BY <2>1 DEF Answer
  <2> HIDE DEF items, entry, behavior
  <2>9. Placed(o)' /\ \A x \in Orders : x # o => book'[x] = book[x]
    BY <1>0, <2>5, <2>7 DEF Placed
  <2>10. book' \in [Orders -> Entries] /\ book'[o] = entry
    BY <1>0, <2>5
  <2>11. \A x \in Orders : Placed(x) => book'[x] = book[x]
    BY <2>1, <2>9
  <2>12. \A x \in Orders : ~Placed(x) => book'[x].cum = 0 /\ book'[x].fills = <<>>
                             /\ book'[x].state \in {"none", "SUBMITTED", "REJECTED"}
    <3>1. ASSUME NEW x \in Orders, ~Placed(x), x # o
          PROVE  book[x].cum = 0 /\ book[x].fills = <<>> /\ book[x].state = "none"
      BY <3>1 DEF Placed, BrokerSound, Consistent
    <3> QED BY <2>7, <2>9, <2>10, <3>1
  <2>13. \A x \in Orders : ~Placed(x) /\ book'[x].state = "REJECTED" => ~book'[x].late
    <3>1. ASSUME NEW x \in Orders, ~Placed(x), x # o
          PROVE  book'[x].state = "none"
      BY <2>9, <3>1 DEF Placed
    <3> QED BY <2>7, <2>10, <3>1
  <2>14. ASSUME NEW x \in Orders, Refused(x) \/ (~Placed(x) /\ book'[x].state = "REJECTED"),
                NEW i \in 1..Len(items), items[i].event.order = x
         PROVE  items[i].event.type = "CANCELLED" /\ items[i].event.cum = 0
    <3>1. x = o
      BY <2>3, <2>14
    <3>2. ~Refused(x)
      BY <2>1, <3>1 DEF Refused, RefusedIn, Placed
    <3>3. items = <<>>
      BY <2>7, <2>10, <2>14, <3>1, <3>2
    <3>4. 1..Len(<<>>) = {}
      OBVIOUS
    <3> QED BY <3>3, <3>4
  <2>15. \A i \in 1..Len(items) : SoundEvent(items[i].event) /\ book'[items[i].event.order].state # "none"
    BY <2>3, <2>9 DEF Placed
  <2>16. BrokerSound' /\ Grows
    BY <2>3, <2>4, <2>6, <2>10, <2>11, <2>12, <2>13, <2>14, <2>15, Reschedule
  <2>17. result = "rejected" => Refused(o)'
    <3>1. result = "rejected" => book'[o].state = "REJECTED"
      BY <2>7, <2>8, <2>10
    <3> QED BY <2>16, <3>1 DEF BrokerSound
  <2> QED BY <2>9, <2>16, <2>17 DEF Placed
<1> QED BY <1>1, <1>2

LEMMA SubmitUnavailableStep ==
  ASSUME BrokerSound, NEW o, SubmitUnavailable(o)
  PROVE  BrokerSound' /\ Grows /\ \A x \in Orders : Placed(x)' <=> Placed(x)
<1>1. UNCHANGED <<now, book, scheduled, delivered, script>>
  BY DEF SubmitUnavailable
<1>2. attempts' \in Nat
  BY DEF SubmitUnavailable, BrokerSound, BrokerTyped
<1>3. BrokerSound'
  BY <1>1, <1>2 DEF BrokerSound, BrokerTyped, Consistent, Scheduled, SoundEvent, Shows, Refused, RefusedIn
<1> QED BY <1>1, <1>3, GrowsIdle DEF Placed

LEMMA CancelAcceptedStep ==
  ASSUME BrokerSound, NEW o \in Orders, CancelAccepted(o)
  PROVE  BrokerSound' /\ Grows /\ \A x \in Orders : Placed(x)' <=> Placed(x)
<1> DEFINE q == Quantity[o]
           cum == book[o].cum
           cancelled == At(now, Event(o, "cancelled", "CANCELLED", cum, 0))
           filled == At(now + 1, Event(o, "late-fill", "FILL", q, q - cum))
           items == IF book[o].late THEN <<cancelled, filled>> ELSE <<cancelled>>
<1>0. /\ BrokerTyped /\ book \in [Orders -> Entries] /\ now \in Nat /\ script \in Seq(Scenarios)
      /\ scheduled \in Seq(Items) /\ now + 1 \in Nat /\ attempts \in Nat
  BY DEF BrokerSound, BrokerTyped
<1>1. Placed(o) /\ scheduled' = scheduled \o items /\ UNCHANGED <<now, book, delivered, script, attempts>>
  BY DEF CancelAccepted
<1>2. q \in Nat /\ cum \in Nat /\ cum <= q /\ q - cum \in Nat /\ q - cum <= q
  <2>1. q \in Nat /\ cum \in Nat /\ cum <= q
    BY <1>0, QuantityTyped DEF Entries, BrokerSound, Consistent
  <2> HIDE DEF q, cum
  <2> QED BY <2>1
<1>3. cancelled \in Items /\ SoundEvent(cancelled.event) /\ cancelled.event.order = o
      /\ cancelled.event.type = "CANCELLED" /\ cancelled.event.cum = cum
  <2>1. <<"BROKER", "cancelled", 0>> \in Identities
    BY DEF Identities, Keys, Suffixes
  <2> HIDE DEF cum
  <2> QED BY <1>0, <1>2, <2>1 DEF At, Event, Items, EventRecords, SoundEvent, Suffixes, ReportTypes
<1>4. filled \in Items /\ SoundEvent(filled.event) /\ filled.event.order = o
  <2>1. <<"BROKER", "late-fill", 0>> \in Identities
    BY DEF Identities, Keys, Suffixes
  <2> HIDE DEF cum
  <2> QED BY <1>0, <1>2, <2>1 DEF At, Event, Items, EventRecords, SoundEvent, Suffixes, ReportTypes
<1>5. items \in Seq(Items) /\ \A i \in 1..Len(items) : SoundEvent(items[i].event) /\ items[i].event.order = o
  <2> HIDE DEF cancelled, filled
  <2> QED BY <1>3, <1>4
<1>6. ASSUME Refused(o)
      PROVE  cum = 0 /\ items = <<cancelled>>
  BY <1>6 DEF Refused, RefusedIn
<1>7. ASSUME NEW x \in Orders, Refused(x) \/ (~Placed(x) /\ book'[x].state = "REJECTED"),
             NEW i \in 1..Len(items), items[i].event.order = x
      PROVE  items[i].event.type = "CANCELLED" /\ items[i].event.cum = 0
  <2>1. x = o
    BY <1>5, <1>7
  <2>2. Refused(o)
    BY <1>1, <1>7, <2>1
  <2>3. items = <<cancelled>> /\ cum = 0
    BY <1>6, <2>2
  <2> HIDE DEF items, cancelled, cum
  <2> QED BY <1>3, <2>3
<1> HIDE DEF items, cancelled, filled, cum
<1>8. \A x \in Orders : ~Placed(x) => book'[x].cum = 0 /\ book'[x].fills = <<>>
                             /\ book'[x].state \in {"none", "SUBMITTED", "REJECTED"}
  BY <1>1 DEF Placed, BrokerSound, Consistent
<1>9. \A x \in Orders : ~Placed(x) /\ book'[x].state = "REJECTED" => ~book'[x].late
  BY <1>1 DEF Placed
<1>10. \A i \in 1..Len(items) : SoundEvent(items[i].event) /\ book'[items[i].event.order].state # "none"
  BY <1>1, <1>5 DEF Placed
<1>11. BrokerSound' /\ Grows
  BY <1>0, <1>1, <1>5, <1>7, <1>8, <1>9, <1>10, Reschedule
<1> QED BY <1>1, <1>11 DEF Placed

LEMMA TickStep ==
  ASSUME BrokerSound, Tick
  PROVE  BrokerSound' /\ Grows /\ \A x \in Orders : Placed(x)' <=> Placed(x)
<1>1. UNCHANGED <<book, scheduled, delivered, script, attempts>> /\ now' \in Nat
  BY DEF Tick, BrokerSound, BrokerTyped
<1>2. BrokerSound'
  BY <1>1 DEF BrokerSound, BrokerTyped, Consistent, Scheduled, SoundEvent, Shows, Refused, RefusedIn
<1> QED BY <1>1, <1>2, GrowsIdle DEF Placed

LEMMA BrokerIdle ==
  ASSUME BrokerSound, UNCHANGED brokerVars
  PROVE  BrokerSound' /\ Grows /\ \A x \in Orders : Placed(x)' <=> Placed(x)
<1>1. BrokerSound'
  BY DEF BrokerSound, BrokerTyped, Consistent, Scheduled, SoundEvent, Shows, Refused, RefusedIn, brokerVars
<1> QED BY <1>1, GrowsIdle DEF Placed, brokerVars

LEMMA BrokerInitSound == BrokerInit => BrokerSound
<1>1. SUFFICES ASSUME BrokerInit PROVE BrokerSound
  OBVIOUS
<1>2. NotPlaced \in Entries
  BY DEF NotPlaced, Entries
<1>3. script \in Seq(Scenarios)
  BY <1>1, CoordinatorAssumption DEF CoordinatorAssumption, BrokerInit, Scenarios
<1>4. BrokerTyped
  BY <1>1, <1>2, <1>3 DEF BrokerInit, BrokerTyped
<1>5. Consistent(book, delivered)
  <2>1. \A o \in Orders : book[o] = NotPlaced /\ Quantity[o] \in Nat
    BY <1>1, QuantityTyped DEF BrokerInit
  <2>2. 1..Len(delivered) = {} /\ 1..Len(<<>>) = {}
    BY <1>1 DEF BrokerInit
  <2> QED BY <2>1, <2>2 DEF Consistent, NotPlaced
<1>6. Scheduled(book, scheduled) /\ \A o \in Orders : book[o].state # "REJECTED"
  BY <1>1 DEF BrokerInit, Scheduled, NotPlaced
<1> QED BY <1>4, <1>5, <1>6 DEF BrokerSound

-----------------------------------------------------------------------------
(* What a step does to the calls of the workers.                           *)

Holding == {"send", "accepted", "rejected", "unknown", "recover", "recover-submitted"}

\* Only the call of w changes.
OnlyCall(w) == call' \in [Workers -> Calls] /\ \A v \in Workers : v # w => call'[v] = call[v]

\* The call of w goes on at pc, for leg.
Moves(w, pc, leg) ==
  /\ OnlyCall(w) /\ UNCHANGED planned
  /\ call'[w].pc = pc /\ call'[w].leg = leg /\ call'[w].plan = call[w].plan

SameSeen(w) == call'[w].seen = call[w].seen

\* The call of w returned.
Returns(w) == OnlyCall(w) /\ call'[w] = IdleCall /\ planned' = planned \ {call[w].plan}

LEMMA ReturnReturns ==
  ASSUME call \in [Workers -> Calls], NEW w \in Workers, Return(w)
  PROVE  Returns(w)
BY IdleTyped DEF Return, Returns, OnlyCall

LEMMA NextLegMoves ==
  ASSUME call \in [Workers -> Calls], NEW w \in Workers, NEW progress \in BOOLEAN,
         NextLeg(w, progress), UNCHANGED planned
  PROVE  Moves(w, "leg", call[w].leg + 1) /\ SameSeen(w)
<1>1. call[w] \in Calls /\ call[w].leg + 1 \in Nat
  BY DEF Calls
<1> DEFINE c == [call[w] EXCEPT !.pc = "leg", !.leg = @ + 1, !.progress = progress, !.current = NoOrder]
<1>2. call' = [call EXCEPT ![w] = c]
  BY <1>1 DEF NextLeg, Calls
<1>3. c \in Calls /\ c.pc = "leg" /\ c.leg = call[w].leg + 1 /\ c.plan = call[w].plan /\ c.seen = call[w].seen
  BY <1>1, NoOrderTyped DEF Calls, PCs
<1> HIDE DEF c
<1> QED BY <1>2, <1>3 DEF Moves, OnlyCall, SameSeen

LEMMA ThenDrainMoves ==
  ASSUME call \in [Workers -> Calls], NEW w \in Workers, ThenDrain(w), UNCHANGED planned
  PROVE  Moves(w, "drain", call[w].leg) /\ SameSeen(w)
<1>1. call[w] \in Calls
  OBVIOUS
<1> DEFINE c == [call[w] EXCEPT !.pc = "drain", !.progress = TRUE, !.current = NoOrder, !.tries = 0]
<1>2. call' = [call EXCEPT ![w] = c]
  BY <1>1 DEF ThenDrain, Calls
<1>3. c \in Calls /\ c.pc = "drain" /\ c.leg = call[w].leg /\ c.plan = call[w].plan /\ c.seen = call[w].seen
  BY <1>1, NoOrderTyped DEF Calls, PCs
<1> HIDE DEF c
<1> QED BY <1>2, <1>3 DEF Moves, OnlyCall, SameSeen

\* A change of pc alone.
LEMMA PcMoves ==
  ASSUME call \in [Workers -> Calls], NEW w \in Workers, NEW pc \in PCs,
         call' = [call EXCEPT ![w].pc = pc], UNCHANGED planned
  PROVE  Moves(w, pc, call[w].leg) /\ SameSeen(w)
<1>1. call[w] \in Calls
  OBVIOUS
<1> DEFINE c == [call[w] EXCEPT !.pc = pc]
<1>2. call' = [call EXCEPT ![w] = c]
  BY <1>1 DEF Calls
<1>3. c \in Calls /\ c.pc = pc /\ c.leg = call[w].leg /\ c.plan = call[w].plan /\ c.seen = call[w].seen
  BY <1>1 DEF Calls
<1> HIDE DEF c
<1> QED BY <1>2, <1>3 DEF Moves, OnlyCall, SameSeen

\* A change of pc and of the order the call holds.
LEMMA HoldMoves ==
  ASSUME call \in [Workers -> Calls], NEW w \in Workers, NEW pc \in PCs, NEW order \in OrderRecords,
         call' = [call EXCEPT ![w].pc = pc, ![w].current = order], UNCHANGED planned
  PROVE  Moves(w, pc, call[w].leg) /\ SameSeen(w)
<1>1. call[w] \in Calls
  OBVIOUS
<1> DEFINE c == [call[w] EXCEPT !.pc = pc, !.current = order]
<1>2. call' = [call EXCEPT ![w] = c]
  BY <1>1 DEF Calls
<1>3. c \in Calls /\ c.pc = pc /\ c.leg = call[w].leg /\ c.plan = call[w].plan /\ c.seen = call[w].seen
  BY <1>1 DEF Calls
<1> HIDE DEF c
<1> QED BY <1>2, <1>3 DEF Moves, OnlyCall, SameSeen

LEMMA RetryMoves ==
  ASSUME call \in [Workers -> Calls], NEW w \in Workers,
         call' = [call EXCEPT ![w].tries = @ + 1], UNCHANGED planned
  PROVE  Moves(w, call[w].pc, call[w].leg) /\ SameSeen(w)
<1>1. call[w] \in Calls /\ call[w].tries + 1 \in Nat
  BY DEF Calls
<1> DEFINE c == [call[w] EXCEPT !.tries = @ + 1]
<1>2. call' = [call EXCEPT ![w] = c]
  BY <1>1 DEF Calls
<1>3. c \in Calls /\ c.pc = call[w].pc /\ c.leg = call[w].leg /\ c.plan = call[w].plan /\ c.seen = call[w].seen
  BY <1>1 DEF Calls
<1> HIDE DEF c
<1> QED BY <1>2, <1>3 DEF Moves, OnlyCall, SameSeen

\* The call goes to the next leg after the events are drained.
LEMMA LegMoves ==
  ASSUME call \in [Workers -> Calls], NEW w \in Workers,
         call' = [call EXCEPT ![w].pc = "leg", ![w].leg = @ + 1], UNCHANGED planned
  PROVE  Moves(w, "leg", call[w].leg + 1) /\ SameSeen(w)
<1>1. call[w] \in Calls /\ call[w].leg + 1 \in Nat
  BY DEF Calls
<1> DEFINE c == [call[w] EXCEPT !.pc = "leg", !.leg = @ + 1]
<1>2. call' = [call EXCEPT ![w] = c]
  BY <1>1 DEF Calls
<1>3. c \in Calls /\ c.pc = "leg" /\ c.leg = call[w].leg + 1 /\ c.plan = call[w].plan /\ c.seen = call[w].seen
  BY <1>1 DEF Calls, PCs
<1> HIDE DEF c
<1> QED BY <1>2, <1>3 DEF Moves, OnlyCall, SameSeen

LEMMA ScanMoves ==
  ASSUME call \in [Workers -> Calls], StoreTyped, NEW w \in Workers, Scan(w)
  PROVE  /\ Moves(w, "leg", 1)
         /\ \A o \in Orders : call'[w].seen[o] \in {orders[o], NoOrder}
<1>1. call[w] \in Calls
  OBVIOUS
<1> DEFINE seen == [o \in Orders |-> IF o \in OrdersForPlan(call[w].plan) THEN orders[o] ELSE NoOrder]
           c == [call[w] EXCEPT !.pc = "leg", !.leg = 1, !.progress = FALSE, !.seen = seen]
<1>2. call' = [call EXCEPT ![w] = c] /\ UNCHANGED planned
  BY <1>1 DEF Scan, Calls
<1>3. seen \in [Orders -> OrderRecords] /\ \A o \in Orders : seen[o] \in {orders[o], NoOrder}
  BY NoOrderTyped DEF StoreTyped
<1> HIDE DEF seen
<1>4. c \in Calls /\ c.pc = "leg" /\ c.leg = 1 /\ c.plan = call[w].plan /\ c.seen = seen
  BY <1>1, <1>3 DEF Calls, PCs
<1> HIDE DEF c
<1> QED BY <1>2, <1>3, <1>4 DEF Moves, OnlyCall

\* RestartUnknown published next for o.
Restarts(w, o, next) ==
  call' = [call EXCEPT ![w].pc = "recover", ![w].current = next, ![w].seen[o] = next, ![w].progress = TRUE]

LEMMA RestartMoves ==
  ASSUME call \in [Workers -> Calls], NEW w \in Workers, NEW o \in Orders, NEW next \in OrderRecords,
         Restarts(w, o, next), UNCHANGED planned
  PROVE  /\ Moves(w, "recover", call[w].leg)
         /\ \A x \in Orders : call'[w].seen[x] = IF x = o THEN next ELSE call[w].seen[x]
<1>1. call[w] \in Calls /\ call[w].seen \in [Orders -> OrderRecords]
  BY DEF Calls
<1> DEFINE seen == [call[w].seen EXCEPT ![o] = next]
           c == [call[w] EXCEPT !.pc = "recover", !.current = next, !.seen = seen, !.progress = TRUE]
<1>2. call' = [call EXCEPT ![w] = c]
  BY <1>1 DEF Calls, Restarts
<1>3. seen \in [Orders -> OrderRecords] /\ \A x \in Orders : seen[x] = IF x = o THEN next ELSE call[w].seen[x]
  BY <1>1
<1> HIDE DEF seen
<1>4. c \in Calls /\ c.pc = "recover" /\ c.leg = call[w].leg /\ c.plan = call[w].plan /\ c.seen = seen
  BY <1>1, <1>3 DEF Calls, PCs
<1> HIDE DEF c
<1>5. call' \in [Workers -> Calls] /\ call'[w] = c /\ \A v \in Workers : v # w => call'[v] = call[v]
  BY <1>2, <1>4
<1>6. Moves(w, "recover", call[w].leg)
  BY <1>4, <1>5 DEF Moves, OnlyCall
<1> QED BY <1>3, <1>4, <1>5, <1>6

LEMMA RecoveredMoves ==
  ASSUME call \in [Workers -> Calls], NEW w \in Workers, NEW ok \in BOOLEAN, NEW next \in OrderRecords,
         Leg(w) \in Orders, Recovered(w, ok, next), UNCHANGED planned
  PROVE  \/ Moves(w, "drain", call[w].leg) /\ SameSeen(w)
         \/ /\ Moves(w, "leg", call[w].leg + 1)
            /\ \A x \in Orders : call'[w].seen[x] = IF x = Leg(w) /\ ok THEN next ELSE call[w].seen[x]
<1>1. CASE call[w].pc = "recover-submitted"
  BY <1>1, ThenDrainMoves DEF Recovered
<1>2. CASE call[w].pc # "recover-submitted"
  <2>1. /\ call[w] \in Calls /\ call[w].seen \in [Orders -> OrderRecords] /\ call[w].leg + 1 \in Nat
        /\ call[w].progress \in BOOLEAN
    BY DEF Calls
  <2> DEFINE seen == [call[w].seen EXCEPT ![Leg(w)] = IF ok THEN next ELSE @]
             c == [call[w] EXCEPT !.pc = "leg", !.leg = @ + 1, !.current = NoOrder, !.progress = @ \/ ok, !.seen = seen]
  <2>2. call' = [call EXCEPT ![w] = c]
    BY <1>2, <2>1 DEF Calls, Recovered
  <2>3. seen \in [Orders -> OrderRecords]
        /\ \A x \in Orders : seen[x] = IF x = Leg(w) /\ ok THEN next ELSE call[w].seen[x]
    BY <2>1
  <2> HIDE DEF seen
  <2>4. c \in Calls /\ c.pc = "leg" /\ c.leg = call[w].leg + 1 /\ c.plan = call[w].plan /\ c.seen = seen
    BY <2>1, <2>3, NoOrderTyped DEF Calls, PCs
  <2> HIDE DEF c
  <2> QED BY <2>2, <2>3, <2>4 DEF Moves, OnlyCall
<1> QED BY <1>1, <1>2

LEMMA ExecuteMoves ==
  ASSUME call \in [Workers -> Calls], NEW w \in Workers, NEW p \in Plans, NEW at \in Times,
         ExecutePlan(w, p, at)
  PROVE  /\ OnlyCall(w) /\ planned' = planned \cup {p} /\ p \notin planned /\ call[w].pc = "idle"
         /\ call'[w].pc = "slot" /\ call'[w].plan = p /\ call'[w].leg = 0 /\ call'[w].seen = NoOrders
<1> DEFINE c == [IdleCall EXCEPT !.pc = "slot", !.plan = p, !.at = at]
<1>1. call' = [call EXCEPT ![w] = c] /\ planned' = planned \cup {p} /\ p \notin planned /\ call[w].pc = "idle"
  BY DEF ExecutePlan
<1>2. c \in Calls /\ c.pc = "slot" /\ c.leg = 0 /\ c.plan = p /\ c.seen = NoOrders
  BY NoOrderTyped DEF Calls, PCs, IdleCall
<1> HIDE DEF c
<1> QED BY <1>1, <1>2 DEF OnlyCall

-----------------------------------------------------------------------------
(* Control: the calls, what they hold, and the batch that is being drained. *)

\* Every call that runs has a plan of its own, and one that holds an order stands at
\* one of the plan's legs.
WorkersOK ==
  /\ call \in [Workers -> Calls] /\ planned \subseteq Plans
  /\ \A w \in Workers :
       /\ call[w].pc = "idle" => call[w].plan = "none"
       /\ call[w].pc # "idle" => call[w].plan \in planned
       /\ call[w].pc \in Holding => call[w].leg \in 1..Len(Legs[call[w].plan])
       /\ call[w].pc = "leg" => call[w].leg >= 1
  /\ \A v, w \in Workers : call[v].pc # "idle" /\ call[v].plan = call[w].plan => v = w

\* What the call of w saw filled is filled.
SeenBacked(w) ==
  \A x \in Orders : call'[w].seen[x].state = "FILLED" =>
    call[w].seen[x].state = "FILLED" \/ orders'[x].state = "FILLED"

\* The call of w goes on at pc.
Progresses(w, pc) ==
  /\ pc \in PCs \ {"idle"}
  /\ SeenBacked(w)
  /\ \E leg \in Nat :
       /\ Moves(w, pc, leg)
       /\ pc \in Holding => leg = call[w].leg /\ leg \in 1..Len(Legs[call[w].plan])
       /\ pc = "leg" => leg >= 1

\* The call of w returns, or goes on without an order.
Leaves(w) == Returns(w) \/ \E pc \in PCs \ Holding : Progresses(w, pc)

LEMMA ReturnsOK ==
  ASSUME WorkersOK, NEW w \in Workers, call[w].pc # "idle", Returns(w)
  PROVE  WorkersOK'
<1>1. /\ call' \in [Workers -> Calls] /\ call'[w] = IdleCall
      /\ \A v \in Workers : v # w => call'[v] = call[v]
      /\ planned' = planned \ {call[w].plan}
  BY DEF Returns, OnlyCall
<1>2. IdleCall.pc = "idle" /\ IdleCall.plan = "none"
  BY DEF IdleCall
<1>3. "none" \notin Plans
  BY CoordinatorAssumption DEF CoordinatorAssumption
<1>4. ASSUME NEW v \in Workers
      PROVE  /\ call'[v].pc = "idle" => call'[v].plan = "none"
             /\ call'[v].pc # "idle" => call'[v].plan \in planned'
             /\ call'[v].pc \in Holding => call'[v].leg \in 1..Len(Legs[call'[v].plan])
             /\ call'[v].pc = "leg" => call'[v].leg >= 1
  <2>1. CASE v = w
    BY <1>1, <1>2, <2>1 DEF Holding
  <2>2. CASE v # w
    <3>1. call[v].pc # "idle" => call[v].plan # call[w].plan
      BY <2>2 DEF WorkersOK
    <3> QED BY <1>1, <2>2, <3>1 DEF WorkersOK
  <2> QED BY <2>1, <2>2
<1>5. ASSUME NEW u \in Workers, NEW v \in Workers, call'[u].pc # "idle", call'[u].plan = call'[v].plan
      PROVE  u = v
  <2>1. u # w /\ call'[u] = call[u]
    BY <1>1, <1>2, <1>5
  <2>2. call[u].plan # "none"
    BY <1>3, <1>5, <2>1 DEF WorkersOK
  <2>3. v # w
    BY <1>1, <1>2, <1>5, <2>1, <2>2
  <2> QED BY <1>1, <1>5, <2>1, <2>3 DEF WorkersOK
<1>6. planned' \subseteq Plans
  BY <1>1 DEF WorkersOK
<1> QED BY <1>1, <1>4, <1>5, <1>6 DEF WorkersOK

LEMMA ProgressesOK ==
  ASSUME WorkersOK, NEW w \in Workers, call[w].pc # "idle", NEW pc, Progresses(w, pc)
  PROVE  WorkersOK'
<1>1. PICK leg \in Nat :
        /\ Moves(w, pc, leg)
        /\ pc \in Holding => leg \in 1..Len(Legs[call[w].plan])
        /\ pc = "leg" => leg >= 1
  BY DEF Progresses
<1>2. /\ call' \in [Workers -> Calls] /\ UNCHANGED planned /\ pc # "idle"
      /\ \A v \in Workers : v # w => call'[v] = call[v]
      /\ call'[w].pc = pc /\ call'[w].leg = leg /\ call'[w].plan = call[w].plan
  BY <1>1 DEF Moves, OnlyCall, Progresses
<1>3. ASSUME NEW v \in Workers
      PROVE  /\ call'[v].pc = "idle" => call'[v].plan = "none"
             /\ call'[v].pc # "idle" => call'[v].plan \in planned'
             /\ call'[v].pc \in Holding => call'[v].leg \in 1..Len(Legs[call'[v].plan])
             /\ call'[v].pc = "leg" => call'[v].leg >= 1
  BY <1>1, <1>2 DEF WorkersOK
<1>4. ASSUME NEW u \in Workers, NEW v \in Workers, call'[u].pc # "idle", call'[u].plan = call'[v].plan
      PROVE  u = v
  BY <1>2, <1>4 DEF WorkersOK
<1> QED BY <1>2, <1>3, <1>4 DEF WorkersOK

LEMMA ExecuteOK ==
  ASSUME WorkersOK, NEW w \in Workers, NEW p \in Plans, NEW at \in Times, ExecutePlan(w, p, at)
  PROVE  WorkersOK'
<1>1. /\ OnlyCall(w) /\ planned' = planned \cup {p} /\ p \notin planned /\ call[w].pc = "idle"
      /\ call'[w].pc = "slot" /\ call'[w].plan = p
  BY ExecuteMoves DEF WorkersOK
<1>2. call' \in [Workers -> Calls] /\ \A v \in Workers : v # w => call'[v] = call[v]
  BY <1>1 DEF OnlyCall
<1>3. ASSUME NEW v \in Workers
      PROVE  /\ call'[v].pc = "idle" => call'[v].plan = "none"
             /\ call'[v].pc # "idle" => call'[v].plan \in planned'
             /\ call'[v].pc \in Holding => call'[v].leg \in 1..Len(Legs[call'[v].plan])
             /\ call'[v].pc = "leg" => call'[v].leg >= 1
  BY <1>1, <1>2 DEF WorkersOK, Holding
<1>4. "none" \notin Plans
  BY CoordinatorAssumption DEF CoordinatorAssumption
<1>5. ASSUME NEW u \in Workers, NEW v \in Workers, call'[u].pc # "idle", call'[u].plan = call'[v].plan
      PROVE  u = v
  <2>1. ASSUME NEW x \in Workers, x # w PROVE call'[x].plan # p
    BY <1>1, <1>2, <1>4, <2>1 DEF WorkersOK
  <2> QED BY <1>1, <1>2, <1>5, <2>1 DEF WorkersOK
<1>6. planned' \subseteq Plans
  BY <1>1 DEF WorkersOK
<1> QED BY <1>2, <1>3, <1>5, <1>6 DEF WorkersOK

\* The order a call holds or stands at is an order of its plan.
LEMMA LegTyped ==
  ASSUME WorkersOK, NEW w \in Workers
  PROVE  /\ call[w].pc # "idle" => call[w].plan \in Plans /\ Legs[call[w].plan] \in Seq(Orders)
         /\ call[w].pc \in Holding => Leg(w) \in Orders
         /\ \A o, state : AtLeg(w, o, state) =>
              o \in Orders /\ call[w].leg \in 1..Len(Legs[call[w].plan]) /\ o = Leg(w)
<1>1. call[w].pc # "idle" => call[w].plan \in Plans /\ Legs[call[w].plan] \in Seq(Orders)
  BY CoordinatorAssumption DEF CoordinatorAssumption, WorkersOK
<1>2. call[w].pc \in Holding => Leg(w) \in Orders
  BY <1>1 DEF WorkersOK, Leg, Holding
<1>3. ASSUME NEW o, NEW state, AtLeg(w, o, state)
      PROVE  o \in Orders /\ call[w].leg \in 1..Len(Legs[call[w].plan]) /\ o = Leg(w)
  <2>1. call[w].pc = "leg" /\ call[w].leg <= Len(Legs[call[w].plan]) /\ o = Leg(w)
    BY <1>3 DEF AtLeg, Leg
  <2>2. call[w].leg \in Nat /\ call[w].leg >= 1
    BY <2>1 DEF WorkersOK, Calls
  <2>3. Legs[call[w].plan] \in Seq(Orders) /\ Len(Legs[call[w].plan]) \in Nat
    BY <1>1, <2>1
  <2>4. call[w].leg \in 1..Len(Legs[call[w].plan])
    BY <2>1, <2>2, <2>3
  <2> QED BY <2>1, <2>3, <2>4 DEF Leg
<1> QED BY <1>1, <1>2, <1>3

-----------------------------------------------------------------------------
(* The steps of a worker, by what they do to the order at hand.            *)

\* A report of the coordinator is committed.
Publishes(o, type, key, n) ==
  \E report \in ReportRecords :
    report.type = type /\ report.id = <<"COORDINATOR", key, n>> /\ Publication(o, report, "none", 0)

WorkerFrame == UNCHANGED <<closed, cursor, drain, cancel, recon>>

\* Nothing but the call moves.
Passes(w) ==
  /\ call[w].pc \notin Holding \cup {"drain", "idle"}
  /\ Leaves(w)
  /\ UNCHANGED <<brokerVars, storeVars, reserved>>

\* A CREATED order is planned.
PlansLeg(w) ==
  /\ call[w].pc = "leg"
  /\ \E o \in Orders : ~Busy(o) /\ \E n \in Nat : Publishes(o, "PLANNED", "planned", n)
  /\ Leaves(w)
  /\ UNCHANGED <<brokerVars, reserved>>

\* An order is reserved to be looked up; a failed publication leaves it reserved.
TakesUnknown(w, o) ==
  /\ call[w].pc = "leg" /\ o = Leg(w) /\ ~Busy(o)
  /\ reserved' = reserved \cup {o}
  /\ UNCHANGED brokerVars
  /\ \/ UNCHANGED storeVars /\ (Returns(w) \/ Progresses(w, "recover"))
     \/ Progresses(w, "recover") /\ \E n \in Nat : Publishes(o, "UNKNOWN", "restart-unknown", n)

\* An order is reserved to be submitted.
TakesPlanned(w, o) ==
  /\ call[w].pc = "leg" /\ o = Leg(w) /\ ~Busy(o)
  /\ reserved' = reserved \cup {o}
  /\ UNCHANGED brokerVars
  /\ dependenciesFilled(w, o)
  /\ orders[o].state = "PLANNED"
  /\ \/ UNCHANGED storeVars /\ KnownReport(o, <<"COORDINATOR", "pending", orders[o].revision>>)
     \/ Publishes(o, "SUBMISSION_PENDING", "pending", orders[o].revision)
  /\ Progresses(w, "send")

\* The broker is called for the order in hand.
Sends(w) ==
  /\ call[w].pc = "send"
  /\ UNCHANGED <<storeVars, reserved>>
  /\ \/ SubmitUnavailable(Leg(w)) /\ (Progresses(w, "send") \/ Progresses(w, "unknown"))
     \/ \E result \in {"accepted", "rejected", "unknown"} : Submit(Leg(w), result) /\ Progresses(w, result)
     \/ UNCHANGED brokerVars /\ Progresses(w, "unknown")

\* The outcome is recorded as unknown, and the order is kept.
KeepsUnknown(w) ==
  /\ call[w].pc = "unknown"
  /\ Progresses(w, "recover-submitted")
  /\ UNCHANGED <<brokerVars, reserved>>
  /\ UNCHANGED storeVars \/ \E n \in Nat : Publishes(Leg(w), "UNKNOWN", "unknown", n)

\* The order in hand is released, its outcome published or not.
Releases(w) ==
  /\ call[w].pc \in Holding
  /\ reserved' = reserved \ {Leg(w)}
  /\ UNCHANGED brokerVars
  /\ Leaves(w)
  /\ \/ UNCHANGED storeVars
     \/ call[w].pc = "accepted" /\ \E n \in Nat : Publishes(Leg(w), "SUBMITTED", "accepted", n)
     \/ call[w].pc = "rejected" /\ \E n \in Nat : Publishes(Leg(w), "REJECTED", "rejected", n)
     \/ Placed(Leg(w)) /\ \E n \in Nat : Publishes(Leg(w), "SUBMITTED", "recovered", n)

WorkerEffect(w) ==
  /\ WorkerFrame
  /\ \/ Passes(w) \/ PlansLeg(w) \/ Sends(w) \/ KeepsUnknown(w) \/ Releases(w)
     \/ \E o \in Orders : TakesUnknown(w, o) \/ TakesPlanned(w, o)

\* Where the call of w moved, Progresses holds.
LEMMA MovesProgresses ==
  ASSUME NEW w \in Workers, NEW pc \in PCs \ {"idle"}, NEW leg \in Nat, Moves(w, pc, leg), SeenBacked(w),
         pc \in Holding => leg = call[w].leg /\ leg \in 1..Len(Legs[call[w].plan]), pc = "leg" => leg >= 1
  PROVE  Progresses(w, pc)
BY DEF Progresses

LEMMA SameSeenBacked == ASSUME NEW w, SameSeen(w) PROVE SeenBacked(w)
BY DEF SameSeen, SeenBacked

LEMMA NextLegLeaves ==
  ASSUME WorkersOK, NEW w \in Workers, NEW progress \in BOOLEAN, NextLeg(w, progress), UNCHANGED planned
  PROVE  Leaves(w)
<1>1. Moves(w, "leg", call[w].leg + 1) /\ SeenBacked(w)
  BY NextLegMoves, SameSeenBacked DEF WorkersOK
<1>2. call[w].leg + 1 \in Nat /\ call[w].leg + 1 >= 1
  BY DEF WorkersOK, Calls
<1>3. Progresses(w, "leg")
  BY <1>1, <1>2, MovesProgresses DEF PCs, Holding
<1> QED BY <1>3 DEF Leaves, PCs, Holding

LEMMA ThenDrainLeaves ==
  ASSUME WorkersOK, NEW w \in Workers, ThenDrain(w), UNCHANGED planned
  PROVE  Leaves(w)
<1>1. Moves(w, "drain", call[w].leg) /\ SeenBacked(w)
  BY ThenDrainMoves, SameSeenBacked DEF WorkersOK
<1>2. call[w].leg \in Nat
  BY DEF WorkersOK, Calls
<1>3. Progresses(w, "drain")
  BY <1>1, <1>2, MovesProgresses DEF PCs, Holding
<1> QED BY <1>3 DEF Leaves, PCs, Holding

LEMMA ReturnLeaves ==
  ASSUME WorkersOK, NEW w \in Workers, Return(w)
  PROVE  Returns(w) /\ Leaves(w)
BY ReturnReturns DEF WorkersOK, Leaves

\* What publish does with a report of the coordinator.
LEMMA PublishedOr ==
  ASSUME NEW o, NEW report \in ReportRecords, NEW result, publish(o, report, "none", 0, result),
         NEW type, NEW key, NEW n, report.type = type, report.id = <<"COORDINATOR", key, n>>
  PROVE  UNCHANGED storeVars \/ Publishes(o, type, key, n)
BY PublishCases DEF Publishes

LEMMA AcquireSlotEffect ==
  ASSUME WorkersOK, NEW w \in Workers, AcquireSlot(w)
  PROVE  WorkerEffect(w)
<1>1. Moves(w, "drain", call[w].leg) /\ SameSeen(w)
  BY PcMoves DEF AcquireSlot, WorkersOK, PCs
<1>2. call[w].leg \in Nat
  BY DEF WorkersOK, Calls
<1>3. Progresses(w, "drain")
  BY <1>1, <1>2, MovesProgresses, SameSeenBacked DEF PCs, Holding
<1>4. Leaves(w)
  BY <1>3 DEF Leaves, PCs, Holding
<1>5. call[w].pc = "slot" /\ UNCHANGED <<brokerVars, storeVars, reserved>> /\ WorkerFrame
  BY DEF AcquireSlot, WorkerFrame
<1> QED BY <1>4, <1>5 DEF WorkerEffect, Passes, Holding

LEMMA AbandonSlotEffect ==
  ASSUME WorkersOK, NEW w \in Workers, AbandonSlot(w)
  PROVE  WorkerEffect(w)
<1>1. Leaves(w)
  BY ReturnLeaves DEF AbandonSlot
<1>2. call[w].pc = "slot" /\ UNCHANGED <<brokerVars, storeVars, reserved>> /\ WorkerFrame
  BY DEF AbandonSlot, WorkerFrame
<1> QED BY <1>1, <1>2 DEF WorkerEffect, Passes, Holding

LEMMA ScanEffect ==
  ASSUME WorkersOK, StoreTyped, NEW w \in Workers, Scan(w)
  PROVE  WorkerEffect(w)
<1>1. Moves(w, "leg", 1) /\ \A o \in Orders : call'[w].seen[o] \in {orders[o], NoOrder}
  BY ScanMoves DEF WorkersOK
<1>2. call[w].pc = "scan" /\ UNCHANGED <<brokerVars, storeVars, reserved>> /\ WorkerFrame
  BY DEF Scan, WorkerFrame
<1>3. NoOrder.state = "CREATED"
  BY DEF NoOrder, NewOrder
<1>4. SeenBacked(w)
  BY <1>1, <1>2, <1>3 DEF SeenBacked, storeVars
<1>5. Progresses(w, "leg")
  BY <1>1, <1>4, MovesProgresses DEF PCs, Holding
<1>6. Leaves(w)
  BY <1>5 DEF Leaves, PCs, Holding
<1> QED BY <1>2, <1>6 DEF WorkerEffect, Passes, Holding

LEMMA EndOfLegsEffect ==
  ASSUME WorkersOK, NEW w \in Workers, EndOfLegs(w)
  PROVE  WorkerEffect(w)
<1>1. Leaves(w)
  <2>1. CASE call[w].progress
    <3>1. Moves(w, "scan", call[w].leg) /\ SameSeen(w)
      BY <2>1, PcMoves DEF EndOfLegs, WorkersOK, PCs
    <3>2. call[w].leg \in Nat
      BY DEF WorkersOK, Calls
    <3>3. Progresses(w, "scan")
      BY <3>1, <3>2, MovesProgresses, SameSeenBacked DEF PCs, Holding
    <3> QED BY <3>3 DEF Leaves, PCs, Holding
  <2>2. CASE ~call[w].progress
    BY <2>2, ReturnLeaves DEF EndOfLegs
  <2> QED BY <2>1, <2>2
<1>2. call[w].pc = "leg" /\ UNCHANGED <<brokerVars, storeVars, reserved>> /\ WorkerFrame
  BY DEF EndOfLegs, WorkerFrame
<1> QED BY <1>1, <1>2 DEF WorkerEffect, Passes, Holding

LEMMA SkipLegEffect ==
  ASSUME WorkersOK, NEW w \in Workers, NEW o, SkipLeg(w, o)
  PROVE  WorkerEffect(w)
<1>1. call[w].progress \in BOOLEAN
  BY DEF WorkersOK, Calls
<1>2. Leaves(w)
  BY <1>1, NextLegLeaves DEF SkipLeg
<1>3. call[w].pc = "leg" /\ UNCHANGED <<brokerVars, storeVars, reserved>> /\ WorkerFrame
  BY DEF SkipLeg, AtLeg, WorkerFrame
<1> QED BY <1>2, <1>3 DEF WorkerEffect, Passes, Holding

LEMMA LegBusyEffect ==
  ASSUME WorkersOK, NEW w \in Workers, NEW o, LegBusy(w, o)
  PROVE  WorkerEffect(w)
<1>1. Leaves(w)
  BY ReturnLeaves DEF LegBusy
<1>2. call[w].pc = "leg" /\ UNCHANGED <<brokerVars, storeVars, reserved>> /\ WorkerFrame
  BY DEF LegBusy, AtLeg, WorkerFrame
<1> QED BY <1>1, <1>2 DEF WorkerEffect, Passes, Holding

LEMMA PlanLegEffect ==
  ASSUME WorkersOK, NEW w \in Workers, NEW o, PlanLeg(w, o)
  PROVE  WorkerEffect(w)
<1> DEFINE report == Internal(call[w].seen[o], "PLANNED", "planned", 0, call[w].at)
<1>0. o \in Orders
  BY LegTyped DEF PlanLeg
<1>1. call[w].seen[o] \in OrderRecords /\ call[w].at \in Times \cup {0}
  BY <1>0 DEF WorkersOK, Calls
<1>2. report \in ReportRecords /\ report.type = "PLANNED" /\ report.id = <<"COORDINATOR", "planned", 0>>
  <2>1. report \in ReportRecords
    BY <1>1, ReportsTyped DEF ReportTypes, Keys
  <2> QED BY <2>1 DEF Internal, Report
<1> HIDE DEF report
<1>3. PICK result \in Results :
        /\ publish(o, report, "none", 0, result)
        /\ IF result \in Done THEN NextLeg(w, TRUE) /\ UNCHANGED planned ELSE Return(w)
  BY DEF PlanLeg, report
<1>4. Leaves(w)
  BY <1>3, NextLegLeaves, ReturnLeaves
<1>5. UNCHANGED storeVars \/ Publishes(o, "PLANNED", "planned", 0)
  BY <1>2, <1>3, PublishedOr
<1>6. call[w].pc = "leg" /\ ~Busy(o) /\ UNCHANGED <<brokerVars, reserved>> /\ WorkerFrame
  BY DEF PlanLeg, AtLeg, WorkerFrame
<1>7. CASE UNCHANGED storeVars
  BY <1>4, <1>6, <1>7 DEF WorkerEffect, Passes, Holding
<1>8. CASE Publishes(o, "PLANNED", "planned", 0)
  <2>1. PlansLeg(w)
    BY <1>0, <1>4, <1>6, <1>8 DEF PlansLeg
  <2> QED BY <1>6, <2>1 DEF WorkerEffect
<1> QED BY <1>5, <1>7, <1>8

LEMMA ReserveUnknownEffect ==
  ASSUME WorkersOK, NEW w \in Workers, NEW o, ReserveUnknown(w, o)
  PROVE  WorkerEffect(w)
<1>0. o \in Orders /\ call[w].leg \in 1..Len(Legs[call[w].plan]) /\ o = Leg(w)
  BY LegTyped DEF ReserveUnknown
<1>1. call[w].seen[o] \in OrderRecords /\ call[w].leg \in Nat
  BY <1>0 DEF WorkersOK, Calls
<1>2. Moves(w, "recover", call[w].leg) /\ SameSeen(w)
  BY <1>1, HoldMoves DEF ReserveUnknown, WorkersOK, PCs
<1>3. Progresses(w, "recover")
  BY <1>0, <1>1, <1>2, MovesProgresses, SameSeenBacked DEF PCs
<1>4. /\ call[w].pc = "leg" /\ ~Busy(o) /\ reserved' = reserved \cup {o}
      /\ UNCHANGED <<brokerVars, storeVars>> /\ WorkerFrame
  BY DEF ReserveUnknown, AtLeg, WorkerFrame
<1>5. TakesUnknown(w, o)
  BY <1>0, <1>3, <1>4 DEF TakesUnknown
<1> QED BY <1>0, <1>4, <1>5 DEF WorkerEffect

\* A report other than FILL fills no order.
LEMMA NotFilling ==
  ASSUME NEW order, NEW report, report.type \in {"UNKNOWN", "SUBMITTED"},
         ApplyExecutionReport(order, report).state = "FILLED"
  PROVE  order.state = "FILLED"
BY DEF ApplyExecutionReport, NextState, reportTarget

\* Whether a report was committed or repeated, the order it gives is filled only when
\* the stored one is.
LEMMA NextBacked ==
  ASSUME NEW o \in Orders, StoreTyped, NEW report \in ReportRecords, report.type \in {"UNKNOWN", "SUBMITTED"},
         NEW result, publish(o, report, "none", 0, result),
         ApplyExecutionReport(orders[o], report).state = "FILLED"
  PROVE  orders'[o].state = "FILLED"
<1>1. CASE UNCHANGED storeVars
  BY <1>1, NotFilling DEF storeVars
<1>2. CASE Publication(o, report, "none", 0)
  BY <1>2 DEF Publication, StoreTyped
<1> QED BY <1>1, <1>2, PublishCases

LEMMA RestartUnknownEffect ==
  ASSUME WorkersOK, StoreTyped, NEW w \in Workers, NEW o, RestartUnknown(w, o)
  PROVE  WorkerEffect(w)
<1> DEFINE seen == call[w].seen[o]
           report == Internal(seen, "UNKNOWN", "restart-unknown", seen.revision, call[w].at)
           next == ApplyExecutionReport(orders[o], report)
<1>0. o \in Orders /\ call[w].leg \in 1..Len(Legs[call[w].plan]) /\ o = Leg(w)
  BY LegTyped DEF RestartUnknown
<1>1. seen \in OrderRecords /\ call[w].at \in Times \cup {0} /\ call[w].leg \in Nat /\ seen.revision \in Nat
  <2>1. seen \in OrderRecords /\ call[w].at \in Times \cup {0} /\ call[w].leg \in Nat
    BY <1>0 DEF WorkersOK, Calls
  <2> HIDE DEF seen
  <2> QED BY <2>1 DEF OrderRecords
<1>2. report \in ReportRecords /\ report.type = "UNKNOWN" /\ report.id = <<"COORDINATOR", "restart-unknown", seen.revision>>
  <2>1. report \in ReportRecords
    BY <1>1, ReportsTyped DEF ReportTypes, Keys
  <2> QED BY <2>1 DEF Internal, Report
<1>3. PICK result \in Results :
        /\ publish(o, report, "none", 0, result)
        /\ IF result \in Done THEN Restarts(w, o, next) /\ UNCHANGED planned ELSE Return(w)
  BY DEF RestartUnknown, Restarts
<1>4. /\ call[w].pc = "leg" /\ ~Busy(o) /\ reserved' = reserved \cup {o} /\ UNCHANGED brokerVars /\ WorkerFrame
  BY DEF RestartUnknown, AtLeg, WorkerFrame
<1> HIDE DEF report
<1>5. next \in OrderRecords
  BY <1>0, <1>2, AppliedTyped DEF StoreTyped
<1>6. UNCHANGED storeVars \/ Publishes(o, "UNKNOWN", "restart-unknown", seen.revision)
  BY <1>2, <1>3, PublishedOr
<1>7. CASE result \in Done
  <2>1. next.state = "FILLED" => orders'[o].state = "FILLED"
    BY <1>0, <1>2, <1>3, NextBacked
  <2> HIDE DEF next
  <2>2. /\ Moves(w, "recover", call[w].leg)
        /\ \A x \in Orders : call'[w].seen[x] = IF x = o THEN next ELSE call[w].seen[x]
    BY <1>0, <1>3, <1>5, <1>7, RestartMoves DEF WorkersOK
  <2>3. SeenBacked(w)
    BY <2>1, <2>2 DEF SeenBacked
  <2>4. Progresses(w, "recover")
    BY <1>0, <1>1, <2>2, <2>3, MovesProgresses DEF PCs
  <2>5. TakesUnknown(w, o)
    <3> HIDE DEF seen
    <3> QED BY <1>0, <1>1, <1>4, <1>6, <2>4 DEF TakesUnknown
  <2> QED BY <1>0, <1>4, <2>5 DEF WorkerEffect
<1>8. CASE result \notin Done
  <2>1. Returns(w)
    BY <1>3, <1>8, ReturnLeaves
  <2>2. UNCHANGED storeVars
    BY <1>3, <1>8, PublishCases DEF Done
  <2>3. TakesUnknown(w, o)
    BY <1>0, <1>4, <2>1, <2>2 DEF TakesUnknown
  <2> QED BY <1>0, <1>4, <2>3 DEF WorkerEffect
<1> QED BY <1>7, <1>8

LEMMA StartSubmissionEffect ==
  ASSUME WorkersOK, StoreTyped, NEW w \in Workers, NEW o, StartSubmission(w, o)
  PROVE  WorkerEffect(w)
<1> DEFINE n == orders[o].revision
           report == Internal(orders[o], "SUBMISSION_PENDING", "pending", n, call[w].at)
           next == ApplyExecutionReport(orders[o], report)
<1>0. o \in Orders /\ call[w].leg \in 1..Len(Legs[call[w].plan]) /\ o = Leg(w)
  BY LegTyped DEF StartSubmission
<1>1. orders[o] \in OrderRecords /\ call[w].at \in Times \cup {0} /\ call[w].leg \in Nat /\ n \in Nat
  <2>1. orders[o] \in OrderRecords /\ call[w].at \in Times \cup {0} /\ call[w].leg \in Nat
    BY <1>0 DEF WorkersOK, Calls, StoreTyped
  <2> QED BY <2>1 DEF OrderRecords
<1>2. report \in ReportRecords /\ report.type = "SUBMISSION_PENDING" /\ report.id = <<"COORDINATOR", "pending", n>>
  <2>1. report \in ReportRecords
    BY <1>1, ReportsTyped DEF ReportTypes, Keys
  <2> QED BY <2>1 DEF Internal, Report
<1>4. call[w].pc = "leg" /\ ~Busy(o) /\ dependenciesFilled(w, o) /\ UNCHANGED brokerVars /\ WorkerFrame
  BY DEF StartSubmission, AtLeg, WorkerFrame
<1>5. CASE orders[o].state # "PLANNED"
  <2>1. ThenDrain(w) /\ UNCHANGED <<storeVars, reserved, planned>>
    BY <1>5 DEF StartSubmission
  <2>2. Leaves(w)
    BY <2>1, ThenDrainLeaves
  <2> QED BY <1>4, <2>1, <2>2 DEF WorkerEffect, Passes, Holding
<1>6. CASE orders[o].state = "PLANNED"
  <2>1. PICK result \in Results :
          /\ publish(o, report, "none", 0, result)
          /\ IF result \in Done
             THEN /\ reserved' = reserved \cup {o}
                  /\ call' = [call EXCEPT ![w].pc = "send", ![w].current = next]
                  /\ UNCHANGED planned
             ELSE Return(w) /\ UNCHANGED reserved
    BY <1>6 DEF StartSubmission
  <2> HIDE DEF report
  <2>2. next \in OrderRecords
    BY <1>1, <1>2, AppliedTyped
  <2> HIDE DEF next
  <2>3. CASE result \in Done
    <3>1. Moves(w, "send", call[w].leg) /\ SameSeen(w)
      BY <2>1, <2>2, <2>3, HoldMoves DEF WorkersOK, PCs
    <3>2. Progresses(w, "send")
      BY <1>0, <1>1, <3>1, MovesProgresses, SameSeenBacked DEF PCs
    <3>3. \/ UNCHANGED storeVars /\ KnownReport(o, <<"COORDINATOR", "pending", n>>)
          \/ Publishes(o, "SUBMISSION_PENDING", "pending", n)
      <4>1. CASE result = "published"
        <5>1. Publication(o, report, "none", 0)
          BY <2>1, <4>1, PublishCases
        <5> QED BY <1>2, <5>1 DEF Publishes
      <4>2. CASE result = "replay"
        <5>1. UNCHANGED storeVars
          BY <2>1, <4>2, PublishCases
        <5>2. KnownReport(o, report.id)
          BY <2>1, <4>2 DEF publish, PublishResult
        <5> QED BY <1>2, <5>1, <5>2
      <4> QED BY <2>3, <4>1, <4>2 DEF Done
    <3>4. TakesPlanned(w, o)
      BY <1>0, <1>4, <1>6, <2>1, <2>3, <3>2, <3>3 DEF TakesPlanned
    <3> QED BY <1>0, <1>4, <3>4 DEF WorkerEffect
  <2>4. CASE result \notin Done
    <3>1. Leaves(w) /\ UNCHANGED reserved
      BY <2>1, <2>4, ReturnLeaves
    <3>2. UNCHANGED storeVars
      BY <2>1, <2>4, PublishCases DEF Done
    <3> QED BY <1>4, <3>1, <3>2 DEF WorkerEffect, Passes, Holding
  <2> QED BY <2>3, <2>4
<1> QED BY <1>5, <1>6

\* Within its leg, a call that holds an order goes on with it.
LEMMA HoldingProgresses ==
  ASSUME WorkersOK, NEW w \in Workers, call[w].pc \in Holding, NEW pc \in Holding,
         Moves(w, pc, call[w].leg), SameSeen(w)
  PROVE  Progresses(w, pc)
<1>1. call[w].leg \in Nat /\ call[w].leg \in 1..Len(Legs[call[w].plan])
  BY DEF WorkersOK, Calls
<1>2. pc \in PCs \ {"idle"} /\ pc # "leg"
  BY DEF Holding, PCs
<1> QED BY <1>1, <1>2, MovesProgresses, SameSeenBacked

LEMMA SendEffect ==
  ASSUME WorkersOK, NEW w \in Workers, Send(w)
  PROVE  WorkerEffect(w)
<1>1. call[w].pc = "send" /\ UNCHANGED <<storeVars, reserved, planned>> /\ WorkerFrame
  BY DEF Send, WorkerFrame
<1>2. ASSUME NEW pc \in Holding, call' = [call EXCEPT ![w].pc = pc] PROVE Progresses(w, pc)
  <2>1. pc \in PCs
    BY DEF Holding, PCs
  <2>2. Moves(w, pc, call[w].leg) /\ SameSeen(w)
    BY <1>1, <1>2, <2>1, PcMoves DEF WorkersOK
  <2> QED BY <1>1, <2>2, HoldingProgresses DEF Holding
<1>3. ASSUME call' = [call EXCEPT ![w].tries = @ + 1] PROVE Progresses(w, "send")
  <2>1. Moves(w, "send", call[w].leg) /\ SameSeen(w)
    BY <1>1, <1>3, RetryMoves DEF WorkersOK
  <2> QED BY <1>1, <2>1, HoldingProgresses DEF Holding
<1>4. CASE SubmitUnavailable(Leg(w)) /\ (call' = [call EXCEPT ![w].tries = @ + 1] \/ call' = [call EXCEPT ![w].pc = "unknown"])
  <2>1. Progresses(w, "send") \/ Progresses(w, "unknown")
    BY <1>2, <1>3, <1>4 DEF Holding
  <2> QED BY <1>1, <1>4, <2>1 DEF WorkerEffect, Sends
<1>5. CASE \E result \in {"accepted", "rejected", "unknown"} :
             Submit(Leg(w), result) /\ call' = [call EXCEPT ![w].pc = result]
  <2>1. PICK result \in {"accepted", "rejected", "unknown"} :
             Submit(Leg(w), result) /\ call' = [call EXCEPT ![w].pc = result]
    BY <1>5
  <2>2. Progresses(w, result)
    BY <1>2, <2>1 DEF Holding
  <2> QED BY <1>1, <2>1, <2>2 DEF WorkerEffect, Sends
<1>6. CASE UNCHANGED brokerVars /\ call' = [call EXCEPT ![w].pc = "unknown"]
  <2>1. Progresses(w, "unknown")
    BY <1>2, <1>6 DEF Holding
  <2> QED BY <1>1, <1>6, <2>1 DEF WorkerEffect, Sends
<1> QED BY <1>4, <1>5, <1>6 DEF Send

LEMMA AnsweredEffect ==
  ASSUME WorkersOK, NEW w \in Workers, Answered(w)
  PROVE  WorkerEffect(w)
<1> DEFINE type == IF call[w].pc = "accepted" THEN "SUBMITTED" ELSE "REJECTED"
           key == call[w].pc
           n == call[w].current.revision
           report == Accepted(call[w].current, type, key, n, call[w].at)
<1>0. call[w].pc \in {"accepted", "rejected"} /\ reserved' = reserved \ {Leg(w)} /\ UNCHANGED brokerVars /\ WorkerFrame
  BY DEF Answered, WorkerFrame
<1>1. call[w].current \in OrderRecords /\ call[w].at \in Times \cup {0} /\ n \in Nat
  <2>1. call[w].current \in OrderRecords /\ call[w].at \in Times \cup {0}
    BY DEF WorkersOK, Calls
  <2> QED BY <2>1 DEF OrderRecords
<1>2. report \in ReportRecords /\ report.type = type /\ report.id = <<"COORDINATOR", key, n>>
  <2>1. type \in ReportTypes /\ key \in Keys
    BY <1>0 DEF ReportTypes, Keys
  <2> HIDE DEF type, key
  <2>2. report \in ReportRecords
    BY <1>1, <2>1, ReportsTyped
  <2> QED BY <2>2 DEF Accepted, Report
<1>3. PICK result \in Results :
        /\ publish(Leg(w), report, "none", 0, result)
        /\ IF result \in Done THEN ThenDrain(w) /\ UNCHANGED planned ELSE Return(w)
  BY DEF Answered
<1>4. Leaves(w)
  BY <1>3, ThenDrainLeaves, ReturnLeaves
<1> HIDE DEF report, n
<1>5. UNCHANGED storeVars \/ Publishes(Leg(w), type, key, n)
  BY <1>2, <1>3, PublishedOr
<1>6. Releases(w)
  BY <1>0, <1>1, <1>4, <1>5 DEF Releases, Holding
<1> QED BY <1>0, <1>6 DEF WorkerEffect

LEMMA SubmissionUnknownEffect ==
  ASSUME WorkersOK, StoreTyped, NEW w \in Workers, SubmissionUnknown(w)
  PROVE  WorkerEffect(w)
<1> DEFINE o == Leg(w)
           n == call[w].current.revision
           report == Internal(call[w].current, "UNKNOWN", "unknown", n, call[w].at)
           next == ApplyExecutionReport(orders[o], report)
<1>0. call[w].pc = "unknown" /\ UNCHANGED brokerVars /\ WorkerFrame /\ o \in Orders
  BY LegTyped DEF SubmissionUnknown, WorkerFrame, Holding
<1>1. call[w].current \in OrderRecords /\ call[w].at \in Times \cup {0} /\ n \in Nat
  <2>1. call[w].current \in OrderRecords /\ call[w].at \in Times \cup {0}
    BY DEF WorkersOK, Calls
  <2> QED BY <2>1 DEF OrderRecords
<1>2. report \in ReportRecords /\ report.type = "UNKNOWN" /\ report.id = <<"COORDINATOR", "unknown", n>>
  <2>1. report \in ReportRecords
    BY <1>1, ReportsTyped DEF ReportTypes, Keys
  <2> QED BY <2>1 DEF Internal, Report
<1>3. PICK result \in Results :
        /\ publish(o, report, "none", 0, result)
        /\ IF result \in Done
           THEN /\ call' = [call EXCEPT ![w].pc = "recover-submitted", ![w].current = next]
                /\ UNCHANGED <<planned, reserved>>
           ELSE Return(w) /\ reserved' = reserved \ {o}
  BY DEF SubmissionUnknown
<1> HIDE DEF report, o, n
<1>4. next \in OrderRecords
  BY <1>0, <1>2, AppliedTyped DEF StoreTyped
<1> HIDE DEF next
<1>5. UNCHANGED storeVars \/ Publishes(o, "UNKNOWN", "unknown", n)
  BY <1>2, <1>3, PublishedOr
<1>6. CASE result \in Done
  <2>1. Moves(w, "recover-submitted", call[w].leg) /\ SameSeen(w)
    BY <1>3, <1>4, <1>6, HoldMoves DEF WorkersOK, PCs
  <2>2. Progresses(w, "recover-submitted")
    BY <1>0, <2>1, HoldingProgresses DEF Holding
  <2>3. KeepsUnknown(w)
    BY <1>0, <1>1, <1>3, <1>5, <1>6, <2>2 DEF KeepsUnknown, o
  <2> QED BY <1>0, <2>3 DEF WorkerEffect
<1>7. CASE result \notin Done
  <2>1. UNCHANGED storeVars /\ Leaves(w) /\ reserved' = reserved \ {o}
    BY <1>3, <1>7, PublishCases, ReturnLeaves DEF Done
  <2>2. Releases(w)
    BY <1>0, <2>1 DEF Releases, Holding, o
  <2> QED BY <1>0, <2>2 DEF WorkerEffect
<1> QED BY <1>6, <1>7

LEMMA RecoverUnknownEffect ==
  ASSUME WorkersOK, StoreTyped, NEW w \in Workers, recoverUnknown(w)
  PROVE  WorkerEffect(w)
<1> DEFINE o == Leg(w)
           report == Accepted(call[w].current, "SUBMITTED", "recovered", 0, call[w].at)
           next == ApplyExecutionReport(orders[o], report)
<1>0. /\ call[w].pc \in Holding /\ o \in Orders /\ reserved' = reserved \ {o}
      /\ UNCHANGED <<brokerVars, planned>> /\ WorkerFrame
  BY LegTyped DEF recoverUnknown, WorkerFrame, Holding
<1>1. call[w].current \in OrderRecords /\ call[w].at \in Times \cup {0} /\ call[w].leg \in Nat
  BY DEF WorkersOK, Calls
<1>2. report \in ReportRecords /\ report.type = "SUBMITTED" /\ report.id = <<"COORDINATOR", "recovered", 0>>
  <2>1. report \in ReportRecords
    BY <1>1, ReportsTyped DEF ReportTypes, Keys
  <2> QED BY <2>1 DEF Accepted, Report
<1>3. \/ Placed(o) /\ \E result \in Results :
           publish(o, report, "none", 0, result) /\ Recovered(w, result \in Done, next)
      \/ Recovered(w, FALSE, next) /\ UNCHANGED storeVars
  BY DEF recoverUnknown
<1> HIDE DEF report
<1>4. next \in OrderRecords
  BY <1>0, <1>2, AppliedTyped DEF StoreTyped
<1>5. ASSUME NEW ok \in BOOLEAN, Recovered(w, ok, next),
             ok => (next.state = "FILLED" => orders'[o].state = "FILLED")
      PROVE  Leaves(w)
  <2> HIDE DEF next
  <2>1. CASE Moves(w, "drain", call[w].leg) /\ SameSeen(w)
    <3>1. Progresses(w, "drain")
      BY <1>1, <2>1, MovesProgresses, SameSeenBacked DEF PCs, Holding
    <3> QED BY <3>1 DEF Leaves, PCs, Holding
  <2>2. CASE /\ Moves(w, "leg", call[w].leg + 1)
             /\ \A x \in Orders : call'[w].seen[x] = IF x = o /\ ok THEN next ELSE call[w].seen[x]
    <3>1. SeenBacked(w)
      BY <1>5, <2>2 DEF SeenBacked
    <3>2. call[w].leg + 1 \in Nat /\ call[w].leg + 1 >= 1
      BY <1>1
    <3>3. Progresses(w, "leg")
      BY <2>2, <3>1, <3>2, MovesProgresses DEF PCs, Holding
    <3> QED BY <3>3 DEF Leaves, PCs, Holding
  <2>3. \/ Moves(w, "drain", call[w].leg) /\ SameSeen(w)
        \/ /\ Moves(w, "leg", call[w].leg + 1)
           /\ \A x \in Orders : call'[w].seen[x] = IF x = o /\ ok THEN next ELSE call[w].seen[x]
    BY <1>0, <1>4, <1>5, RecoveredMoves DEF WorkersOK
  <2> QED BY <2>1, <2>2, <2>3
<1>6. CASE Recovered(w, FALSE, next) /\ UNCHANGED storeVars
  <2>1. Leaves(w)
    BY <1>5, <1>6
  <2>2. Releases(w)
    BY <1>0, <1>6, <2>1 DEF Releases
  <2> QED BY <1>0, <2>2 DEF WorkerEffect
<1>7. CASE Placed(o) /\ \E result \in Results :
             publish(o, report, "none", 0, result) /\ Recovered(w, result \in Done, next)
  <2>1. PICK result \in Results : publish(o, report, "none", 0, result) /\ Recovered(w, result \in Done, next)
    BY <1>7
  <2>2. next.state = "FILLED" => orders'[o].state = "FILLED"
    BY <1>0, <1>2, <2>1, NextBacked
  <2>3. Leaves(w)
    <3>1. (result \in Done) \in BOOLEAN
      BY <2>1 DEF Done, Results
    <3> QED BY <1>5, <2>1, <2>2, <3>1
  <2>4. UNCHANGED storeVars \/ Publishes(o, "SUBMITTED", "recovered", 0)
    BY <1>2, <2>1, PublishedOr
  <2>5. Releases(w)
    BY <1>0, <1>7, <2>3, <2>4 DEF Releases
  <2> QED BY <1>0, <2>5 DEF WorkerEffect
<1> QED BY <1>3, <1>6, <1>7

\* Every step of a worker is one of these.
LEMMA WorkerEffects ==
  ASSUME WorkersOK, StoreTyped, NEW w \in Workers, AcquireSlot(w) \/ WorkerStep(w)
  PROVE  WorkerEffect(w)
BY AcquireSlotEffect, AbandonSlotEffect, ScanEffect, EndOfLegsEffect, SkipLegEffect, LegBusyEffect,
   PlanLegEffect, RestartUnknownEffect, ReserveUnknownEffect, StartSubmissionEffect, SendEffect,
   AnsweredEffect, SubmissionUnknownEffect, RecoverUnknownEffect DEF WorkerStep, LegStep

-----------------------------------------------------------------------------
(* Reconciliation's repairs.                                               *)

Repairs == [cum : Nat, valid : BOOLEAN, events : Seq(EventRecords)]

\* events repair executions the broker shows, up to cum.
RepairsUpTo(o, local, remote, r) ==
  /\ \A i \in 1..Len(r.events) : \E k \in 1..Len(remote.fills) :
       r.events[i] = RepairEvent(o, remote.fills[k]) /\ remote.fills[k].cum > 0
  /\ r.cum >= local.filled
  /\ \/ r.events = <<>> /\ r.cum = local.filled
     \/ r.events # <<>> /\ r.events[Len(r.events)].cum = r.cum

LEMMA RepairEventTyped ==
  ASSUME NEW o \in Orders, NEW f \in Executions
  PROVE  /\ RepairEvent(o, f) \in EventRecords
         /\ RepairEvent(o, f).order = o /\ RepairEvent(o, f).cum = f.cum /\ RepairEvent(o, f).fill = f.fill
         /\ RepairEvent(o, f).exec = f.exec /\ RepairEvent(o, f).id = <<"reconcile", f.exec, 0>>
         /\ RepairEvent(o, f).type = IF f.cum = Quantity[o] THEN "FILL" ELSE "PARTIAL_FILL"
<1>1. f.exec \in Suffixes /\ f.fill \in Nat /\ f.cum \in Nat
  BY DEF Executions
<1>2. <<"reconcile", f.exec, 0>> \in Identities
  BY <1>1 DEF Identities, Keys
<1> QED BY <1>1, <1>2 DEF RepairEvent, Event, EventRecords, ReportTypes

LEMMA RepairRoundKeeps ==
  ASSUME NEW o \in Orders, NEW local \in OrderRecords, NEW remote \in Entries,
         NEW k \in 1..Len(remote.fills), NEW r \in Repairs
  PROVE  /\ RepairRound(o, r, remote.fills[k]) \in Repairs
         /\ RepairsUpTo(o, local, remote, r) => RepairsUpTo(o, local, remote, RepairRound(o, r, remote.fills[k]))
<1> DEFINE f == remote.fills[k]
           next == RepairRound(o, r, f)
<1>1. /\ f \in Executions /\ f.cum \in Nat /\ f.fill \in Nat /\ Quantity[o] \in Nat
      /\ r.cum \in Nat /\ r.valid \in BOOLEAN /\ r.events \in Seq(EventRecords) /\ local.filled \in Nat
  <2>1. f \in Executions
    BY DEF Entries
  <2>2. f.cum \in Nat /\ f.fill \in Nat
    BY <2>1 DEF Executions
  <2> HIDE DEF f
  <2> QED BY <2>1, <2>2, QuantityTyped DEF Repairs, OrderRecords
<1>2. CASE f.cum <= r.cum
  BY <1>2 DEF RepairRound
<1>3. CASE ~(f.cum <= r.cum)
  <2> DEFINE e == RepairEvent(o, f)
  <2>1. e \in EventRecords /\ e.cum = f.cum
    BY <1>1, RepairEventTyped
  <2>2. /\ Append(r.events, e) \in Seq(EventRecords) /\ Append(r.events, e) # <<>>
        /\ Len(Append(r.events, e)) = Len(r.events) + 1 /\ Len(r.events) \in Nat
        /\ \A i \in 1..Len(r.events) : Append(r.events, e)[i] = r.events[i]
        /\ Append(r.events, e)[Len(r.events) + 1] = e
    BY <1>1, <2>1, AppendProperties
  <2>3. /\ next = [cum |-> f.cum, valid |-> r.valid /\ f.cum = r.cum + f.fill /\ f.cum <= Quantity[o],
                   events |-> Append(r.events, e)]
    BY <1>3 DEF RepairRound
  <2> HIDE DEF e
  <2>4. next \in Repairs
    <3> HIDE DEF f, next
    <3>1. (r.valid /\ f.cum = r.cum + f.fill /\ f.cum <= Quantity[o]) \in BOOLEAN
      BY <1>1
    <3> QED BY <1>1, <2>2, <2>3, <3>1 DEF Repairs
  <2>5. ASSUME RepairsUpTo(o, local, remote, r) PROVE RepairsUpTo(o, local, remote, next)
    <3>1. next.cum = f.cum /\ next.events = Append(r.events, e)
      BY <2>3
    <3>2. next.cum >= local.filled /\ f.cum > 0
      <4>1. r.cum >= local.filled
        BY <2>5 DEF RepairsUpTo
      <4> QED BY <1>1, <1>3, <3>1, <4>1
    <3>3. ASSUME NEW i \in 1..Len(next.events)
          PROVE  \E j \in 1..Len(remote.fills) :
                   next.events[i] = RepairEvent(o, remote.fills[j]) /\ remote.fills[j].cum > 0
      <4>1. CASE i = Len(r.events) + 1
        BY <2>2, <3>1, <3>2, <4>1 DEF e
      <4>2. CASE i # Len(r.events) + 1
        <5>1. i \in 1..Len(r.events) /\ next.events[i] = r.events[i]
          BY <2>2, <3>1, <4>2
        <5> QED BY <2>5, <5>1 DEF RepairsUpTo
      <4> QED BY <4>1, <4>2
    <3>4. next.events # <<>> /\ next.events[Len(next.events)].cum = next.cum
      BY <2>1, <2>2, <3>1
    <3> QED BY <3>2, <3>3, <3>4 DEF RepairsUpTo
  <2> QED BY <2>4, <2>5
<1> QED BY <1>2, <1>3

\* FillRepairs returns events for executions of the remote order; when it is valid the
\* last one reaches the remote cumulative.
LEMMA FillRepairsKeeps ==
  ASSUME NEW o \in Orders, NEW local \in OrderRecords, NEW remote \in Entries, remote.cum > local.filled
  PROVE  LET r == FillRepairs(o, local, remote) IN
         /\ r.valid \in BOOLEAN /\ r.events \in Seq(EventRecords)
         /\ \A i \in 1..Len(r.events) : \E k \in 1..Len(remote.fills) :
              r.events[i] = RepairEvent(o, remote.fills[k]) /\ remote.fills[k].cum > 0
         /\ r.valid => r.events # <<>> /\ r.events[Len(r.events)].cum = remote.cum
         /\ ~r.valid => r.events = <<>>
<1> DEFINE N == Len(remote.fills)
           start == [cum |-> local.filled, valid |-> TRUE, events |-> <<>>]
           step == [x \in Repairs \X (1..N) |-> RepairRound(o, x[1], remote.fills[x[2]])]
<1>1. N \in Nat /\ local.filled \in Nat /\ remote.cum \in Nat
  <2>1. remote.fills \in Seq(Executions) /\ remote.cum \in Nat
    BY DEF Entries
  <2>2. local.filled \in Nat
    BY DEF OrderRecords
  <2> QED BY <2>1, <2>2
<1>2. start \in Repairs
  BY <1>1 DEF Repairs
<1>3. step \in [Repairs \X (1..N) -> Repairs]
  BY <1>1, RepairRoundKeeps
<1>4. ASSUME NEW d \in Repairs, NEW n \in 1..N PROVE step[<<d, n>>] = RepairRound(o, d, remote.fills[n])
  OBVIOUS
<1> HIDE DEF start, step, N
<1>5. PICK f : Loops(f, N, Repairs, start, step)
  BY <1>1, <1>2, <1>3, LoopExists DEF Rounds
<1>6. ASSUME NEW n \in 0..N
      PROVE  f[n] = IF n = 0 THEN start ELSE RepairRound(o, f[n - 1], remote.fills[n])
  <2>1. CASE n = 0
    BY <1>5, <2>1 DEF Loops
  <2>2. CASE n # 0
    <3>1. n \in 1..N /\ n - 1 \in 0..N
      BY <1>1, <2>2
    <3> QED BY <1>4, <1>5, <2>2, <3>1 DEF Loops
  <2> QED BY <2>1, <2>2
<1>7. f = [n \in 0..N |-> IF n = 0 THEN start ELSE RepairRound(o, f[n - 1], remote.fills[n])]
  BY <1>5, <1>6 DEF Loops
<1> DEFINE g == CHOOSE h : h = [n \in 0..N |-> IF n = 0 THEN start ELSE RepairRound(o, h[n - 1], remote.fills[n])]
<1>8. g = [n \in 0..N |-> IF n = 0 THEN start ELSE RepairRound(o, g[n - 1], remote.fills[n])]
  BY <1>7
<1>9. FillRepairs(o, local, remote) =
        IF g[N].valid /\ g[N].cum = remote.cum
        THEN [valid |-> TRUE, events |-> g[N].events] ELSE [valid |-> FALSE, events |-> <<>>]
  BY DEF FillRepairs, start, N
<1> HIDE DEF g
<1>10. g[0] = start
  BY <1>1, <1>8
<1>11. ASSUME NEW n \in 1..N PROVE g[n] = RepairRound(o, g[n - 1], remote.fills[n])
  BY <1>1, <1>8
<1>12. \A n \in 0..N : g[n] \in Repairs /\ RepairsUpTo(o, local, remote, g[n])
  <2> DEFINE G == {n \in 0..N : g[n] \in Repairs /\ RepairsUpTo(o, local, remote, g[n])}
  <2>1. 0 \in G
    <3>1. RepairsUpTo(o, local, remote, start)
      BY <1>1 DEF RepairsUpTo, start
    <3> QED BY <1>1, <1>2, <1>10, <3>1
  <2>2. ASSUME NEW n \in 0..(N - 1), n \in G PROVE n + 1 \in G
    <3>1. n + 1 \in 1..N /\ n + 1 - 1 = n /\ n + 1 \in 0..N
      BY <1>1
    <3>2. g[n + 1] = RepairRound(o, g[n], remote.fills[n + 1])
      BY <1>11, <3>1
    <3>3. n + 1 \in 1..Len(remote.fills)
      BY <3>1 DEF N
    <3> QED BY <2>2, <3>1, <3>2, <3>3, RepairRoundKeeps
  <2> HIDE DEF G
  <2>3. \A n \in 0..N : n \in G
    BY <1>1, <2>1, <2>2, Induction
  <2> QED BY <2>3 DEF G
<1>13. g[N] \in Repairs /\ RepairsUpTo(o, local, remote, g[N])
  BY <1>1, <1>12
<1> DEFINE r == FillRepairs(o, local, remote)
<1>14. r.valid => g[N].cum = remote.cum /\ r.events = g[N].events
  BY <1>9
<1>15. ~r.valid => r.events = <<>>
  BY <1>9
<1>16. r.valid \in BOOLEAN
  BY <1>9
<1> HIDE DEF r
<1>17. r.valid => r.events # <<>> /\ r.events[Len(r.events)].cum = remote.cum
  BY <1>1, <1>13, <1>14 DEF RepairsUpTo
<1>18. r.events \in Seq(EventRecords)
  <2>1. g[N].events \in Seq(EventRecords)
    BY <1>13 DEF Repairs
  <2>2. <<>> \in Seq(EventRecords)
    OBVIOUS
  <2> QED BY <1>14, <1>15, <2>1, <2>2
<1>19. ASSUME NEW i \in 1..Len(r.events)
       PROVE  \E k \in 1..Len(remote.fills) :
                r.events[i] = RepairEvent(o, remote.fills[k]) /\ remote.fills[k].cum > 0
  <2>1. CASE r.valid
    BY <1>13, <1>14, <2>1 DEF RepairsUpTo
  <2>2. CASE ~r.valid
    <3>1. 1..Len(<<>>) = {}
      OBVIOUS
    <3> QED BY <1>15, <2>2, <3>1
  <2> QED BY <2>1, <2>2
<1>20. /\ r.valid \in BOOLEAN /\ r.events \in Seq(EventRecords)
       /\ \A i \in 1..Len(r.events) : \E k \in 1..Len(remote.fills) :
            r.events[i] = RepairEvent(o, remote.fills[k]) /\ remote.fills[k].cum > 0
       /\ r.valid => r.events # <<>> /\ r.events[Len(r.events)].cum = remote.cum
       /\ ~r.valid => r.events = <<>>
  BY <1>15, <1>16, <1>17, <1>18, <1>19
<1> QED BY <1>20 DEF r

-----------------------------------------------------------------------------
(* What an event says is backed by the broker.                             *)

CancelDelivered(o) == \E i \in 1..Len(delivered) : delivered[i].order = o /\ delivered[i].type = "CANCELLED"

Delivered(o, exec, fill, cum) ==
  \E i \in 1..Len(delivered) :
    delivered[i].order = o /\ delivered[i].exec = exec /\ delivered[i].fill = fill /\ delivered[i].cum = cum

EventTypes == {"SUBMITTED", "ACKNOWLEDGED", "PARTIAL_FILL", "FILL", "CANCELLED", "REJECTED"}

\* The suffixes of the executions of the scripted broker.
Executed == {"partial", "fill", "fill-early", "late-fill"}

EventBacked(e) ==
  /\ Placed(e.order) /\ e.cum <= book[e.order].cum
  /\ e.id[1] # "COORDINATOR"
  /\ e.id[1] = "BROKER" =>
       e.id = <<"BROKER", e.exec, 0>> /\ (e.exec \in Executed => e.type \in {"PARTIAL_FILL", "FILL"})
  /\ e.type \in EventTypes /\ (e.fill > 0 => e.type \in {"PARTIAL_FILL", "FILL"})
  /\ e.type = "CANCELLED" => CancelDelivered(e.order)
  /\ e.type = "REJECTED" => Refused(e.order)
  /\ e.fill > 0 => Delivered(e.order, e.exec, e.fill, e.cum)

\* What the snapshot s shows, the broker still shows.
SnapshotBacked(s) ==
  \A o \in Orders :
    /\ s[o].state # "none" => Placed(o)
    /\ s[o].state = "none" => s[o].cum = 0
    /\ s[o].cum <= book[o].cum
    /\ s[o].state = "CANCELLED" => CancelDelivered(o)
    /\ s[o].state = "REJECTED" => Refused(o)
    /\ \A k \in 1..Len(s[o].fills) :
         LET f == s[o].fills[k] IN f.fill > 0 /\ Delivered(o, f.exec, f.fill, f.cum)

LEMMA GrowsDelivered ==
  ASSUME BrokerTyped, BrokerTyped', Grows
  PROVE  /\ \A o \in Orders : CancelDelivered(o) => CancelDelivered(o)'
         /\ \A o \in Orders : \A exec, fill, cum : Delivered(o, exec, fill, cum) => Delivered(o, exec, fill, cum)'
<1>1. Len(delivered) \in Nat /\ Len(delivered') \in Nat
  BY DEF BrokerTyped
<1>2. \A i \in 1..Len(delivered) : i \in 1..Len(delivered') /\ delivered'[i] = delivered[i]
  BY <1>1 DEF Grows
<1> QED BY <1>2 DEF CancelDelivered, Delivered

LEMMA GrowsBacked ==
  ASSUME BrokerTyped, BrokerTyped', Grows, NEW e \in EventRecords, EventBacked(e)
  PROVE  EventBacked(e)'
<1>1. e.order \in Orders /\ e.cum \in Nat
  BY DEF EventRecords
<1>2. book[e.order].cum \in Nat /\ book'[e.order].cum \in Nat
  BY <1>1 DEF BrokerTyped, Entries
<1>3. book[e.order].cum <= book'[e.order].cum /\ Placed(e.order)' /\ (Refused(e.order) => Refused(e.order)')
  BY <1>1 DEF Grows, EventBacked
<1>4. e.cum <= book'[e.order].cum
  BY <1>1, <1>2, <1>3 DEF EventBacked
<1>5. /\ e.type = "CANCELLED" => CancelDelivered(e.order)'
      /\ e.fill > 0 => Delivered(e.order, e.exec, e.fill, e.cum)'
  BY <1>1, GrowsDelivered DEF EventBacked
<1> QED BY <1>3, <1>4, <1>5 DEF EventBacked

LEMMA GrowsSnapshot ==
  ASSUME BrokerTyped, BrokerTyped', Grows, NEW s \in [Orders -> Entries], SnapshotBacked(s)
  PROVE  SnapshotBacked(s)'
<1>1. ASSUME NEW o \in Orders
      PROVE  /\ s[o].state # "none" => Placed(o)'
             /\ s[o].state = "none" => s[o].cum = 0
             /\ s[o].cum <= book'[o].cum
             /\ s[o].state = "CANCELLED" => CancelDelivered(o)'
             /\ s[o].state = "REJECTED" => Refused(o)'
  <2>1. s[o].cum \in Nat /\ book[o].cum \in Nat /\ book'[o].cum \in Nat
    BY DEF BrokerTyped, Entries
  <2>2. s[o].cum <= book[o].cum /\ book[o].cum <= book'[o].cum
    BY DEF SnapshotBacked, Grows
  <2>3. s[o].cum <= book'[o].cum
    BY <2>1, <2>2
  <2> QED BY <2>3, GrowsDelivered DEF SnapshotBacked, Grows
<1>2. ASSUME NEW o \in Orders, NEW k \in 1..Len(s[o].fills)
      PROVE  s[o].fills[k].fill > 0 /\ Delivered(o, s[o].fills[k].exec, s[o].fills[k].fill, s[o].fills[k].cum)'
  BY GrowsDelivered DEF SnapshotBacked
<1> QED BY <1>1, <1>2 DEF SnapshotBacked

\* The broker's book is backed by its own events, and so is every delivered event.
LEMMA BookBacked ==
  ASSUME BrokerSound
  PROVE  SnapshotBacked(book) /\ \A i \in 1..Len(delivered) : EventBacked(delivered[i])
<1>0. book \in [Orders -> Entries] /\ delivered \in Seq(EventRecords)
  BY DEF BrokerSound, BrokerTyped
<1>1. ASSUME NEW o \in Orders
      PROVE  /\ book[o].state # "none" => Placed(o)
             /\ book[o].state = "none" => book[o].cum = 0
             /\ book[o].cum <= book[o].cum
             /\ book[o].state = "CANCELLED" => CancelDelivered(o)
             /\ book[o].state = "REJECTED" => Refused(o)
  <2>1. book[o].cum \in Nat
    BY <1>0 DEF Entries
  <2> QED BY <2>1 DEF BrokerSound, Consistent, Placed, CancelDelivered
<1>2. ASSUME NEW o \in Orders, NEW k \in 1..Len(book[o].fills)
      PROVE  book[o].fills[k].fill > 0 /\ Delivered(o, book[o].fills[k].exec, book[o].fills[k].fill, book[o].fills[k].cum)
  <2>1. PICK i \in 1..Len(delivered) : delivered[i].order = o /\ Shows(book[o].fills[k], delivered[i])
    BY DEF BrokerSound, Consistent
  <2> QED BY <2>1 DEF Shows, Delivered
<1>3. SnapshotBacked(book)
  BY <1>1, <1>2 DEF SnapshotBacked
<1>4. ASSUME NEW i \in 1..Len(delivered) PROVE EventBacked(delivered[i])
  <2> DEFINE e == delivered[i]
  <2>1. SoundEvent(e) /\ Placed(e.order) /\ e.cum <= book[e.order].cum
    BY DEF BrokerSound, Consistent, Placed
  <2>2. e.type \in EventTypes /\ e.type # "REJECTED" /\ e.id[1] = "BROKER"
    BY <2>1 DEF SoundEvent, EventTypes
  <2>3. e.type = "CANCELLED" => CancelDelivered(e.order)
    BY DEF CancelDelivered
  <2>4. Delivered(e.order, e.exec, e.fill, e.cum)
    BY DEF Delivered
  <2>5. /\ e.id = <<"BROKER", e.exec, 0>> /\ (e.fill > 0 => e.type \in {"PARTIAL_FILL", "FILL"})
        /\ e.exec \in Executed => e.type \in {"PARTIAL_FILL", "FILL"}
    BY <2>1 DEF SoundEvent, Executed
  <2> HIDE DEF e
  <2>6. EventBacked(e)
    BY <2>1, <2>2, <2>3, <2>4, <2>5 DEF EventBacked
  <2> QED BY <2>6 DEF e
<1> QED BY <1>3, <1>4

\* What repairEvents proposes is backed by the snapshot.
LEMMA RepairsBacked ==
  ASSUME NEW o \in Orders, NEW local \in OrderRecords, NEW s \in [Orders -> Entries], SnapshotBacked(s),
         s[o].state # "none", s[o].cum >= local.filled, BrokerSound
  PROVE  LET r == repairEvents(o, local, s[o]) IN
         /\ r.valid \in BOOLEAN /\ r.events \in Seq(EventRecords)
         /\ \A i \in 1..Len(r.events) : EventBacked(r.events[i]) /\ r.events[i].order = o
         /\ r.valid /\ s[o].cum > local.filled => r.events # <<>> /\ r.events[Len(r.events)].cum = s[o].cum
         /\ ~r.valid => r.events = <<>>
         /\ s[o].cum > local.filled => \A i \in 1..Len(r.events) : r.events[i].fill > 0
<1> DEFINE remote == s[o]
           r == repairEvents(o, local, remote)
<1>0. remote \in Entries /\ remote.cum \in Nat /\ local.filled \in Nat /\ remote.fills \in Seq(Executions)
  <2>1. remote \in Entries
    OBVIOUS
  <2> HIDE DEF remote
  <2> QED BY <2>1 DEF Entries, OrderRecords
<1>1. CASE remote.cum > local.filled
  <2>1. r = FillRepairs(o, local, remote)
    BY <1>1 DEF repairEvents
  <2>2. /\ r.valid \in BOOLEAN /\ r.events \in Seq(EventRecords)
        /\ \A i \in 1..Len(r.events) : \E k \in 1..Len(remote.fills) :
              r.events[i] = RepairEvent(o, remote.fills[k]) /\ remote.fills[k].cum > 0
        /\ r.valid => r.events # <<>> /\ r.events[Len(r.events)].cum = remote.cum
        /\ ~r.valid => r.events = <<>>
    <3> HIDE DEF r, remote
    <3> QED BY <1>0, <1>1, <2>1, FillRepairsKeeps
  <2>3. ASSUME NEW i \in 1..Len(r.events) PROVE EventBacked(r.events[i]) /\ r.events[i].order = o /\ r.events[i].fill > 0
    <3>1. PICK k \in 1..Len(remote.fills) : r.events[i] = RepairEvent(o, remote.fills[k])
      BY <2>2
    <3> DEFINE f == remote.fills[k]
               e == RepairEvent(o, f)
    <3>2. f \in Executions
      BY <1>0
    <3>3. /\ e.order = o /\ e.cum = f.cum /\ e.fill = f.fill /\ e.exec = f.exec
          /\ e.id = <<"reconcile", f.exec, 0>> /\ e.type \in {"FILL", "PARTIAL_FILL"}
      BY <3>2, RepairEventTyped
    <3>4. Delivered(o, f.exec, f.fill, f.cum) /\ Placed(o) /\ f.fill > 0
      BY DEF SnapshotBacked
    <3>5. f.cum <= book[o].cum
      <4>1. PICK j \in 1..Len(delivered) : delivered[j].order = o /\ delivered[j].cum = f.cum
        BY <3>4 DEF Delivered
      <4> QED BY <4>1 DEF BrokerSound, Consistent
    <3> HIDE DEF e, f
    <3>6. EventBacked(e)
      BY <3>3, <3>4, <3>5 DEF EventBacked, EventTypes
    <3>7. EventBacked(e) /\ e.order = o /\ e.fill > 0 /\ r.events[i] = e
      BY <3>1, <3>3, <3>4, <3>6 DEF e, f
    <3> QED BY <3>7
  <2> HIDE DEF r
  <2>4. /\ r.valid \in BOOLEAN /\ r.events \in Seq(EventRecords)
        /\ \A i \in 1..Len(r.events) : EventBacked(r.events[i]) /\ r.events[i].order = o
        /\ r.valid /\ s[o].cum > local.filled => r.events # <<>> /\ r.events[Len(r.events)].cum = s[o].cum
        /\ ~r.valid => r.events = <<>>
        /\ s[o].cum > local.filled => \A i \in 1..Len(r.events) : r.events[i].fill > 0
    BY <2>2, <2>3
  <2> QED BY <2>4 DEF r
<1>2. CASE ~(remote.cum > local.filled)
  <2> DEFINE status == StatusRepair(local, remote)
             e == [Event(o, "none", status, remote.cum, 0) EXCEPT !.id = <<"reconcile", status, remote.cum>>]
  <2>1. r = [valid |-> TRUE, events |-> IF status = "none" THEN <<>> ELSE <<e>>]
    BY <1>2 DEF repairEvents
  <2>2. status \in {"none", "ACKNOWLEDGED", "SUBMITTED", "CANCELLED", "REJECTED"}
        /\ (status = "CANCELLED" => remote.state = "CANCELLED") /\ (status = "REJECTED" => remote.state = "REJECTED")
    BY DEF StatusRepair
  <2>3. ASSUME status # "none"
        PROVE  e \in EventRecords /\ EventBacked(e) /\ e.order = o
    <3> HIDE DEF status
    <3>1. status \in ReportTypes /\ status \in EventTypes
      BY <2>2, <2>3 DEF ReportTypes, EventTypes
    <3>2. <<"reconcile", status, remote.cum>> \in Identities
      BY <1>0, <3>1 DEF Identities, Keys
    <3>3. e = [order |-> o, id |-> <<"reconcile", status, remote.cum>>, exec |-> "none", type |-> status,
               cum |-> remote.cum, fill |-> 0]
      BY DEF Event
    <3>4. Placed(o) /\ remote.cum <= book[o].cum
          /\ (status = "CANCELLED" => CancelDelivered(o)) /\ (status = "REJECTED" => Refused(o))
      BY <2>2 DEF SnapshotBacked
    <3> HIDE DEF remote
    <3>5. e \in EventRecords
      BY <1>0, <3>1, <3>2, <3>3 DEF EventRecords, Suffixes
    <3>6. EventBacked(e)
      BY <3>1, <3>3, <3>4 DEF EventBacked
    <3> QED BY <3>3, <3>5, <3>6
  <2> HIDE DEF e, status
  <2>4. CASE status = "none"
    BY <1>0, <1>2, <2>1, <2>4
  <2>5. CASE status # "none"
    BY <1>0, <1>2, <2>1, <2>3, <2>5
  <2> QED BY <2>4, <2>5
<1> QED BY <1>1, <1>2

-----------------------------------------------------------------------------
(* The invariant of the control state.                                     *)

\* The batch that is being drained is the end of the delivered events up to next.
DrainOK ==
  /\ drain \in Drains /\ cursor \in 0..Len(delivered)
  /\ drain.pc # "read" => drain.left # <<>>
  /\ drain.by = "none" => drain.left = <<>>
  /\ drain.by \in Workers => call[drain.by].pc = "drain"
  /\ drain.by = "cancel" => cancel.pc = "drain"
  /\ drain.by # "none" =>
       /\ drain.next \in cursor..Len(delivered)
       /\ Len(drain.left) <= drain.next - cursor
       /\ \A i \in 1..Len(drain.left) : drain.left[i] = delivered[drain.next - Len(drain.left) + i]

CancelOK == cancel \in Cancels /\ (cancel.pc # "idle" => cancel.order \in Orders)

ReconOK ==
  /\ recon \in Recons
  /\ recon.step # "read" => recon.events # <<>>
  /\ SnapshotBacked(recon.snapshot)
  /\ \A i \in 1..Len(recon.events) : EventBacked(recon.events[i])

Control ==
  BrokerSound /\ StoreTyped /\ WorkersOK /\ DrainOK /\ CancelOK /\ ReconOK /\ reserved \subseteq Orders

LEMMA DrainStable ==
  ASSUME DrainOK, BrokerTyped, BrokerTyped', Grows, UNCHANGED <<drain, cursor>>,
         drain.by \in Workers => call'[drain.by].pc = "drain",
         drain.by = "cancel" => cancel'.pc = "drain"
  PROVE  DrainOK'
<1>1. Len(delivered) \in Nat /\ Len(delivered') \in Nat /\ Len(delivered) <= Len(delivered')
  BY DEF BrokerTyped, Grows
<1>2. cursor \in 0..Len(delivered') /\ cursor \in Nat
  BY <1>1 DEF DrainOK
<1>3. ASSUME drain.by # "none"
      PROVE  /\ drain.next \in cursor..Len(delivered')
             /\ Len(drain.left) <= drain.next - cursor
             /\ \A i \in 1..Len(drain.left) : drain.left[i] = delivered'[drain.next - Len(drain.left) + i]
  <2>1. drain.next \in cursor..Len(delivered) /\ Len(drain.left) <= drain.next - cursor
    BY <1>3 DEF DrainOK
  <2>2. Len(drain.left) \in Nat
    BY DEF DrainOK, Drains
  <2>3. ASSUME NEW i \in 1..Len(drain.left)
        PROVE  drain.left[i] = delivered'[drain.next - Len(drain.left) + i]
    <3>1. drain.next - Len(drain.left) + i \in 1..Len(delivered)
      BY <1>1, <1>2, <2>1, <2>2
    <3>2. drain.left[i] = delivered[drain.next - Len(drain.left) + i]
      BY <1>3 DEF DrainOK
    <3> QED BY <3>1, <3>2 DEF Grows
  <2> QED BY <1>1, <1>2, <2>1, <2>3
<1> QED BY <1>2, <1>3 DEF DrainOK

LEMMA ReconStable ==
  ASSUME ReconOK, BrokerTyped, BrokerTyped', Grows, UNCHANGED recon
  PROVE  ReconOK'
<1>1. recon.snapshot \in [Orders -> Entries] /\ recon.events \in Seq(EventRecords)
  BY DEF ReconOK, Recons
<1>2. PICK s : s = recon.snapshot
  OBVIOUS
<1>3. SnapshotBacked(s)'
  BY <1>1, <1>2, GrowsSnapshot DEF ReconOK
<1>4. (SnapshotBacked(recon.snapshot))'
  BY <1>2, <1>3 DEF SnapshotBacked
<1>5. ASSUME NEW i \in 1..Len(recon.events) PROVE (EventBacked(recon.events[i]))'
  <2>1. PICK e : e = recon.events[i]
    OBVIOUS
  <2>2. e \in EventRecords /\ EventBacked(e)
    BY <1>1, <2>1 DEF ReconOK
  <2>3. EventBacked(e)'
    BY <2>2, GrowsBacked
  <2> QED BY <2>1, <2>3 DEF EventBacked
<1> QED BY <1>4, <1>5 DEF ReconOK

LEMMA AfterDrainEffect ==
  ASSUME WorkersOK, NEW a \in Drainers, NEW ok \in BOOLEAN, AfterDrain(a, ok)
  PROVE  \/ a = "cancel" /\ cancel' = IdleCancel /\ UNCHANGED <<call, planned>>
         \/ a \in Workers /\ a # "cancel" /\ UNCHANGED cancel /\ Leaves(a)
<1>1. CASE a = "cancel"
  BY <1>1 DEF AfterDrain
<1>2. CASE a # "cancel"
  <2>1. a \in Workers /\ UNCHANGED cancel
    BY <1>2 DEF Drainers, AfterDrain
  <2>2. call[a].leg \in Nat
    BY <2>1 DEF WorkersOK, Calls
  <2>3. CASE ~ok
    BY <1>2, <2>1, <2>3, ReturnLeaves DEF AfterDrain
  <2>4. CASE ok /\ call[a].leg = 0
    <3>1. Moves(a, "scan", call[a].leg) /\ SameSeen(a)
      BY <1>2, <2>1, <2>4, PcMoves DEF AfterDrain, WorkersOK, PCs
    <3>2. Progresses(a, "scan")
      BY <2>1, <2>2, <3>1, MovesProgresses, SameSeenBacked DEF PCs, Holding
    <3> QED BY <1>2, <2>1, <3>2 DEF Leaves, PCs, Holding
  <2>5. CASE ok /\ call[a].leg # 0
    <3>1. Moves(a, "leg", call[a].leg + 1) /\ SameSeen(a)
      BY <1>2, <2>1, <2>5, LegMoves DEF AfterDrain, WorkersOK
    <3>2. call[a].leg + 1 \in Nat /\ call[a].leg + 1 >= 1
      BY <2>2
    <3>3. Progresses(a, "leg")
      BY <2>1, <3>1, <3>2, MovesProgresses, SameSeenBacked DEF PCs, Holding
    <3> QED BY <1>2, <2>1, <3>3 DEF Leaves, PCs, Holding
  <2> QED BY <2>3, <2>4, <2>5
<1> QED BY <1>1, <1>2

\* PublishBrokerEvent commits the event, or leaves the store alone.
LEMMA EventPublished ==
  ASSUME NEW read, NEW event, NEW at, NEW result, PublishBrokerEvent(read, event, at, result)
  PROVE  \/ result # "published" /\ UNCHANGED storeVars
         \/ /\ result = "published" /\ ~staleBrokerEvent(read, event)
            /\ Publication(event.order, EventReport(event, at), event.exec, event.fill)
<1> DEFINE o == event.order
           report == EventReport(event, at)
<1>1. CASE KnownReport(o, report.id)
  BY <1>1 DEF PublishBrokerEvent
<1>2. CASE ~KnownReport(o, report.id) /\ staleBrokerEvent(read, event)
  BY <1>2 DEF PublishBrokerEvent
<1>3. CASE ~KnownReport(o, report.id) /\ ~staleBrokerEvent(read, event)
  <2>1. publish(o, report, event.exec, event.fill, result)
    BY <1>3 DEF PublishBrokerEvent
  <2> HIDE DEF report, o
  <2>2. \/ result = "published" /\ Publication(o, report, event.exec, event.fill)
        \/ result # "published" /\ UNCHANGED storeVars
    BY <2>1, PublishCases
  <2> QED BY <1>3, <2>2 DEF report, o
<1> QED BY <1>1, <1>2, <1>3

LEMMA StoreIdle == ASSUME StoreTyped, UNCHANGED storeVars PROVE StoreTyped'
BY DEF StoreTyped, storeVars, ValidOrder

LEMMA PublishesTyped ==
  ASSUME StoreTyped, NEW o \in Orders, NEW type, NEW key, NEW n, Publishes(o, type, key, n)
  PROVE  StoreTyped'
<1>1. PICK report \in ReportRecords : Publication(o, report, "none", 0)
  BY DEF Publishes
<1> QED BY <1>1, PublicationTyped DEF Suffixes

LEMMA EventTyped ==
  ASSUME StoreTyped, NEW event \in EventRecords, NEW at \in Times \cup {0}, NEW read, NEW result,
         PublishBrokerEvent(read, event, at, result)
  PROVE  StoreTyped'
<1>1. event.order \in Orders /\ event.exec \in Suffixes /\ event.fill \in Nat
  BY DEF EventRecords
<1>2. EventReport(event, at) \in ReportRecords
  BY EventReportTyped
<1> QED BY <1>1, <1>2, EventPublished, StoreIdle, PublicationTyped

\* A worker's step keeps the control state.
LEMMA WorkerControl ==
  ASSUME Control, NEW w \in Workers, WorkerEffect(w)
  PROVE  Control' /\ Grows
<1> USE DEF Control
<1>1. WorkerFrame /\ call[w].pc # "idle" /\ call[w].pc # "drain"
  BY DEF WorkerEffect, Passes, PlansLeg, TakesUnknown, TakesPlanned, Sends, KeepsUnknown, Releases, Holding
<1>2. Leaves(w) \/ Returns(w) \/ \E pc \in Holding : Progresses(w, pc)
  BY DEF WorkerEffect, Passes, PlansLeg, TakesUnknown, TakesPlanned, Sends, KeepsUnknown, Releases, Holding
<1>3. WorkersOK' /\ OnlyCall(w)
  BY <1>1, <1>2, ReturnsOK, ProgressesOK DEF Leaves, Returns, Progresses, Moves
<1>4. call[w].pc \in Holding => Leg(w) \in Orders
  BY LegTyped
<1>5. reserved' \subseteq Orders
  <2>1. \/ UNCHANGED reserved \/ reserved' = reserved \ {Leg(w)}
        \/ \E o \in Orders : reserved' = reserved \cup {o}
    BY DEF WorkerEffect, Passes, PlansLeg, TakesUnknown, TakesPlanned, Sends, KeepsUnknown, Releases
  <2> QED BY <2>1
<1>6. BrokerSound' /\ Grows
  <2>1. CASE Sends(w)
    <3>1. Leg(w) \in Orders
      BY <1>4, <2>1 DEF Sends, Holding
    <3> QED BY <2>1, <3>1, SubmitUnavailableStep, SubmitStep, BrokerIdle DEF Sends
  <2>2. CASE ~Sends(w)
    <3>1. UNCHANGED brokerVars
      BY <2>2 DEF WorkerEffect, Passes, PlansLeg, TakesUnknown, TakesPlanned, KeepsUnknown, Releases
    <3> QED BY <3>1, BrokerIdle
  <2> QED BY <2>1, <2>2
<1>7. StoreTyped'
  <2>1. UNCHANGED storeVars \/ \E o \in Orders : \E type, key, n : Publishes(o, type, key, n)
    <3>1. CASE Passes(w) \/ Sends(w)
      BY <3>1 DEF Passes, Sends
    <3>2. CASE PlansLeg(w)
      BY <3>2 DEF PlansLeg
    <3>3. CASE KeepsUnknown(w)
      BY <1>4, <3>3 DEF KeepsUnknown, Holding
    <3>4. CASE Releases(w)
      BY <1>4, <3>4 DEF Releases
    <3>5. CASE \E o \in Orders : TakesUnknown(w, o) \/ TakesPlanned(w, o)
      BY <3>5 DEF TakesUnknown, TakesPlanned
    <3> QED BY <3>1, <3>2, <3>3, <3>4, <3>5 DEF WorkerEffect
  <2> QED BY <2>1, StoreIdle, PublishesTyped
<1>8. DrainOK'
  <2>1. drain.by \in Workers => call'[drain.by].pc = "drain"
    BY <1>1, <1>3 DEF OnlyCall, DrainOK
  <2>2. drain.by = "cancel" => cancel'.pc = "drain"
    BY <1>1 DEF WorkerFrame, DrainOK
  <2> QED BY <1>1, <1>6, <2>1, <2>2, DrainStable DEF WorkerFrame, BrokerSound
<1>9. CancelOK' /\ ReconOK'
  BY <1>1, <1>6, ReconStable DEF WorkerFrame, CancelOK, BrokerSound
<1> QED BY <1>3, <1>5, <1>6, <1>7, <1>8, <1>9

LEMMA ExecutePlanControl ==
  ASSUME Control, NEW w \in Workers, NEW p \in Plans, NEW at \in Times, ExecutePlan(w, p, at)
  PROVE  Control' /\ Grows
<1> USE DEF Control
<1>1. /\ UNCHANGED <<brokerVars, storeVars, reserved, drain, cursor, cancel, recon>>
      /\ call[w].pc = "idle" /\ OnlyCall(w)
  BY ExecuteMoves DEF ExecutePlan, WorkersOK
<1>2. BrokerSound' /\ Grows /\ StoreTyped' /\ WorkersOK'
  BY <1>1, BrokerIdle, StoreIdle, ExecuteOK
<1>3. DrainOK'
  <2>1. drain.by \in Workers => call'[drain.by].pc = "drain"
    BY <1>1 DEF OnlyCall, DrainOK
  <2> QED BY <1>1, <1>2, <2>1, DrainStable DEF BrokerSound, DrainOK
<1>4. CancelOK' /\ ReconOK' /\ reserved' \subseteq Orders
  BY <1>1, <1>2, ReconStable DEF CancelOK, BrokerSound
<1> QED BY <1>2, <1>3, <1>4

\* The events at the head of a batch and of the repairs.
LEMMA Heads ==
  ASSUME Control
  PROVE  /\ drain.left # <<>> =>
              /\ Head(drain.left) \in EventRecords /\ EventBacked(Head(drain.left))
              /\ Head(drain.left) = delivered[drain.next - Len(drain.left) + 1]
              /\ drain.next - Len(drain.left) + 1 \in (cursor + 1)..drain.next
              /\ drain.next \in cursor..Len(delivered) /\ drain.by \in Drainers
         /\ recon.events # <<>> => Head(recon.events) \in EventRecords /\ EventBacked(Head(recon.events))
<1> USE DEF Control
<1>0. /\ drain.left \in Seq(EventRecords) /\ recon.events \in Seq(EventRecords) /\ drain.by \in Drainers \cup {"none"}
      /\ drain.next \in Nat
  BY DEF DrainOK, Drains, ReconOK, Recons
<1>1. ASSUME drain.left # <<>>
      PROVE  /\ Head(drain.left) \in EventRecords /\ EventBacked(Head(drain.left))
             /\ Head(drain.left) = delivered[drain.next - Len(drain.left) + 1]
             /\ drain.next - Len(drain.left) + 1 \in (cursor + 1)..drain.next
             /\ drain.next \in cursor..Len(delivered) /\ drain.by \in Drainers
  <2>1. Len(drain.left) \in Nat \ {0} /\ Head(drain.left) = drain.left[1] /\ Head(drain.left) \in EventRecords
    BY <1>0, <1>1
  <2>2. drain.by # "none"
    BY <1>1 DEF DrainOK
  <2>3. /\ drain.next \in cursor..Len(delivered) /\ Len(drain.left) <= drain.next - cursor
        /\ drain.left[1] = delivered[drain.next - Len(drain.left) + 1]
    <3>1. 1 \in 1..Len(drain.left)
      BY <2>1
    <3> QED BY <2>2, <3>1 DEF DrainOK
  <2>4. cursor \in Nat /\ Len(delivered) \in Nat
    BY DEF DrainOK, BrokerSound, BrokerTyped
  <2>5. drain.next - Len(drain.left) + 1 \in (cursor + 1)..drain.next
    BY <2>1, <2>3, <2>4
  <2>6. drain.next - Len(drain.left) + 1 \in 1..Len(delivered)
    BY <2>1, <2>3, <2>4
  <2>7. EventBacked(delivered[drain.next - Len(drain.left) + 1])
    BY <2>6, BookBacked
  <2>8. EventBacked(Head(drain.left))
    BY <2>1, <2>3, <2>7
  <2> QED BY <1>0, <2>1, <2>2, <2>3, <2>5, <2>8
<1>2. ASSUME recon.events # <<>>
      PROVE  Head(recon.events) \in EventRecords /\ EventBacked(Head(recon.events))
  <2>1. Head(recon.events) = recon.events[1] /\ 1 \in 1..Len(recon.events) /\ Head(recon.events) \in EventRecords
    BY <1>0, <1>2
  <2> QED BY <2>1 DEF ReconOK
<1> QED BY <1>1, <1>2

LEMMA WorkersIdle == ASSUME WorkersOK, UNCHANGED <<call, planned>> PROVE WorkersOK'
BY DEF WorkersOK

\* A drain that ends, by the call that ran it.
LEMMA DrainEnds ==
  ASSUME Control, NEW a \in Drainers, NEW ok \in BOOLEAN, AfterDrain(a, ok),
         a \in Workers => call[a].pc = "drain",
         drain' = IdleDrain, cursor' \in 0..Len(delivered), UNCHANGED <<brokerVars, recon>>,
         StoreTyped', reserved' \subseteq Orders
  PROVE  Control' /\ Grows
<1> USE DEF Control
<1>1. BrokerSound' /\ Grows
  BY BrokerIdle
<1>2. CASE a = "cancel" /\ cancel' = IdleCancel /\ UNCHANGED <<call, planned>>
  <2>1. WorkersOK'
    BY <1>2, WorkersIdle
  <2>2. CancelOK'
    BY <1>2, IdleTyped DEF CancelOK, IdleCancel
  <2>3. DrainOK'
    <3>1. "none" \notin Workers
      BY CoordinatorAssumption DEF CoordinatorAssumption
    <3> QED BY <3>1, IdleTyped DEF DrainOK, IdleDrain, brokerVars
  <2> QED BY <1>1, <2>1, <2>2, <2>3, ReconStable DEF BrokerSound
<1>3. CASE a \in Workers /\ a # "cancel" /\ UNCHANGED cancel /\ Leaves(a)
  <2>1. WorkersOK'
    BY <1>3, ReturnsOK, ProgressesOK DEF Leaves
  <2>2. CancelOK'
    BY <1>3 DEF CancelOK
  <2>3. DrainOK'
    <3>1. "none" \notin Workers
      BY CoordinatorAssumption DEF CoordinatorAssumption
    <3> QED BY <3>1, IdleTyped DEF DrainOK, IdleDrain, brokerVars
  <2> QED BY <1>1, <2>1, <2>2, <2>3, ReconStable DEF BrokerSound
<1> QED BY <1>2, <1>3, AfterDrainEffect

LEMMA StartDrainControl ==
  ASSUME Control, NEW a \in Drainers, StartDrain(a)
  PROVE  Control' /\ Grows
<1> USE DEF Control
<1> DEFINE until == cursor + EventBatchSize
           next == IF until > Len(delivered') THEN Len(delivered') ELSE until
           left == SubSeq(delivered', cursor + 1, next)
<1>1. /\ WantsDrain(a) /\ drain = IdleDrain /\ EventsAfter
      /\ drain' = [IdleDrain EXCEPT !.by = a, !.next = next, !.left = left]
      /\ UNCHANGED <<storeVars, reserved, planned, cursor, call, cancel, recon>>
  BY DEF StartDrain
<1>2. BrokerSound' /\ Grows
  BY <1>1, EventsAfterStep, GrowsAfterEvents
<1>3. /\ Len(delivered) \in Nat /\ Len(delivered') \in Nat /\ Len(delivered) <= Len(delivered')
      /\ delivered' \in Seq(EventRecords) /\ cursor \in 0..Len(delivered) /\ EventBatchSize \in Nat \ {0}
  BY <1>2, CoordinatorAssumption DEF CoordinatorAssumption, BrokerSound, BrokerTyped, Grows, DrainOK
<1>4. next \in cursor..Len(delivered')
  BY <1>3
<1> HIDE DEF next
<1>5. /\ left \in Seq(EventRecords) /\ Len(left) = next - cursor
      /\ \A i \in 1..Len(left) : left[i] = delivered'[next - Len(left) + i]
  <2>1. /\ Len(left) = next - cursor
        /\ \A i \in 1..(next - cursor) : left[i] = delivered'[cursor + 1 + i - 1]
        /\ left \in Seq(EventRecords)
    <3>1. cursor + 1 \in Int /\ next \in Int /\ cursor + 1 >= 1 /\ next <= Len(delivered')
      BY <1>3, <1>4
    <3>2. CASE cursor + 1 <= next
      <4>1. Len(left) = next - (cursor + 1) + 1 /\ left \in Seq(EventRecords)
            /\ \A i \in 1..(next - (cursor + 1) + 1) : left[i] = delivered'[cursor + 1 + i - 1]
        BY <1>3, <3>1, <3>2
      <4>2. next - (cursor + 1) + 1 = next - cursor
        BY <1>3, <1>4
      <4> QED BY <4>1, <4>2
    <3>3. CASE ~(cursor + 1 <= next)
      <4>1. next = cursor
        BY <1>3, <1>4, <3>3
      <4>2. left = <<>>
        BY <1>3, <4>1
      <4> QED BY <1>3, <4>1, <4>2
    <3> QED BY <3>2, <3>3
  <2>2. ASSUME NEW i \in 1..(next - cursor) PROVE left[i] = delivered'[next - Len(left) + i]
    <3>1. cursor + 1 + i - 1 = next - Len(left) + i
      BY <1>3, <1>4, <2>1
    <3> QED BY <2>1, <3>1
  <2> QED BY <2>1, <2>2
<1> HIDE DEF left
<1>6. DrainOK'
  <2>1. /\ drain'.by = a /\ drain'.next = next /\ drain'.left = left /\ drain'.pc = "read" /\ drain' \in Drains
    <3>1. next \in Nat
      BY <1>3, <1>4
    <3> QED BY <1>1, <1>5, <3>1, NoOrderTyped DEF IdleDrain, Drains
  <2>2. a # "none" /\ (a \in Workers => a # "cancel")
    BY CoordinatorAssumption DEF CoordinatorAssumption, Drainers
  <2>3. (a \in Workers => call'[a].pc = "drain") /\ (a = "cancel" => cancel'.pc = "drain")
    BY <1>1, <2>2 DEF WantsDrain
  <2>4. cursor' = cursor /\ cursor \in 0..Len(delivered')
    BY <1>1, <1>3
  <2>5. Len(left) <= next - cursor
    BY <1>3, <1>4, <1>5
  <2> QED BY <1>4, <1>5, <2>1, <2>2, <2>3, <2>4, <2>5 DEF DrainOK
<1> QED BY <1>1, <1>2, <1>6, StoreIdle, WorkersIdle, ReconStable DEF CancelOK, BrokerSound

LEMMA DrainUnavailableControl ==
  ASSUME Control, NEW a \in Drainers, DrainUnavailable(a)
  PROVE  Control' /\ Grows
<1>1. /\ WantsDrain(a) /\ drain' = IdleDrain /\ UNCHANGED <<brokerVars, storeVars, reserved, cursor, recon>>
      /\ \E tolerated \in BOOLEAN : AfterDrain(a, tolerated)
  BY DEF DrainUnavailable
<1>2. a \in Workers => call[a].pc = "drain"
  BY <1>1, CoordinatorAssumption DEF CoordinatorAssumption, WantsDrain
<1>3. cursor' \in 0..Len(delivered) /\ reserved' \subseteq Orders
  BY <1>1 DEF Control, DrainOK
<1> QED BY <1>1, <1>2, <1>3, DrainEnds, StoreIdle DEF Control

LEMMA DrainReadControl ==
  ASSUME Control, DrainRead
  PROVE  Control' /\ Grows
<1> USE DEF Control
<1>1. /\ drain.left # <<>> /\ drain.pc = "read" /\ drain.by # "none"
      /\ drain' = [drain EXCEPT !.pc = "reserve", !.read = orders[Head(drain.left).order]]
      /\ UNCHANGED <<brokerVars, storeVars, reserved, planned, cursor, call, cancel, recon>>
  BY DEF DrainRead
<1>2. BrokerSound' /\ Grows
  BY <1>1, BrokerIdle
<1>3. orders[Head(drain.left).order] \in OrderRecords
  <2>1. Head(drain.left).order \in Orders
    BY <1>1, Heads DEF EventRecords
  <2> QED BY <2>1 DEF StoreTyped
<1>4. /\ drain' \in Drains /\ drain'.by = drain.by /\ drain'.left = drain.left /\ drain'.next = drain.next
  BY <1>1, <1>3 DEF DrainOK, Drains
<1>5. DrainOK'
  BY <1>1, <1>4 DEF DrainOK, brokerVars
<1> QED BY <1>1, <1>2, <1>5, StoreIdle, WorkersIdle, ReconStable DEF CancelOK, BrokerSound

\* The call that runs the drain.
LEMMA DrainCaller ==
  ASSUME Control, drain.left # <<>> \/ drain.by # "none"
  PROVE  drain.by \in Drainers /\ (drain.by \in Workers => call[drain.by].pc = "drain") /\ DrainTime \in Times \cup {0}
<1> USE DEF Control
<1>1. drain.by \in Drainers /\ (drain.by \in Workers => call[drain.by].pc = "drain")
  BY DEF DrainOK, Drains
<1>2. cancel.at \in Times \cup {0} /\ \A w \in Workers : call[w].at \in Times \cup {0}
  BY DEF CancelOK, Cancels, WorkersOK, Calls
<1> QED BY <1>1, <1>2 DEF DrainTime, Drainers

LEMMA DrainReserveControl ==
  ASSUME Control, DrainReserve
  PROVE  Control' /\ Grows
<1> USE DEF Control
<1> DEFINE o == Head(drain.left).order
<1>1. /\ drain.pc = "reserve" /\ drain.left # <<>>
      /\ UNCHANGED <<brokerVars, storeVars, closed, cursor, recon>>
  BY DEF DrainReserve, DrainOK
<1>2. o \in Orders
  BY <1>1, Heads DEF EventRecords
<1>3. CASE Busy(o)
  <2>1. drain' = IdleDrain /\ AfterDrain(drain.by, FALSE) /\ UNCHANGED reserved
    BY <1>3 DEF DrainReserve
  <2>2. cursor' \in 0..Len(delivered) /\ reserved' \subseteq Orders /\ StoreTyped'
    BY <1>1, <2>1, StoreIdle DEF DrainOK
  <2> QED BY <1>1, <2>1, <2>2, DrainCaller, DrainEnds
<1>4. CASE ~Busy(o)
  <2>1. /\ drain' = [drain EXCEPT !.pc = "apply"] /\ reserved' = reserved \cup {o}
        /\ UNCHANGED <<planned, call, cancel>>
    BY <1>4 DEF DrainReserve
  <2>2. BrokerSound' /\ Grows
    BY <1>1, BrokerIdle
  <2>3. /\ drain' \in Drains /\ drain'.by = drain.by /\ drain'.left = drain.left /\ drain'.next = drain.next
    BY <2>1 DEF DrainOK, Drains
  <2>4. DrainOK'
    BY <1>1, <2>1, <2>3 DEF DrainOK, brokerVars
  <2> QED BY <1>1, <1>2, <2>1, <2>2, <2>4, StoreIdle, WorkersIdle, ReconStable DEF CancelOK, BrokerSound
<1> QED BY <1>3, <1>4

LEMMA DrainApplyControl ==
  ASSUME Control, DrainApply
  PROVE  Control' /\ Grows
<1> USE DEF Control
<1> DEFINE event == Head(drain.left)
<1>1. /\ drain.pc = "apply" /\ drain.left # <<>> /\ reserved' = reserved \ {event.order}
      /\ UNCHANGED <<brokerVars, closed, cursor, recon>>
  BY DEF DrainApply, DrainOK
<1>2. PICK result \in EventResults :
        /\ PublishBrokerEvent(drain.read, event, DrainTime, result)
        /\ IF result = "error" THEN drain' = IdleDrain /\ AfterDrain(drain.by, FALSE)
           ELSE /\ drain' = [drain EXCEPT !.pc = "read", !.read = NoOrder, !.left = Tail(@)]
                /\ UNCHANGED <<planned, call, cancel>>
  BY DEF DrainApply
<1>3. event \in EventRecords /\ DrainTime \in Times \cup {0} /\ drain.by \in Drainers
      /\ (drain.by \in Workers => call[drain.by].pc = "drain")
  BY <1>1, Heads, DrainCaller
<1>4. StoreTyped'
  BY <1>2, <1>3, EventTyped
<1>5. reserved' \subseteq Orders
  BY <1>1
<1> HIDE DEF event
<1>6. CASE result = "error"
  <2>1. cursor' \in 0..Len(delivered)
    BY <1>1 DEF DrainOK
  <2> QED BY <1>1, <1>2, <1>3, <1>4, <1>5, <1>6, <2>1, DrainEnds
<1>7. CASE result # "error"
  <2>1. /\ drain' = [drain EXCEPT !.pc = "read", !.read = NoOrder, !.left = Tail(@)]
        /\ UNCHANGED <<planned, call, cancel>>
    BY <1>2, <1>7
  <2>2. BrokerSound' /\ Grows
    BY <1>1, BrokerIdle
  <2>3. /\ drain.left \in Seq(EventRecords) /\ Tail(drain.left) \in Seq(EventRecords)
        /\ Len(Tail(drain.left)) = Len(drain.left) - 1
        /\ \A i \in 1..Len(Tail(drain.left)) : Tail(drain.left)[i] = drain.left[i + 1]
        /\ Len(drain.left) \in Nat \ {0}
    <3>1. drain.left \in Seq(EventRecords)
      BY DEF DrainOK, Drains
    <3> QED BY <1>1, <3>1, HeadTailProperties
  <2>4. /\ drain' \in Drains /\ drain'.by = drain.by /\ drain'.left = Tail(drain.left)
        /\ drain'.next = drain.next /\ drain'.pc = "read"
    BY <2>1, <2>3, NoOrderTyped DEF DrainOK, Drains
  <2>5. /\ drain.next \in cursor..Len(delivered) /\ Len(drain.left) <= drain.next - cursor
        /\ \A i \in 1..Len(drain.left) : drain.left[i] = delivered[drain.next - Len(drain.left) + i]
        /\ drain.by # "none" /\ cursor \in Nat /\ Len(delivered) \in Nat
    BY <1>1 DEF DrainOK, BrokerSound, BrokerTyped
  <2>6. Len(Tail(drain.left)) <= drain.next - cursor
    BY <2>3, <2>5
  <2>7. ASSUME NEW i \in 1..Len(Tail(drain.left))
        PROVE  Tail(drain.left)[i] = delivered[drain.next - Len(Tail(drain.left)) + i]
    <3>1. i + 1 \in 1..Len(drain.left)
      BY <2>3
    <3>2. drain.next - Len(Tail(drain.left)) + i = drain.next - Len(drain.left) + (i + 1)
      <4>1. \A n \in Int, m \in Int, j \in Int : n - (m - 1) + j = n - m + (j + 1)
        OBVIOUS
      <4>2. drain.next \in Int /\ Len(drain.left) \in Int /\ i \in Int
        BY <2>3, <2>5
      <4> QED BY <2>3, <4>1, <4>2
    <3> QED BY <2>3, <2>5, <3>1, <3>2
  <2>8. DrainOK'
    BY <1>1, <1>3, <2>1, <2>4, <2>5, <2>6, <2>7 DEF DrainOK, brokerVars
  <2> QED BY <1>1, <1>4, <1>5, <2>1, <2>2, <2>8, WorkersIdle, ReconStable DEF CancelOK, BrokerSound
<1> QED BY <1>6, <1>7

LEMMA FinishDrainControl ==
  ASSUME Control, FinishDrain
  PROVE  Control' /\ Grows
<1>1. /\ drain.by # "none" /\ cursor' = drain.next /\ drain' = IdleDrain /\ AfterDrain(drain.by, TRUE)
      /\ UNCHANGED <<brokerVars, storeVars, reserved, recon>>
  BY DEF FinishDrain
<1>2. cursor' \in 0..Len(delivered)
  BY <1>1 DEF Control, DrainOK, BrokerSound, BrokerTyped
<1>3. StoreTyped' /\ reserved' \subseteq Orders
  BY <1>1, StoreIdle DEF Control
<1> QED BY <1>1, <1>2, <1>3, DrainCaller, DrainEnds

\* RequestCancel's steps keep the control state.  Its effects, by the order at hand.
CancelTakes ==
  /\ cancel.pc = "reserve" /\ cancel.order \in Orders /\ ~Busy(cancel.order)
  /\ cancel.current.state \in Cancellable
  /\ \/ UNCHANGED storeVars \/ \E n \in Nat : Publishes(cancel.order, "CANCEL_PENDING", "cancel", n)
  /\ cancel'.pc = "send" /\ cancel'.order = cancel.order /\ reserved' = reserved \cup {cancel.order}
  /\ cancel' \in Cancels
  /\ UNCHANGED brokerVars

CancelSends ==
  /\ cancel.pc = "send" /\ cancel.order \in Orders /\ cancel' \in Cancels /\ cancel'.order = cancel.order
  /\ UNCHANGED storeVars
  /\ \/ CancelAccepted(cancel.order) /\ cancel'.pc = "drain" /\ reserved' = reserved \ {cancel.order}
     \/ UNCHANGED <<brokerVars, reserved>> /\ cancel'.pc = "unknown"

CancelEnds ==
  /\ cancel' = IdleCancel /\ UNCHANGED brokerVars
  /\ \/ cancel.pc = "reserve" /\ UNCHANGED <<storeVars, reserved>>
     \/ /\ cancel.pc = "unknown" /\ cancel.order \in Orders
        /\ reserved' = reserved \ {cancel.order}
        /\ UNCHANGED storeVars \/ \E n \in Nat : Publishes(cancel.order, "UNKNOWN", "cancel-unknown", n)

CancelEffect ==
  /\ UNCHANGED <<planned, cursor, drain, call, recon>>
  /\ CancelTakes \/ CancelSends \/ CancelEnds

LEMMA CancelReserveEffect ==
  ASSUME Control, CancelReserve
  PROVE  CancelEffect
<1> USE DEF Control
<1> DEFINE o == cancel.order
           n == cancel.current.revision
           report == Internal(cancel.current, "CANCEL_PENDING", "cancel", n, cancel.at)
           next == ApplyExecutionReport(orders[o], report)
<1>0. cancel.pc = "reserve" /\ o \in Orders /\ UNCHANGED <<brokerVars, planned, cursor, drain, call, recon>>
  BY DEF CancelReserve, CancelOK
<1>1. CASE Busy(o) \/ cancel.current.state \notin Cancellable
  BY <1>0, <1>1 DEF CancelReserve, CancelEffect, CancelEnds
<1>2. CASE ~(Busy(o) \/ cancel.current.state \notin Cancellable)
  <2>1. PICK result \in Results :
          /\ publish(o, report, "none", 0, result)
          /\ IF result \in Done
             THEN /\ cancel' = [cancel EXCEPT !.pc = "send", !.current = next]
                  /\ reserved' = reserved \cup {o}
             ELSE cancel' = IdleCancel /\ UNCHANGED reserved
    BY <1>2 DEF CancelReserve
  <2>2. cancel.current \in OrderRecords /\ cancel.at \in Times \cup {0}
    BY DEF CancelOK, Cancels
  <2>3. n \in Nat
    BY <2>2 DEF OrderRecords
  <2>4. report \in ReportRecords /\ report.type = "CANCEL_PENDING" /\ report.id = <<"COORDINATOR", "cancel", n>>
    <3>1. report \in ReportRecords
      BY <2>2, <2>3, ReportsTyped DEF ReportTypes, Keys
    <3> QED BY <3>1 DEF Internal, Report
  <2> HIDE DEF report, n
  <2>5. next \in OrderRecords
    BY <1>0, <2>4, AppliedTyped DEF StoreTyped
  <2> HIDE DEF next
  <2>6. UNCHANGED storeVars \/ Publishes(o, "CANCEL_PENDING", "cancel", n)
    BY <2>1, <2>4, PublishedOr
  <2>7. CASE result \in Done
    <3>1. cancel' \in Cancels /\ cancel'.pc = "send" /\ cancel'.order = o
      BY <2>1, <2>5, <2>7 DEF CancelOK, Cancels
    <3>2. CancelTakes
      BY <1>0, <1>2, <2>1, <2>3, <2>6, <2>7, <3>1 DEF CancelTakes
    <3> QED BY <1>0, <3>2 DEF CancelEffect
  <2>8. CASE result \notin Done
    <3>1. UNCHANGED storeVars
      BY <2>1, <2>8, PublishCases DEF Done
    <3> QED BY <1>0, <2>1, <2>8, <3>1 DEF CancelEffect, CancelEnds
  <2> QED BY <2>7, <2>8
<1> QED BY <1>1, <1>2

LEMMA CancelStepEffect ==
  ASSUME Control, CancelStep
  PROVE  CancelEffect
<1> USE DEF Control
<1>1. CASE CancelReserve
  BY <1>1, CancelReserveEffect
<1>2. CASE CancelSend
  <2>1. /\ cancel.pc = "send" /\ cancel.order \in Orders /\ UNCHANGED storeVars
        /\ UNCHANGED <<planned, cursor, drain, call, recon>>
    BY <1>2 DEF CancelSend, CancelOK
  <2>2. ASSUME NEW pc \in {"drain", "unknown"}, cancel' = [cancel EXCEPT !.pc = pc]
        PROVE  cancel' \in Cancels /\ cancel'.order = cancel.order /\ cancel'.pc = pc
    BY <2>2 DEF CancelOK, Cancels
  <2>3. \/ CancelAccepted(cancel.order) /\ cancel' = [cancel EXCEPT !.pc = "drain"]
             /\ reserved' = reserved \ {cancel.order}
        \/ UNCHANGED <<brokerVars, reserved>> /\ cancel' = [cancel EXCEPT !.pc = "unknown"]
    BY <1>2 DEF CancelSend
  <2>4. CancelSends
    BY <2>1, <2>2, <2>3 DEF CancelSends
  <2> QED BY <2>1, <2>4 DEF CancelEffect
<1>3. CASE CancelUnknown
  <2> DEFINE n == cancel.current.revision
             report == Internal(cancel.current, "UNKNOWN", "cancel-unknown", n, cancel.at)
  <2>1. /\ cancel.pc = "unknown" /\ cancel.order \in Orders /\ cancel' = IdleCancel
        /\ reserved' = reserved \ {cancel.order}
        /\ UNCHANGED <<brokerVars, planned, cursor, drain, call, recon>>
    BY <1>3 DEF CancelUnknown, CancelOK
  <2>2. PICK result \in Results : publish(cancel.order, report, "none", 0, result)
    BY <1>3 DEF CancelUnknown
  <2>3. cancel.current \in OrderRecords /\ cancel.at \in Times \cup {0}
    BY DEF CancelOK, Cancels
  <2>4. n \in Nat
    BY <2>3 DEF OrderRecords
  <2>5. report \in ReportRecords /\ report.type = "UNKNOWN" /\ report.id = <<"COORDINATOR", "cancel-unknown", n>>
    <3>1. report \in ReportRecords
      BY <2>3, <2>4, ReportsTyped DEF ReportTypes, Keys
    <3> QED BY <3>1 DEF Internal, Report
  <2> HIDE DEF report, n
  <2>6. UNCHANGED storeVars \/ Publishes(cancel.order, "UNKNOWN", "cancel-unknown", n)
    BY <2>2, <2>5, PublishedOr
  <2> QED BY <2>1, <2>4, <2>6 DEF CancelEffect, CancelEnds
<1> QED BY <1>1, <1>2, <1>3 DEF CancelStep

LEMMA CancelControl ==
  ASSUME Control, CancelEffect
  PROVE  Control' /\ Grows
<1> USE DEF Control
<1>1. UNCHANGED <<planned, cursor, drain, call, recon>>
  BY DEF CancelEffect
<1>2. BrokerSound' /\ Grows
  BY BrokerIdle, CancelAcceptedStep DEF CancelEffect, CancelTakes, CancelSends, CancelEnds
<1>3. StoreTyped'
  <2>1. UNCHANGED storeVars \/ \E o \in Orders : \E type, key, n : Publishes(o, type, key, n)
    BY DEF CancelEffect, CancelTakes, CancelSends, CancelEnds
  <2> QED BY <2>1, StoreIdle, PublishesTyped
<1>4. CancelOK'
  BY IdleTyped DEF CancelEffect, CancelTakes, CancelSends, CancelEnds, CancelOK, IdleCancel
<1>5. reserved' \subseteq Orders
  <2>1. \/ UNCHANGED reserved \/ reserved' = reserved \ {cancel.order}
        \/ cancel.order \in Orders /\ reserved' = reserved \cup {cancel.order}
    BY DEF CancelEffect, CancelTakes, CancelSends, CancelEnds
  <2> QED BY <2>1
<1>6. DrainOK'
  <2>1. cancel.pc # "drain"
    BY DEF CancelEffect, CancelTakes, CancelSends, CancelEnds
  <2>2. drain.by # "cancel"
    BY <2>1 DEF DrainOK
  <2>3. drain.by \in Workers => call'[drain.by].pc = "drain"
    BY <1>1 DEF DrainOK
  <2> QED BY <1>1, <1>2, <2>2, <2>3, DrainStable DEF BrokerSound
<1> QED BY <1>1, <1>2, <1>3, <1>4, <1>5, <1>6, WorkersIdle, ReconStable DEF BrokerSound

LEMMA RequestCancelControl ==
  ASSUME Control, NEW o \in Orders, NEW at \in Times, RequestCancel(o, at)
  PROVE  Control' /\ Grows
<1> USE DEF Control
<1>1. /\ cancel = IdleCancel /\ cancel' = [pc |-> "reserve", order |-> o, current |-> orders[o], at |-> at]
      /\ UNCHANGED <<brokerVars, storeVars, reserved, planned, cursor, drain, call, recon>>
  BY DEF RequestCancel
<1>2. CancelOK'
  BY <1>1 DEF CancelOK, Cancels, StoreTyped
<1>3. BrokerSound' /\ Grows
  BY <1>1, BrokerIdle
<1>4. DrainOK'
  <2>1. drain.by # "cancel" /\ (drain.by \in Workers => call'[drain.by].pc = "drain")
    BY <1>1 DEF DrainOK, IdleCancel
  <2> QED BY <1>1, <1>3, <2>1, DrainStable DEF BrokerSound
<1> QED BY <1>1, <1>2, <1>3, <1>4, StoreIdle, WorkersIdle, ReconStable DEF BrokerSound

\* A step of reconciliation, with the events it leaves.
LEMMA ReconNext ==
  ASSUME Control, UNCHANGED <<brokerVars, planned, cursor, drain, call, cancel>>, StoreTyped', reserved' \subseteq Orders,
         recon' \in Recons, SnapshotBacked(recon'.snapshot),
         \A i \in 1..Len(recon'.events) : EventBacked(recon'.events[i]),
         recon'.step # "read" => recon'.events # <<>>
  PROVE  Control' /\ Grows
<1> USE DEF Control
<1>1. BrokerSound' /\ Grows
  BY BrokerIdle
<1>2. recon'.snapshot \in [Orders -> Entries] /\ recon'.events \in Seq(EventRecords)
  BY DEF Recons
<1>3. PICK s : s = recon'.snapshot
  OBVIOUS
<1>4. SnapshotBacked(s)'
  BY <1>1, <1>2, <1>3, GrowsSnapshot DEF BrokerSound
<1>5. (SnapshotBacked(recon.snapshot))'
  BY <1>3, <1>4 DEF SnapshotBacked
<1>6. ASSUME NEW i \in 1..Len(recon'.events) PROVE (EventBacked(recon.events[i]))'
  <2>1. PICK e : e = recon'.events[i]
    OBVIOUS
  <2>2. e \in EventRecords /\ EventBacked(e)
    BY <1>2, <2>1
  <2>3. EventBacked(e)'
    BY <1>1, <2>2, GrowsBacked DEF BrokerSound
  <2> QED BY <2>1, <2>3 DEF EventBacked
<1>7. ReconOK'
  BY <1>5, <1>6 DEF ReconOK
<1>8. DrainOK'
  BY <1>1, DrainStable DEF BrokerSound, DrainOK
<1> QED BY <1>1, <1>7, <1>8, WorkersIdle DEF CancelOK

LEMMA NothingBacked == ASSUME BrokerSound PROVE SnapshotBacked(IdleRecon.snapshot)
<1> DEFINE s == IdleRecon.snapshot
<1>1. \A o \in Orders : s[o] = NotPlaced /\ book[o].cum \in Nat
  BY DEF IdleRecon, BrokerSound, BrokerTyped, Entries
<1>2. NotPlaced.state = "none" /\ NotPlaced.cum = 0 /\ NotPlaced.fills = <<>> /\ 1..Len(<<>>) = {}
  BY DEF NotPlaced
<1> HIDE DEF s
<1>3. SnapshotBacked(s)
  BY <1>1, <1>2 DEF SnapshotBacked
<1> QED BY <1>3 DEF s

LEMMA ReconcileSnapshotControl ==
  ASSUME Control, NEW at \in Times, ReconcileSnapshot(at)
  PROVE  Control' /\ Grows
<1>1. /\ recon' = [IdleRecon EXCEPT !.pc = "local", !.at = at, !.snapshot = book]
      /\ UNCHANGED <<brokerVars, storeVars, reserved, planned, cursor, drain, call, cancel>>
  BY DEF ReconcileSnapshot
<1>2. IdleRecon \in Recons /\ book \in [Orders -> Entries]
  BY IdleTyped DEF Control, BrokerSound, BrokerTyped
<1>3. recon' \in Recons /\ recon'.snapshot = book /\ recon'.events = IdleRecon.events /\ recon'.step = IdleRecon.step
  BY <1>1, <1>2 DEF Recons
<1>4. IdleRecon.events = <<>> /\ IdleRecon.step = "read" /\ 1..Len(<<>>) = {}
  BY DEF IdleRecon
<1>5. SnapshotBacked(recon'.snapshot)
  BY <1>3, BookBacked DEF Control
<1>6. StoreTyped' /\ reserved' \subseteq Orders
  BY <1>1, StoreIdle DEF Control
<1> QED BY <1>1, <1>3, <1>4, <1>5, <1>6, ReconNext

LEMMA ReconcileLocalControl ==
  ASSUME Control, ReconcileLocal
  PROVE  Control' /\ Grows
<1> DEFINE local == [o \in Orders |-> IF Nonterminal(orders[o]) THEN orders[o] ELSE NoOrder]
<1>1. /\ recon' = [recon EXCEPT !.pc = "remote", !.todo = Listed, !.local = local]
      /\ UNCHANGED <<brokerVars, storeVars, reserved, planned, cursor, drain, call, cancel>>
  BY DEF ReconcileLocal
<1>2. recon \in Recons /\ local \in [Orders -> OrderRecords] /\ Listed \in SUBSET Orders
  BY NoOrderTyped DEF Control, ReconOK, StoreTyped, Listed
<1> HIDE DEF local
<1>3. recon' \in Recons /\ recon'.snapshot = recon.snapshot /\ recon'.events = recon.events /\ recon'.step = recon.step
  BY <1>1, <1>2 DEF Recons
<1>4. StoreTyped' /\ reserved' \subseteq Orders
  BY <1>1, StoreIdle DEF Control
<1> QED BY <1>1, <1>3, <1>4, ReconNext DEF Control, ReconOK

\* Repair and Skip.
LEMMA SkipNext ==
  ASSUME Control, NEW o, NEW blocked \in BOOLEAN, Skip(o, blocked),
         UNCHANGED <<brokerVars, storeVars, reserved, planned, cursor, drain, call, cancel>>
  PROVE  Control' /\ Grows
<1>1. recon' = [recon EXCEPT !.todo = @ \ {o}, !.blocked = @ \/ blocked]
  BY DEF Skip
<1>2. recon \in Recons
  BY DEF Control, ReconOK
<1>3. recon' \in Recons /\ recon'.snapshot = recon.snapshot /\ recon'.events = recon.events /\ recon'.step = recon.step
  BY <1>1, <1>2 DEF Recons
<1>4. StoreTyped' /\ reserved' \subseteq Orders
  BY StoreIdle DEF Control
<1> QED BY <1>3, <1>4, ReconNext DEF Control, ReconOK

LEMMA RepairNext ==
  ASSUME Control, NEW o \in Orders, NEW local \in OrderRecords, Repair(o, local), recon.events = <<>>,
         recon.snapshot[o].state # "none", recon.snapshot[o].cum >= local.filled,
         UNCHANGED <<brokerVars, storeVars, reserved, planned, cursor, drain, call, cancel>>
  PROVE  Control' /\ Grows
<1> DEFINE r == repairEvents(o, local, recon.snapshot[o])
<1>1. recon' = [recon EXCEPT !.todo = @ \ {o}, !.events = r.events, !.blocked = @ \/ ~r.valid]
  BY DEF Repair
<1>2. recon \in Recons /\ recon.snapshot \in [Orders -> Entries] /\ SnapshotBacked(recon.snapshot) /\ BrokerSound
      /\ recon.step = "read"
  BY DEF Control, ReconOK, Recons
<1>3. /\ r.valid \in BOOLEAN /\ r.events \in Seq(EventRecords)
      /\ \A i \in 1..Len(r.events) : EventBacked(r.events[i])
  BY <1>2, RepairsBacked
<1> HIDE DEF r
<1>4. recon' \in Recons /\ recon'.snapshot = recon.snapshot /\ recon'.events = r.events /\ recon'.step = recon.step
  BY <1>1, <1>2, <1>3 DEF Recons
<1>5. StoreTyped' /\ reserved' \subseteq Orders
  BY StoreIdle DEF Control
<1> QED BY <1>2, <1>3, <1>4, <1>5, ReconNext

LEMMA ReconcileRemoteControl ==
  ASSUME Control, NEW o \in Orders, ReconcileRemote(o)
  PROVE  Control' /\ Grows
<1>1. recon.events = <<>> /\ UNCHANGED <<brokerVars, storeVars, reserved, planned, cursor, drain, call, cancel>>
  BY DEF ReconcileRemote
<1>2. CASE orders[o].state = "CANCELLED" /\ recon.snapshot[o].cum > orders[o].filled
  <2>1. Repair(o, orders[o])
    BY <1>2 DEF ReconcileRemote
  <2>2. /\ orders[o] \in OrderRecords /\ recon.snapshot[o] \in Entries
        /\ (recon.snapshot[o].state = "none" => recon.snapshot[o].cum = 0)
    BY DEF Control, StoreTyped, ReconOK, Recons, SnapshotBacked
  <2>3. orders[o].filled \in Nat /\ recon.snapshot[o].cum \in Nat
    BY <2>2 DEF OrderRecords, Entries
  <2>4. recon.snapshot[o].state # "none" /\ recon.snapshot[o].cum >= orders[o].filled
    BY <1>2, <2>2, <2>3
  <2> QED BY <1>1, <2>1, <2>2, <2>4, RepairNext
<1>3. CASE ~(orders[o].state = "CANCELLED" /\ recon.snapshot[o].cum > orders[o].filled)
  BY <1>1, <1>3, SkipNext DEF ReconcileRemote
<1> QED BY <1>2, <1>3

LEMMA ReconcileOrderControl ==
  ASSUME Control, NEW o \in Orders, ReconcileOrder(o)
  PROVE  Control' /\ Grows
<1> DEFINE local == recon.local[o]
<1>1. recon.events = <<>> /\ UNCHANGED <<brokerVars, storeVars, reserved, planned, cursor, drain, call, cancel>>
  BY DEF ReconcileOrder
<1>2. CASE o \notin Listed
  <2>1. Skip(o, local.state \notin {"CREATED", "PLANNED"})
    BY <1>2 DEF ReconcileOrder
  <2>2. (local.state \notin {"CREATED", "PLANNED"}) \in BOOLEAN
    OBVIOUS
  <2> HIDE DEF local
  <2> QED BY <1>1, <2>1, <2>2, SkipNext
<1>3. CASE o \in Listed /\ recon.snapshot[o].cum < local.filled
  BY <1>1, <1>3, SkipNext DEF ReconcileOrder
<1>4. CASE o \in Listed /\ ~(recon.snapshot[o].cum < local.filled)
  <2>1. Repair(o, local) /\ recon.snapshot[o].state # "none"
    BY <1>4 DEF ReconcileOrder, Listed
  <2>2. local \in OrderRecords /\ recon.snapshot[o] \in Entries
    BY DEF Control, ReconOK, Recons
  <2> HIDE DEF local
  <2>3. recon.snapshot[o].cum \in Nat /\ local.filled \in Nat
    BY <2>2 DEF OrderRecords, Entries
  <2>4. recon.snapshot[o].cum >= local.filled
    BY <1>4, <2>3
  <2> QED BY <1>1, <2>1, <2>2, <2>4, RepairNext
<1> QED BY <1>2, <1>3, <1>4

LEMMA ReconcileAdvanceControl ==
  ASSUME Control, ReconcileAdvance
  PROVE  Control' /\ Grows
<1>1. UNCHANGED <<brokerVars, storeVars, reserved, planned, cursor, drain, call, cancel>>
  BY DEF ReconcileAdvance
<1>2. StoreTyped' /\ reserved' \subseteq Orders /\ recon \in Recons
  BY <1>1, StoreIdle DEF Control, ReconOK
<1>3. CASE recon' = [recon EXCEPT !.pc = "orders", !.todo = {o \in Orders : recon.local[o] # NoOrder}]
  <2>1. recon' \in Recons /\ recon'.snapshot = recon.snapshot /\ recon'.events = recon.events /\ recon'.step = recon.step
    BY <1>2, <1>3 DEF Recons
  <2> QED BY <1>1, <1>2, <2>1, ReconNext DEF Control, ReconOK
<1>4. CASE recon' = IdleRecon
  <2>1. IdleRecon.events = <<>> /\ IdleRecon.step = "read" /\ 1..Len(<<>>) = {}
    BY DEF IdleRecon
  <2>2. SnapshotBacked(IdleRecon.snapshot)
    BY NothingBacked DEF Control
  <2> QED BY <1>1, <1>2, <1>4, <2>1, <2>2, IdleTyped, ReconNext
<1> QED BY <1>3, <1>4 DEF ReconcileAdvance

LEMMA RepairReadControl ==
  ASSUME Control, RepairRead
  PROVE  Control' /\ Grows
<1>1. /\ recon' = [recon EXCEPT !.step = "reserve", !.read = orders[Head(recon.events).order]]
      /\ recon.events # <<>>
      /\ UNCHANGED <<brokerVars, storeVars, reserved, planned, cursor, drain, call, cancel>>
  BY DEF RepairRead
<1>2. StoreTyped' /\ reserved' \subseteq Orders /\ recon \in Recons
  BY <1>1, StoreIdle DEF Control, ReconOK
<1>3. orders[Head(recon.events).order] \in OrderRecords
  <2>1. Head(recon.events).order \in Orders
    BY <1>1, Heads DEF EventRecords
  <2> QED BY <2>1 DEF Control, StoreTyped
<1>4. recon' \in Recons /\ recon'.snapshot = recon.snapshot /\ recon'.events = recon.events
  BY <1>1, <1>2, <1>3 DEF Recons
<1> QED BY <1>1, <1>2, <1>4, ReconNext DEF Control, ReconOK

LEMMA RepairFailsNext ==
  ASSUME Control, RepairFails, UNCHANGED <<brokerVars, planned, cursor, drain, call, cancel>>,
         StoreTyped', reserved' \subseteq Orders
  PROVE  Control' /\ Grows
<1>1. recon' = [recon EXCEPT !.events = <<>>, !.step = "read", !.read = NoOrder, !.blocked = TRUE] /\ recon \in Recons
  BY DEF RepairFails, Control, ReconOK
<1>2. recon' \in Recons /\ recon'.snapshot = recon.snapshot /\ recon'.events = <<>> /\ recon'.step = "read"
  <2>1. <<>> \in Seq(EventRecords)
    OBVIOUS
  <2> QED BY <1>1, <2>1, NoOrderTyped DEF Recons
<1>3. 1..Len(<<>>) = {}
  OBVIOUS
<1> QED BY <1>2, <1>3, ReconNext DEF Control, ReconOK

LEMMA RepairReserveControl ==
  ASSUME Control, RepairReserve
  PROVE  Control' /\ Grows
<1> DEFINE o == Head(recon.events).order
<1>1. /\ recon.step = "reserve" /\ recon.events # <<>>
      /\ UNCHANGED <<brokerVars, storeVars, planned, cursor, drain, call, cancel>>
  BY DEF RepairReserve, Control, ReconOK
<1>2. StoreTyped' /\ recon \in Recons /\ o \in Orders /\ reserved \subseteq Orders
  BY <1>1, StoreIdle, Heads DEF Control, ReconOK, EventRecords
<1>3. CASE Busy(o)
  BY <1>1, <1>2, <1>3, RepairFailsNext DEF RepairReserve
<1>4. CASE ~Busy(o)
  <2>1. recon' = [recon EXCEPT !.step = "apply"] /\ reserved' = reserved \cup {o}
    BY <1>4 DEF RepairReserve
  <2>2. recon' \in Recons /\ recon'.snapshot = recon.snapshot /\ recon'.events = recon.events
    BY <1>2, <2>1 DEF Recons
  <2>3. reserved' \subseteq Orders
    BY <1>2, <2>1
  <2> QED BY <1>1, <1>2, <2>2, <2>3, ReconNext DEF Control, ReconOK
<1> QED BY <1>3, <1>4

LEMMA RepairApplyControl ==
  ASSUME Control, RepairApply
  PROVE  Control' /\ Grows
<1> DEFINE event == Head(recon.events)
<1>1. /\ recon.step = "apply" /\ recon.events # <<>> /\ reserved' = reserved \ {event.order}
      /\ UNCHANGED <<brokerVars, planned, cursor, drain, call, cancel>>
  BY DEF RepairApply, Control, ReconOK
<1>2. PICK result \in EventResults :
        /\ PublishBrokerEvent(recon.read, event, recon.at, result)
        /\ IF result \in {"error", "collision"} THEN RepairFails
           ELSE recon' = [recon EXCEPT !.step = "read", !.read = NoOrder, !.events = Tail(@)]
  BY DEF RepairApply
<1>3. event \in EventRecords /\ recon \in Recons
  BY <1>1, Heads DEF Control, ReconOK
<1>4. recon.at \in Times \cup {0} /\ recon.events \in Seq(EventRecords)
  BY <1>3 DEF Recons
<1>5. StoreTyped'
  <2> HIDE DEF event
  <2> QED BY <1>2, <1>3, <1>4, EventTyped DEF Control
<1>6. reserved' \subseteq Orders
  BY <1>1 DEF Control
<1>7. CASE result \in {"error", "collision"}
  BY <1>1, <1>2, <1>5, <1>6, <1>7, RepairFailsNext
<1>8. CASE result \notin {"error", "collision"}
  <2>1. recon' = [recon EXCEPT !.step = "read", !.read = NoOrder, !.events = Tail(@)]
    BY <1>2, <1>8
  <2>2. /\ Tail(recon.events) \in Seq(EventRecords) /\ Len(Tail(recon.events)) = Len(recon.events) - 1
        /\ \A i \in 1..Len(Tail(recon.events)) : Tail(recon.events)[i] = recon.events[i + 1]
        /\ Len(recon.events) \in Nat
    BY <1>1, <1>4, HeadTailProperties
  <2>3. recon' \in Recons /\ recon'.snapshot = recon.snapshot /\ recon'.events = Tail(recon.events) /\ recon'.step = "read"
    BY <1>3, <2>1, <2>2, NoOrderTyped DEF Recons
  <2>4. ASSUME NEW i \in 1..Len(recon'.events) PROVE EventBacked(recon'.events[i])
    <3>1. i + 1 \in 1..Len(recon.events) /\ recon'.events[i] = recon.events[i + 1]
      BY <2>2, <2>3
    <3> QED BY <3>1 DEF Control, ReconOK
  <2> QED BY <1>1, <1>5, <1>6, <2>3, <2>4, ReconNext DEF Control, ReconOK
<1> QED BY <1>7, <1>8

LEMMA ShutdownControl ==
  ASSUME Control, Shutdown
  PROVE  Control' /\ Grows
<1>1. UNCHANGED <<brokerVars, storeVars, reserved, planned, cursor, drain, call, cancel, recon>>
  BY DEF Shutdown
<1> QED BY <1>1, StoreIdle, ReconNext DEF Control, ReconOK

LEMMA AdvanceControl ==
  ASSUME Control, Advance
  PROVE  Control' /\ Grows
<1> USE DEF Control
<1>1. Tick /\ UNCHANGED <<storeVars, reserved, planned, cursor, drain, call, cancel, recon>>
  BY DEF Advance, coordinatorVars
<1>2. BrokerSound' /\ Grows
  BY <1>1, TickStep
<1>3. DrainOK'
  BY <1>1, <1>2, DrainStable DEF BrokerSound, DrainOK
<1> QED BY <1>1, <1>2, <1>3, StoreIdle, WorkersIdle, ReconStable DEF BrokerSound, CancelOK

LEMMA IdleControl ==
  ASSUME Control, UNCHANGED vars
  PROVE  Control' /\ Grows
<1>1. UNCHANGED <<brokerVars, storeVars, reserved, planned, cursor, drain, call, cancel, recon>>
  BY DEF vars, coordinatorVars
<1> QED BY <1>1, StoreIdle, ReconNext DEF Control, ReconOK

\* Nobody is at work.
Idle ==
  /\ call = [w \in Workers |-> IdleCall] /\ planned = {} /\ reserved = {}
  /\ drain = IdleDrain /\ cancel = IdleCancel /\ recon = IdleRecon

LEMMA IdleOK ==
  Idle /\ BrokerSound /\ StoreTyped /\ cursor \in 0..Len(delivered) => Control
<1>1. SUFFICES ASSUME Idle, BrokerSound, StoreTyped, cursor \in 0..Len(delivered) PROVE Control
  OBVIOUS
<1> USE <1>1 DEF Idle
<1>2. WorkersOK
  <2>1. IdleCall.pc = "idle" /\ IdleCall.plan = "none" /\ "idle" \notin Holding
    BY DEF IdleCall, Holding
  <2>2. call \in [Workers -> Calls] /\ \A w \in Workers : call[w] = IdleCall
    BY IdleTyped
  <2> QED BY <2>1, <2>2 DEF WorkersOK
<1>3. CancelOK
  BY IdleTyped DEF CancelOK, IdleCancel
<1>4. DrainOK
  BY IdleTyped, CoordinatorAssumption DEF DrainOK, IdleDrain
<1>5. ReconOK
  <2>1. IdleRecon.events = <<>> /\ IdleRecon.step = "read" /\ 1..Len(<<>>) = {}
    BY DEF IdleRecon
  <2>2. SnapshotBacked(IdleRecon.snapshot)
    BY NothingBacked
  <2> QED BY <2>1, <2>2, IdleTyped DEF ReconOK
<1> QED BY <1>2, <1>3, <1>4, <1>5 DEF Control

LEMMA CrashTyped == ASSUME StoreTyped, Crash PROVE StoreTyped'
<1>1. /\ reports' = [o \in Orders |-> {[r EXCEPT !.live = FALSE] : r \in reports[o]}]
      /\ UNCHANGED <<orders, fills>>
  BY DEF Crash
<1>2. reports' \in [Orders -> SUBSET RecordedReports]
  <2>1. ASSUME NEW o \in Orders, NEW r \in reports[o] PROVE [r EXCEPT !.live = FALSE] \in RecordedReports
    <3>1. r \in RecordedReports
      BY DEF StoreTyped
    <3> QED BY <3>1 DEF RecordedReports
  <2> QED BY <1>1, <2>1
<1> QED BY <1>1, <1>2 DEF StoreTyped, ValidOrder

LEMMA CrashControl ==
  ASSUME Control, Crash
  PROVE  Control' /\ Grows
<1>1. Idle' /\ UNCHANGED brokerVars /\ cursor' \in {0, cursor}
  BY DEF Crash, Idle
<1>2. BrokerSound' /\ Grows
  BY <1>1, BrokerIdle DEF Control
<1>3. StoreTyped'
  BY CrashTyped DEF Control
<1>4. cursor' \in 0..Len(delivered')
  BY <1>1 DEF Control, DrainOK, brokerVars, BrokerSound, BrokerTyped
<1>5. (Idle /\ BrokerSound /\ StoreTyped /\ cursor \in 0..Len(delivered) => Control)'
  BY IdleOK, PTL
<1> QED BY <1>1, <1>2, <1>3, <1>4, <1>5

LEMMA InitControl == Init => Control
<1>1. SUFFICES ASSUME Init PROVE Control
  OBVIOUS
<1>2. BrokerSound /\ Len(delivered) = 0
  BY <1>1, BrokerInitSound DEF Init, BrokerInit
<1>3. StoreTyped
  <2>1. ASSUME NEW o \in Orders
        PROVE  NewOrder(Quantity[o]) \in OrderRecords /\ ValidOrder(NewOrder(Quantity[o])) /\ NewOrder(Quantity[o]).quantity = Quantity[o]
    BY QuantityTyped DEF NewOrder, OrderRecords, OrderStates, ValidOrder
  <2> QED BY <1>1, <2>1 DEF Init, StoreTyped
<1>4. Idle /\ cursor = 0
  BY <1>1 DEF Init, Idle
<1> QED BY <1>2, <1>3, <1>4, IdleOK

-----------------------------------------------------------------------------
(* The invariant of the control state.                                     *)

LEMMA NextCases ==
  ASSUME Next
  PROVE  \/ \E w \in Workers, p \in Plans, at \in Times : ExecutePlan(w, p, at)
         \/ \E w \in Workers : AcquireSlot(w) \/ WorkerStep(w)
         \/ \E a \in Drainers : StartDrain(a)
         \/ \E a \in Drainers : DrainUnavailable(a)
         \/ DrainRead \/ DrainReserve \/ DrainApply \/ FinishDrain
         \/ \E o \in Orders, at \in Times : RequestCancel(o, at)
         \/ CancelStep
         \/ \E at \in Times : ReconcileSnapshot(at)
         \/ ReconcileLocal \/ ReconcileAdvance \/ RepairRead \/ RepairReserve \/ RepairApply
         \/ \E o \in Orders : ReconcileRemote(o)
         \/ \E o \in Orders : ReconcileOrder(o)
         \/ Shutdown \/ Crash \/ Advance
BY DEF Next, DrainStep, ReconcileStep

\* Every step keeps the control state, and the broker's history only grows.
LEMMA ControlStep == ASSUME Control, [Next]_vars PROVE Control' /\ Grows
<1>1. CASE UNCHANGED vars
  BY <1>1, IdleControl
<1>2. CASE Next
  <2>1. CASE \E w \in Workers, p \in Plans, at \in Times : ExecutePlan(w, p, at)
    BY <2>1, ExecutePlanControl
  <2>2. CASE \E w \in Workers : AcquireSlot(w) \/ WorkerStep(w)
    BY <2>2, WorkerEffects, WorkerControl DEF Control
  <2>3. CASE \E a \in Drainers : StartDrain(a)
    BY <2>3, StartDrainControl
  <2>4. CASE \E a \in Drainers : DrainUnavailable(a)
    BY <2>4, DrainUnavailableControl
  <2>5. CASE DrainRead \/ DrainReserve \/ DrainApply \/ FinishDrain
    BY <2>5, DrainReadControl, DrainReserveControl, DrainApplyControl, FinishDrainControl
  <2>6. CASE \E o \in Orders, at \in Times : RequestCancel(o, at)
    BY <2>6, RequestCancelControl
  <2>7. CASE CancelStep
    BY <2>7, CancelStepEffect, CancelControl
  <2>8. CASE \E at \in Times : ReconcileSnapshot(at)
    BY <2>8, ReconcileSnapshotControl
  <2>9. CASE ReconcileLocal \/ ReconcileAdvance \/ RepairRead \/ RepairReserve \/ RepairApply
    BY <2>9, ReconcileLocalControl, ReconcileAdvanceControl, RepairReadControl, RepairReserveControl, RepairApplyControl
  <2>10. CASE \E o \in Orders : ReconcileRemote(o)
    BY <2>10, ReconcileRemoteControl
  <2>11. CASE \E o \in Orders : ReconcileOrder(o)
    BY <2>11, ReconcileOrderControl
  <2>12. CASE Shutdown \/ Crash \/ Advance
    BY <2>12, ShutdownControl, CrashControl, AdvanceControl
  <2> HIDE DEF Control, Grows
  <2> QED BY <1>2, <2>1, <2>2, <2>3, <2>4, <2>5, <2>6, <2>7, <2>8, <2>9, <2>10, <2>11, <2>12, NextCases
<1> QED BY <1>1, <1>2

LEMMA ControlInvariant == Spec => []Control
<1>1. Init => Control
  BY InitControl
<1>2. Control /\ [Next]_vars => Control'
  BY ControlStep
<1> QED BY <1>1, <1>2, PTL DEF Spec

=============================================================================
