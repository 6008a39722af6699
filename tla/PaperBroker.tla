----------------------------- MODULE PaperBroker -----------------------------
(***************************************************************************)
(* The scripted paper broker (internal/adapters/broker/paper/scripted.go), *)
(* the executable stand-in for the exchange the coordinator talks to.      *)
(*                                                                         *)
(* Every new order consumes the next scenario of the script.  A scenario   *)
(* schedules events with due times; EventsAfter delivers the due ones in   *)
(* the order they were scheduled, applies them to the broker's own book,   *)
(* and returns the delivered sequence from the caller's cursor.  A fill is *)
(* identified by the suffix of the event that scheduled it, so event and   *)
(* execution identities are pairs <<order, suffix>>; an event here carries *)
(* its order and the suffix.  Prices and the order terms are left out: the *)
(* book stores the terms of the request itself, so terms always match.     *)
(***************************************************************************)
EXTENDS OrderLifecycle, Sequences

CONSTANTS
  Orders,      \* one per client order identity
  Quantity,    \* quantity of each order
  Scripts,     \* the scripts to explore: sequences of [behavior, unavailable]
  MaxTime      \* bound on the broker's clock

VARIABLES
  now,         \* the clock (one unit is the default delay of a second)
  book,        \* order -> [state, cum, late, fills]; state "none" when it was never placed
  scheduled,   \* sequence of [due, event]
  delivered,   \* sequence of events
  script,      \* the scenarios not yet consumed
  attempts     \* unavailableAttempts of the current scenario

brokerVars == <<now, book, scheduled, delivered, script, attempts>>

Behaviors ==
  {"IMMEDIATE_FILL", "PARTIAL_FILL", "DELAYED_FILL", "REJECT", "HOLD", "TIMEOUT",
   "LOST_RESPONSE", "DUPLICATE_EVENTS", "OUT_OF_ORDER", "LATE_FILL"}

BrokerID == "paper"

NotPlaced == [state |-> "none", cum |-> 0, late |-> FALSE, fills |-> <<>>]

BrokerInit ==
  /\ now = 0
  /\ book = [o \in Orders |-> NotPlaced]
  /\ scheduled = <<>>
  /\ delivered = <<>>
  /\ script \in Scripts
  /\ attempts = 0

Placed(o) == book[o].state # "none"

\* schedule: an event of o; fill is its FillQuantity (0 for a status event).
Event(o, suffix, type, cum, fill) ==
  [order |-> o, id |-> <<"BROKER", suffix, 0>>, exec |-> suffix,
   type |-> type, cum |-> cum, fill |-> fill]

At(due, event) == [due |-> due, event |-> event]

\* What Submit schedules after the acknowledgement, by behaviour.
Followups(o, behavior) ==
  LET q == Quantity[o]
      filled(suffix, due) == At(due, Event(o, suffix, "FILL", q, q))
  IN CASE behavior = "IMMEDIATE_FILL" -> <<filled("fill", now)>>
       [] behavior = "PARTIAL_FILL" ->
            <<At(now, Event(o, "partial", "PARTIAL_FILL", q \div 2, q \div 2)),
              At(now + 1, Event(o, "fill", "FILL", q, q - (q \div 2)))>>
       [] behavior = "DELAYED_FILL" -> <<filled("fill", now + 1)>>
       [] behavior = "DUPLICATE_EVENTS" -> <<filled("fill", now), filled("fill", now)>>
       [] behavior = "OUT_OF_ORDER" ->
            <<filled("fill-early", now), At(now, Event(o, "ack-late", "ACKNOWLEDGED", q, 0))>>
       [] OTHER -> <<>>

\* Submit answers ErrUnavailable: the script is used up, or its scenario says so.
SubmitUnavailable(o) ==
  /\ ~Placed(o)
  /\ \/ script = <<>> /\ UNCHANGED attempts
     \/ script # <<>> /\ attempts < Head(script).unavailable /\ attempts' = attempts + 1
  /\ UNCHANGED <<now, book, scheduled, delivered, script>>

\* What Submit answers for a scenario's behaviour.
Answer(behavior) ==
  CASE behavior = "REJECT" -> "rejected"
    [] behavior \in {"TIMEOUT", "LOST_RESPONSE"} -> "unknown"
    [] OTHER -> "accepted"

\* The order enters the book and the scenario's events are scheduled.
Place(o, behavior) ==
  /\ book' = [book EXCEPT ![o] =
                [state |-> IF behavior = "REJECT" THEN "REJECTED" ELSE "SUBMITTED",
                 cum |-> 0, late |-> behavior = "LATE_FILL", fills |-> <<>>]]
  /\ scheduled' = scheduled \o
       IF behavior = "REJECT" THEN <<>>
       ELSE <<At(now, Event(o, "ack", "ACKNOWLEDGED", 0, 0))>> \o Followups(o, behavior)
  /\ script' = Tail(script)
  /\ attempts' = 0
  /\ UNCHANGED <<now, delivered>>

\* Submit of an order the book has is answered from the book; any other order
\* takes the next scenario (a single unit cannot be filled in two parts).
Submit(o, result) ==
  IF Placed(o)
  THEN /\ result = IF book[o].state = "REJECTED" THEN "rejected" ELSE "accepted"
       /\ UNCHANGED brokerVars
  ELSE /\ script # <<>>
       /\ attempts >= Head(script).unavailable
       /\ LET behavior == Head(script).behavior IN
          IF behavior = "PARTIAL_FILL" /\ Quantity[o] < 2
          THEN result = "unknown" /\ UNCHANGED brokerVars
          ELSE result = Answer(behavior) /\ Place(o, behavior)

\* Cancel schedules the cancellation at the book's current cumulative, and the
\* fill that arrives after it; it takes nothing that is scheduled back.
CancelAccepted(o) ==
  /\ Placed(o)
  /\ LET cancelled == At(now, Event(o, "cancelled", "CANCELLED", book[o].cum, 0))
         filled == At(now + 1, Event(o, "late-fill", "FILL", Quantity[o], Quantity[o] - book[o].cum))
     IN scheduled' = scheduled \o (IF book[o].late THEN <<cancelled, filled>> ELSE <<cancelled>>)
  /\ UNCHANGED <<now, book, delivered, script, attempts>>

\* apply: what a delivered event does to the order's entry in the book.
apply(entry, event) ==
  [state |-> CASE event.type = "ACKNOWLEDGED" /\ entry.state \notin Terminal -> "ACKNOWLEDGED"
               [] event.type = "PARTIAL_FILL" -> "PARTIALLY_FILLED"
               [] event.type = "FILL" -> "FILLED"
               [] event.type = "CANCELLED" -> "CANCELLED"
               [] OTHER -> entry.state,
   cum   |-> IF event.cum >= entry.cum THEN event.cum ELSE entry.cum,
   late  |-> entry.late,
   fills |-> IF event.fill > 0
             THEN Append(entry.fills, [exec |-> event.exec, fill |-> event.fill, cum |-> event.cum])
             ELSE entry.fills]

\* One round of EventsAfter's loop: an event that is due is delivered and applied to
\* the book, any other remains scheduled.
Deliver(before, item) ==
  IF item.due <= now
  THEN [book      |-> [before.book EXCEPT ![item.event.order] = apply(@, item.event)],
        delivered |-> Append(before.delivered, item.event),
        remaining |-> before.remaining]
  ELSE [before EXCEPT !.remaining = Append(@, item)]

\* The loop after n of the scheduled events.
Delivery[n \in 0..Len(scheduled)] ==
  IF n = 0 THEN [book |-> book, delivered |-> delivered, remaining |-> <<>>]
  ELSE Deliver(Delivery[n - 1], scheduled[n])

\* EventsAfter: deliver what is due.  The batch is the delivered sequence from cursor on.
EventsAfter ==
  LET done == Delivery[Len(scheduled)] IN
  /\ book' = done.book
  /\ delivered' = done.delivered
  /\ scheduled' = done.remaining
  /\ UNCHANGED <<now, script, attempts>>

Tick ==
  /\ now < MaxTime
  /\ now' = now + 1
  /\ UNCHANGED <<book, scheduled, delivered, script, attempts>>

=============================================================================
