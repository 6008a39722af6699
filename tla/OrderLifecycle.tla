--------------------------- MODULE OrderLifecycle ---------------------------
(***************************************************************************)
(* The order state machine of internal/execution/model/order.go, as pure   *)
(* operators.  An order is a record                                        *)
(*   [quantity, state, revision, filled, broker]                           *)
(* where broker is the broker's order identity ("" until it is known).  A  *)
(* report is a record with at least [type, cum, broker]; cum is the        *)
(* cumulative filled quantity it claims.  A fill is its quantity, and 0    *)
(* stands for the nil *Fill (domain.Quantity is positive, so no fill has   *)
(* quantity 0).                                                            *)
(***************************************************************************)
EXTENDS Integers

OrderStates ==
  {"CREATED", "PLANNED", "SUBMISSION_PENDING", "SUBMITTED", "ACKNOWLEDGED",
   "PARTIALLY_FILLED", "FILLED", "CANCEL_PENDING", "CANCELLED", "REJECTED",
   "EXPIRED", "FAILED", "UNKNOWN"}

Terminal == {"FILLED", "CANCELLED", "REJECTED", "EXPIRED", "FAILED"}

\* The state each report type asks for; the domain is the set of report types.
reportTarget ==
  [PLANNED            |-> "PLANNED",
   SUBMISSION_PENDING |-> "SUBMISSION_PENDING",
   SUBMITTED          |-> "SUBMITTED",
   ACKNOWLEDGED       |-> "ACKNOWLEDGED",
   PARTIAL_FILL       |-> "PARTIALLY_FILLED",
   FILL               |-> "FILLED",
   CANCEL_PENDING     |-> "CANCEL_PENDING",
   CANCELLED          |-> "CANCELLED",
   REJECTED           |-> "REJECTED",
   EXPIRED            |-> "EXPIRED",
   FAILED             |-> "FAILED",
   UNKNOWN            |-> "UNKNOWN"]

ReportTypes == {"PLANNED", "SUBMISSION_PENDING", "SUBMITTED", "ACKNOWLEDGED",
   "PARTIAL_FILL", "FILL", "CANCEL_PENDING", "CANCELLED", "REJECTED",
   "EXPIRED", "FAILED", "UNKNOWN"}

FillTargets == {"PARTIALLY_FILLED", "FILLED"}

\* The transition table: from each state, the states a report may move it to.
legalTransition ==
  [CREATED            |-> {"PLANNED", "EXPIRED", "FAILED"},
   PLANNED            |-> {"SUBMISSION_PENDING", "EXPIRED", "CANCELLED", "FAILED"},
   SUBMISSION_PENDING |-> {"SUBMITTED", "ACKNOWLEDGED", "REJECTED", "UNKNOWN"} \cup FillTargets,
   SUBMITTED          |-> {"ACKNOWLEDGED", "CANCEL_PENDING", "REJECTED", "UNKNOWN"} \cup FillTargets,
   ACKNOWLEDGED       |-> {"CANCEL_PENDING", "REJECTED", "UNKNOWN"} \cup FillTargets,
   PARTIALLY_FILLED   |-> {"CANCEL_PENDING", "REJECTED", "UNKNOWN"} \cup FillTargets,
   CANCEL_PENDING     |-> {"CANCELLED", "REJECTED", "UNKNOWN"} \cup FillTargets,
   CANCELLED          |-> FillTargets,
   UNKNOWN            |-> {"SUBMITTED", "ACKNOWLEDGED", "CANCEL_PENDING", "CANCELLED", "REJECTED"}
                          \cup FillTargets,
   FILLED |-> {}, REJECTED |-> {}, EXPIRED |-> {}, FAILED |-> {}]

rank ==
  [UNKNOWN |-> 0, CREATED |-> 1, PLANNED |-> 2, SUBMISSION_PENDING |-> 3,
   SUBMITTED |-> 4, ACKNOWLEDGED |-> 5, PARTIALLY_FILLED |-> 6,
   CANCEL_PENDING |-> 7, CANCELLED |-> 8, REJECTED |-> 8, EXPIRED |-> 8,
   FAILED |-> 8, FILLED |-> 9]

\* An illegal move backwards is absorbed: the report is recorded and the state stays.
staleTransition(from, to) ==
  /\ to \notin FillTargets
  /\ rank[to] > 0
  /\ rank[to] <= rank[from]

\* newOrderValue: what a stored order must satisfy.
ValidOrder(order) ==
  /\ order.filled \in 0..order.quantity
  /\ order.state = "FILLED" => order.filled = order.quantity
  /\ order.state = "PARTIALLY_FILLED" => order.filled \notin {0, order.quantity}

\* NewOrder: the genesis revision of a leg's order.
NewOrder(quantity) ==
  [quantity |-> quantity, state |-> "CREATED", revision |-> 1, filled |-> 0, broker |-> ""]

\* Mutant of NextState: a stale report moves the order back.
StaleMovesBack(order, report) == reportTarget[report.type]

\* The state ApplyExecutionReport gives the order.
NextState(order, report) ==
  IF reportTarget[report.type] \in legalTransition[order.state]
  THEN reportTarget[report.type] ELSE order.state

\* ApplyExecutionReport: the order after the report, when it is accepted.
ApplyExecutionReport(order, report) ==
  [quantity |-> order.quantity,
   state    |-> NextState(order, report),
   revision |-> order.revision + 1,
   filled   |-> report.cum,
   broker   |-> IF report.broker = "" THEN order.broker ELSE report.broker]

\* Mutant of QuantitiesAgree: only fills are held against the order's quantity.
StatusCarriesAnyQuantity(order, report, fill) ==
  /\ report.cum <= order.quantity
  /\ reportTarget[report.type] \in FillTargets =>
       /\ fill > 0
       /\ order.filled + fill = report.cum
       /\ reportTarget[report.type] = "FILLED" <=> report.cum = order.quantity

\* The quantity arithmetic: fills account exactly for the rise of the cumulative.
QuantitiesAgree(order, report, fill) ==
  /\ report.cum >= order.filled
  /\ report.cum <= order.quantity
  /\ IF reportTarget[report.type] \in FillTargets
     THEN /\ fill > 0
          /\ order.filled + fill = report.cum
          /\ reportTarget[report.type] = "FILLED" <=> report.cum = order.quantity
     ELSE /\ fill = 0
          /\ report.cum = order.filled

\* ApplyExecutionReport's conditions, the validation of the new value included.
Applies(order, report, fill) ==
  /\ QuantitiesAgree(order, report, fill)
  /\ \/ reportTarget[report.type] \in legalTransition[order.state]
     \/ staleTransition(order.state, reportTarget[report.type])
  /\ report.broker # "" /\ order.broker # "" => report.broker = order.broker
  /\ ValidOrder(ApplyExecutionReport(order, report))

\* What one step may do to a registered order: quantity never un-fills, a broker
\* identity never changes, and a terminal state is left only by CANCELLED, for a
\* late fill.
LifecycleStep(before, after) ==
  /\ after.filled >= before.filled
  /\ before.broker # "" => after.broker = before.broker
  /\ before.state \in Terminal /\ after.state # before.state =>
       before.state = "CANCELLED" /\ after.filled > before.filled

=============================================================================
