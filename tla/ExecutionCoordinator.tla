------------------------ MODULE ExecutionCoordinator ------------------------
(***************************************************************************)
(* The execution coordinator (internal/execution/coordinator) with its     *)
(* reconciler (internal/execution/reconciliation), against the order store *)
(* and the scripted paper broker.                                          *)
(*                                                                         *)
(* Concurrent actors: workers in ExecutePlan/ResumePlan, one caller of     *)
(* RequestCancel, one reconciliation run, Shutdown, and a crash that keeps *)
(* what the store and the broker persist and loses everything else.        *)
(*                                                                         *)
(* Publication.  publish reads the order's checkpoint and offers its       *)
(* successor; OMSStore models that race.  Every publisher here holds the   *)
(* order's reservation from before the read until after the answer, so a   *)
(* publication is one step.  Taking the reservation and the publication    *)
(* that follows at once are one step too wherever the reservation is kept  *)
(* afterwards: what another actor can observe is the same.                 *)
(*                                                                         *)
(* Identities.  A report identity is a triple <<source, key, number>>; the *)
(* number is the revision (or cumulative) the code formats into the key.   *)
(* A logical time is what the caller passes; the same time may be passed   *)
(* again.  Calls refused before they reserve anything change nothing and   *)
(* are left out.                                                           *)
(***************************************************************************)
EXTENDS PaperBroker, FiniteSets, Functions

CONSTANTS
  Plans,
  Legs,                 \* plan -> the sequence of its orders, in canonical leg order
  DependsOn,            \* order -> the orders that must be FILLED before it is sent
  Workers,              \* concurrent callers of ExecutePlan and ResumePlan
  Times,                \* logical times inside every plan's validity
  MaxConcurrentPlans,
  KnownNotSentRetries,
  EventBatchSize,
  MaxCancels,           \* bound on RequestCancel calls
  MaxFaults,            \* bound on failing calls to the broker and to the store
  MaxCrashes,           \* bound on restarts
  Reconciles,           \* whether reconciliation runs in this instance
  Shutdowns             \* whether Shutdown is called in this instance

ASSUME CoordinatorAssumption ==
  /\ Quantity \in [Orders -> Nat \ {0}]
  /\ Scripts \subseteq Seq([behavior : Behaviors, unavailable : Nat])
  /\ "none" \notin Plans
  /\ Legs \in [Plans -> Seq(Orders)]
  /\ DependsOn \in [Orders -> SUBSET Orders]
  /\ \A p \in Plans : \A i \in DOMAIN Legs[p] : DependsOn[Legs[p][i]] \subseteq Range(Legs[p])
  /\ Workers \cap {"cancel", "drain", "recon", "none"} = {}
  /\ MaxConcurrentPlans \in 1..64
  /\ KnownNotSentRetries \in 0..10
  /\ EventBatchSize \in 1..1000

VARIABLES
  orders,      \* the store: current order
  reports,     \* the store: order -> recorded reports [id, at, cum, live]
  fills,       \* the store: order -> recorded fills [exec, quantity]
  reserved,    \* runner.orders: the orders somebody is working on
  planned,     \* runner.plans: the plans being executed
  closed,
  cursor,
  drain,       \* the DrainEvents call that holds eventMu
  call,        \* worker -> its ExecutePlan call
  cancel,      \* the RequestCancel call
  recon,       \* the reconciliation run
  faults, crashes, cancels   \* how much of each bound is used

storeVars == <<orders, reports, fills>>
coordinatorVars == <<reserved, planned, closed, cursor, drain, call, cancel, recon, faults, crashes, cancels>>
vars == <<brokerVars, storeVars, coordinatorVars>>

NoOrder == NewOrder(0)

\* No orders were read (a nil slice).
NoOrders == [o \in Orders |-> NoOrder]

IdleCall == [pc |-> "idle", plan |-> "none", leg |-> 0, seen |-> NoOrders, progress |-> FALSE,
             at |-> 0, tries |-> 0, current |-> NoOrder]

IdleDrain == [by |-> "none", pc |-> "read", left |-> <<>>, next |-> 0, read |-> NoOrder]

IdleCancel == [pc |-> "idle", order |-> "none", current |-> NoOrder, at |-> 0]

IdleRecon == [pc |-> "idle", at |-> 0, snapshot |-> [o \in Orders |-> NotPlaced], local |-> NoOrders, todo |-> {},
              events |-> <<>>, read |-> NoOrder, step |-> "read", blocked |-> FALSE]

\* Every plan is registered (RegisterPlan) before it is executed.
Init ==
  /\ BrokerInit
  /\ orders = [o \in Orders |-> NewOrder(Quantity[o])]
  /\ reports = [o \in Orders |-> {}]
  /\ fills = [o \in Orders |-> {}]
  /\ reserved = {} /\ planned = {} /\ closed = FALSE /\ cursor = 0
  /\ drain = IdleDrain /\ cancel = IdleCancel /\ recon = IdleRecon
  /\ call = [w \in Workers |-> IdleCall]
  /\ faults = 0 /\ crashes = 0 /\ cancels = 0

\* A call to the store or the broker fails: its context ends, it times out, or
\* the store is at a limit.
Fault == faults < MaxFaults /\ faults' = faults + 1

\* A broker call ends without an effect: a fault, or Shutdown cancelled it.
CallCancelled == \/ closed /\ UNCHANGED faults
                 \/ ~closed /\ Fault

-----------------------------------------------------------------------------
(* Publication.                                                            *)

Report(id, type, cum, broker, at) ==
  [id |-> id, type |-> type, cum |-> cum, broker |-> broker, at |-> at]

\* publishInternal: a report of the coordinator about the order it holds.
Internal(current, type, key, number, at) ==
  Report(<<"COORDINATOR", key, number>>, type, current.filled, current.broker, at)

Accepted(current, type, key, number, at) ==
  Report(<<"COORDINATOR", key, number>>, type, current.filled, BrokerID, at)

KnownReport(o, id) == \E r \in reports[o] : r.id = id

\* The recorded report is this one, word for word.
SameReport(o, report) ==
  \E r \in reports[o] : r.id = report.id /\ r.at = report.at /\ r.cum = report.cum

\* The same report was restored from a checkpoint, without its publication.
RestoredReport(o, report) ==
  SameReport(o, report) /\ \E r \in reports[o] : r.id = report.id /\ ~r.live

Booked(o, exec) == \E f \in fills[o] : f.exec = exec

\* What publish answers.
PublishResult(o, report, exec, quantity) ==
  IF ~Applies(orders[o], report, quantity) THEN "error"
  ELSE IF KnownReport(o, report.id)
  THEN IF RestoredReport(o, report) /\ quantity = 0 THEN "replay" ELSE "collision"
  ELSE IF quantity > 0 /\ Booked(o, exec) THEN "collision" ELSE "published"

publish(o, report, exec, quantity, result) ==
  \/ /\ result = PublishResult(o, report, exec, quantity)
     /\ IF result # "published" THEN UNCHANGED storeVars
        ELSE /\ orders' = [orders EXCEPT ![o] = ApplyExecutionReport(@, report)]
             /\ reports' = [reports EXCEPT ![o] = @ \cup
                  {[id |-> report.id, at |-> report.at, cum |-> report.cum, live |-> TRUE]}]
             /\ fills' = [fills EXCEPT ![o] = @ \cup
                  (IF quantity = 0 THEN {} ELSE {[exec |-> exec, quantity |-> quantity]})]
     /\ UNCHANGED faults
  \/ /\ result = "error"
     /\ Fault
     /\ UNCHANGED storeVars

Done == {"published", "replay"}

Results == {"published", "replay", "collision", "error"}

\* Mutant of Busy: an order somebody works on can be reserved again.
BusyWhenClosed(o) == closed

\* reserveOrder refuses a closed coordinator and an order somebody works on.
Busy(o) == closed \/ o \in reserved

-----------------------------------------------------------------------------
(* PublishBrokerEvent, after the order was read and reserved: a recorded   *)
(* report is a duplicate or a collision, a stale event is dropped (by the  *)
(* state that was read before the reservation), the rest is published.     *)

staleBrokerEvent(read, event) ==
  \/ event.cum < read.filled
  \/ read.state = "FILLED" /\ event.type # "FILL"
  \/ read.state = "PARTIALLY_FILLED" /\ event.type \in {"ACKNOWLEDGED", "SUBMITTED"}

EventReport(event, at) == Report(event.id, event.type, event.cum, BrokerID, at)

PublishBrokerEvent(read, event, at, result) ==
  LET o == event.order
      report == EventReport(event, at)
  IN IF KnownReport(o, report.id)
     THEN /\ result = IF SameReport(o, report) THEN "duplicate" ELSE "collision"
          /\ UNCHANGED <<storeVars, faults>>
     ELSE IF staleBrokerEvent(read, event)
     THEN result = "stale" /\ UNCHANGED <<storeVars, faults>>
     ELSE publish(o, report, event.exec, event.fill, result)

EventResults == Results \cup {"duplicate", "stale"}

-----------------------------------------------------------------------------
(* ExecutePlan and ResumePlan.                                             *)

OrdersForPlan(p) == Range(Legs[p])

allFilled(p) == \A o \in OrdersForPlan(p) : orders[o].state = "FILLED"

ExecutePlan(w, p, at) ==
  /\ call[w].pc = "idle"
  /\ ~allFilled(p)
  /\ ~closed
  /\ p \notin planned
  /\ planned' = planned \cup {p}
  /\ call' = [call EXCEPT ![w] = [IdleCall EXCEPT !.pc = "slot", !.plan = p, !.at = at]]
  /\ UNCHANGED <<brokerVars, storeVars, reserved, closed, cursor, drain, cancel, recon, faults, crashes, cancels>>

\* Mutant of Return: the plan is not released.
ReturnKeepsPlan(w) ==
  /\ call' = [call EXCEPT ![w] = IdleCall]
  /\ UNCHANGED planned

\* The call returns: the semaphore and the plan are released.
Return(w) ==
  /\ call' = [call EXCEPT ![w] = IdleCall]
  /\ planned' = planned \ {call[w].plan}

Running == {w \in Workers : call[w].pc \notin {"idle", "slot"}}

AcquireSlot(w) ==
  /\ call[w].pc = "slot"
  /\ Cardinality(Running) < MaxConcurrentPlans
  /\ call' = [call EXCEPT ![w].pc = "drain"]
  /\ UNCHANGED <<brokerVars, storeVars, reserved, planned, closed, cursor, drain, cancel, recon, faults, crashes, cancels>>

\* Waiting for a slot ends with the caller's context or with Shutdown.
AbandonSlot(w) ==
  /\ call[w].pc = "slot"
  /\ CallCancelled
  /\ Return(w)
  /\ UNCHANGED <<brokerVars, storeVars, reserved, closed, cursor, drain, cancel, recon, crashes, cancels>>

\* OrdersForPlan at the head of the loop.
Scan(w) ==
  /\ call[w].pc = "scan"
  /\ call' = [call EXCEPT ![w].pc = "leg", ![w].leg = 1, ![w].progress = FALSE,
                ![w].seen = [o \in Orders |-> IF o \in OrdersForPlan(call[w].plan) THEN orders[o] ELSE NoOrder]]
  /\ UNCHANGED <<brokerVars, storeVars, reserved, planned, closed, cursor, drain, cancel, recon, faults, crashes, cancels>>

\* After the last leg: another round if anything moved.
EndOfLegs(w) ==
  /\ call[w].pc = "leg"
  /\ call[w].leg > Len(Legs[call[w].plan])
  /\ IF call[w].progress
     THEN call' = [call EXCEPT ![w].pc = "scan"] /\ UNCHANGED planned
     ELSE Return(w)
  /\ UNCHANGED <<brokerVars, storeVars, reserved, closed, cursor, drain, cancel, recon, faults, crashes, cancels>>

\* The worker stands at order o, which it saw in this state.
AtLeg(w, o, state) ==
  /\ call[w].pc = "leg"
  /\ call[w].leg <= Len(Legs[call[w].plan])
  /\ o = Legs[call[w].plan][call[w].leg]
  /\ call[w].seen[o].state = state

\* Mutant of dependenciesFilled: a submitted dependency is enough.
DependenciesSubmitted(w, o) ==
  \A d \in DependsOn[o] : call[w].seen[d].state \notin {"CREATED", "PLANNED"}

dependenciesFilled(w, o) == \A d \in DependsOn[o] : call[w].seen[d].state = "FILLED"

\* The order a worker holds.
Leg(w) == Legs[call[w].plan][call[w].leg]

NextLeg(w, progress) ==
  call' = [call EXCEPT ![w].pc = "leg", ![w].leg = @ + 1, ![w].progress = progress,
             ![w].current = NoOrder]

\* After submit returned: the events are drained before the next leg.
ThenDrain(w) ==
  call' = [call EXCEPT ![w].pc = "drain", ![w].progress = TRUE, ![w].current = NoOrder, ![w].tries = 0]

SkipLeg(w, o) ==
  /\ \E state \in OrderStates \ {"CREATED", "SUBMISSION_PENDING", "UNKNOWN"} :
       /\ AtLeg(w, o, state)
       /\ state = "PLANNED" => ~dependenciesFilled(w, o)
  /\ NextLeg(w, call[w].progress)
  /\ UNCHANGED <<brokerVars, storeVars, reserved, planned, closed, cursor, drain, cancel, recon, faults, crashes, cancels>>

\* A reservation that is refused ends the call with ErrOrderBusy.
LegBusy(w, o) ==
  /\ \E state \in {"CREATED", "PLANNED", "SUBMISSION_PENDING", "UNKNOWN"} :
       /\ AtLeg(w, o, state)
       /\ state = "PLANNED" => dependenciesFilled(w, o)
  /\ Busy(o)
  /\ Return(w)
  /\ UNCHANGED <<brokerVars, storeVars, reserved, closed, cursor, drain, cancel, recon, faults, crashes, cancels>>

\* CREATED: reserve, publish PLANNED, release.
PlanLeg(w, o) ==
  /\ AtLeg(w, o, "CREATED")
  /\ ~Busy(o)
  /\ \E result \in Results :
       /\ publish(o, Internal(call[w].seen[o], "PLANNED", "planned", 0, call[w].at), "none", 0, result)
       /\ IF result \in Done THEN NextLeg(w, TRUE) /\ UNCHANGED planned
          ELSE Return(w)
  /\ UNCHANGED <<brokerVars, reserved, closed, cursor, drain, cancel, recon, crashes, cancels>>

\* SUBMISSION_PENDING is what an interrupted submission left: its outcome is
\* unknown.  When the publication fails, releaseOrder is given the identity of
\* the zero Order that publish returned, and the order stays reserved.
RestartUnknown(w, o) ==
  LET seen == call[w].seen[o]
      report == Internal(seen, "UNKNOWN", "restart-unknown", seen.revision, call[w].at)
      next == ApplyExecutionReport(orders[o], report)
  IN /\ AtLeg(w, o, "SUBMISSION_PENDING")
     /\ ~Busy(o)
     /\ reserved' = reserved \cup {o}
     /\ \E result \in Results :
          /\ publish(o, report, "none", 0, result)
          /\ IF result \in Done
             THEN /\ call' = [call EXCEPT ![w].pc = "recover", ![w].current = next,
                                ![w].seen[o] = next, ![w].progress = TRUE]
                  /\ UNCHANGED planned
             ELSE Return(w)
     /\ UNCHANGED <<brokerVars, closed, cursor, drain, cancel, recon, crashes, cancels>>

\* UNKNOWN: reserve the order and look it up.
ReserveUnknown(w, o) ==
  /\ AtLeg(w, o, "UNKNOWN")
  /\ ~Busy(o)
  /\ reserved' = reserved \cup {o}
  /\ call' = [call EXCEPT ![w].pc = "recover", ![w].current = call[w].seen[o]]
  /\ UNCHANGED <<brokerVars, storeVars, planned, closed, cursor, drain, cancel, recon, faults, crashes, cancels>>

\* submit: reserve, read the order again, publish SUBMISSION_PENDING.
StartSubmission(w, o) ==
  LET report == Internal(orders[o], "SUBMISSION_PENDING", "pending", orders[o].revision, call[w].at)
  IN /\ AtLeg(w, o, "PLANNED")
     /\ dependenciesFilled(w, o)
     /\ ~Busy(o)
     /\ IF orders[o].state # "PLANNED"
        THEN ThenDrain(w) /\ UNCHANGED <<storeVars, reserved, planned, faults>>
        ELSE \E result \in Results :
               /\ publish(o, report, "none", 0, result)
               /\ IF result \in Done
                  THEN /\ reserved' = reserved \cup {o}
                       /\ call' = [call EXCEPT ![w].pc = "send",
                                     ![w].current = ApplyExecutionReport(orders[o], report)]
                       /\ UNCHANGED planned
                  ELSE Return(w) /\ UNCHANGED reserved
     /\ UNCHANGED <<brokerVars, closed, cursor, drain, cancel, recon, crashes, cancels>>

\* Mutant of Send: an unknown outcome is retried like ErrUnavailable.
SendAgain(w) ==
  /\ call[w].pc = "send"
  /\ \E result \in {"accepted", "rejected", "unknown"} :
       /\ Submit(Leg(w), result)
       /\ call' = [call EXCEPT ![w].pc = IF result = "unknown" THEN "send" ELSE result]
  /\ UNCHANGED <<storeVars, reserved, planned, closed, cursor, drain, cancel, recon, faults, crashes, cancels>>

\* broker.Submit: only ErrUnavailable (known not sent) is tried again.
Send(w) ==
  /\ call[w].pc = "send"
  /\ \/ /\ SubmitUnavailable(Leg(w))
        /\ call' = IF call[w].tries < KnownNotSentRetries
                   THEN [call EXCEPT ![w].tries = @ + 1]
                   ELSE [call EXCEPT ![w].pc = "unknown"]
        /\ UNCHANGED faults
     \/ /\ \E result \in {"accepted", "rejected", "unknown"} :
             Submit(Leg(w), result) /\ call' = [call EXCEPT ![w].pc = result]
        /\ UNCHANGED faults
     \/ /\ CallCancelled
        /\ call' = [call EXCEPT ![w].pc = "unknown"]
        /\ UNCHANGED brokerVars
  /\ UNCHANGED <<storeVars, reserved, planned, closed, cursor, drain, cancel, recon, crashes, cancels>>

\* The broker answered: publish SUBMITTED or REJECTED and release the order.
Answered(w) ==
  LET type == IF call[w].pc = "accepted" THEN "SUBMITTED" ELSE "REJECTED"
      report == Accepted(call[w].current, type, call[w].pc, call[w].current.revision, call[w].at)
  IN /\ call[w].pc \in {"accepted", "rejected"}
     /\ reserved' = reserved \ {Leg(w)}
     /\ \E result \in Results :
          /\ publish(Leg(w), report, "none", 0, result)
          /\ IF result \in Done THEN ThenDrain(w) /\ UNCHANGED planned
             ELSE Return(w)
     /\ UNCHANGED <<brokerVars, closed, cursor, drain, cancel, recon, crashes, cancels>>

\* Mutant of SubmissionUnknown: a timeout is taken for a rejection.
TimeoutRejects(w) ==
  /\ call[w].pc = "unknown"
  /\ reserved' = reserved \ {Leg(w)}
  /\ \E result \in Results :
       /\ publish(Leg(w), Internal(call[w].current, "REJECTED", "unknown", 0, call[w].at), "none", 0, result)
       /\ IF result \in Done THEN ThenDrain(w) /\ UNCHANGED planned ELSE Return(w)
  /\ UNCHANGED <<brokerVars, closed, cursor, drain, cancel, recon, crashes, cancels>>

\* Any other outcome of the submission is unknown.
SubmissionUnknown(w) ==
  LET report == Internal(call[w].current, "UNKNOWN", "unknown", call[w].current.revision, call[w].at)
  IN /\ call[w].pc = "unknown"
     /\ \E result \in Results :
          /\ publish(Leg(w), report, "none", 0, result)
          /\ IF result \in Done
             THEN /\ call' = [call EXCEPT ![w].pc = "recover-submitted",
                                ![w].current = ApplyExecutionReport(orders[Leg(w)], report)]
                  /\ UNCHANGED <<planned, reserved>>
             ELSE Return(w) /\ reserved' = reserved \ {Leg(w)}
     /\ UNCHANGED <<brokerVars, closed, cursor, drain, cancel, recon, crashes, cancels>>

\* Mutant of Recovered: a lookup that found nothing counts as progress.
RecoveredIsProgress(w, ok, next) ==
  IF call[w].pc = "recover-submitted" THEN ThenDrain(w)
  ELSE call' = [call EXCEPT ![w].pc = "leg", ![w].leg = @ + 1, ![w].current = NoOrder,
                  ![w].progress = TRUE]

\* What execute does with the answer of recoverUnknown.
Recovered(w, ok, next) ==
  IF call[w].pc = "recover-submitted" THEN ThenDrain(w)
  ELSE call' = [call EXCEPT ![w].pc = "leg", ![w].leg = @ + 1, ![w].current = NoOrder,
                  ![w].progress = @ \/ ok,
                  ![w].seen[Leg(w)] = IF ok THEN next ELSE @]

\* recoverUnknown: look the order up by its client identity and publish SUBMITTED.
recoverUnknown(w) ==
  LET report == Accepted(call[w].current, "SUBMITTED", "recovered", 0, call[w].at)
      next == ApplyExecutionReport(orders[Leg(w)], report)
  IN /\ call[w].pc \in {"recover", "recover-submitted"}
     /\ reserved' = reserved \ {Leg(w)}
     /\ \/ /\ Placed(Leg(w))
           /\ \E result \in Results :
                /\ publish(Leg(w), report, "none", 0, result)
                /\ Recovered(w, result \in Done, next)
        \/ /\ ~Placed(Leg(w))
           /\ Recovered(w, FALSE, next)
           /\ UNCHANGED <<storeVars, faults>>
        \/ /\ CallCancelled
           /\ Recovered(w, FALSE, next)
           /\ UNCHANGED storeVars
     /\ UNCHANGED <<brokerVars, planned, closed, cursor, drain, cancel, recon, crashes, cancels>>

-----------------------------------------------------------------------------
(* DrainEvents, called by workers and by RequestCancel, under eventMu.     *)

Drainers == Workers \cup {"cancel"}

WantsDrain(a) == IF a = "cancel" THEN cancel.pc = "drain" ELSE call[a].pc = "drain"

DrainTime == IF drain.by = "cancel" THEN cancel.at ELSE call[drain.by].at

\* The caller goes on: RequestCancel ends, a worker takes its next step or returns.
AfterDrain(a, ok) ==
  IF a = "cancel" THEN cancel' = IdleCancel /\ UNCHANGED <<call, planned>>
  ELSE /\ UNCHANGED cancel
       /\ IF ~ok THEN Return(a)
          ELSE /\ call' = IF call[a].leg = 0 THEN [call EXCEPT ![a].pc = "scan"]
                          ELSE [call EXCEPT ![a].pc = "leg", ![a].leg = @ + 1]
               /\ UNCHANGED planned

StartDrain(a) ==
  /\ WantsDrain(a)
  /\ drain = IdleDrain
  /\ EventsAfter
  /\ LET until == cursor + EventBatchSize
         next == IF until > Len(delivered') THEN Len(delivered') ELSE until
     IN drain' = [IdleDrain EXCEPT !.by = a, !.next = next,
                    !.left = SubSeq(delivered', cursor + 1, next)]
  /\ UNCHANGED <<storeVars, reserved, planned, closed, cursor, call, cancel, recon, faults, crashes, cancels>>

\* EventsAfter fails.  A worker goes on when the broker is unavailable.
DrainUnavailable(a) ==
  /\ WantsDrain(a)
  /\ drain = IdleDrain
  /\ CallCancelled
  /\ \E tolerated \in BOOLEAN : AfterDrain(a, tolerated)
  /\ UNCHANGED <<brokerVars, storeVars, reserved, closed, cursor, drain, recon, crashes, cancels>>

DrainRead ==
  /\ drain.by # "none" /\ drain.pc = "read" /\ drain.left # <<>>
  /\ drain' = [drain EXCEPT !.pc = "reserve", !.read = orders[Head(drain.left).order]]
  /\ UNCHANGED <<brokerVars, storeVars, reserved, planned, closed, cursor, call, cancel, recon, faults, crashes, cancels>>

\* A busy order fails the whole call; the cursor stays.
DrainReserve ==
  LET o == Head(drain.left).order IN
  /\ drain.pc = "reserve"
  /\ IF Busy(o)
     THEN drain' = IdleDrain /\ AfterDrain(drain.by, FALSE) /\ UNCHANGED reserved
     ELSE /\ drain' = [drain EXCEPT !.pc = "apply"]
          /\ reserved' = reserved \cup {o}
          /\ UNCHANGED <<planned, call, cancel>>
  /\ UNCHANGED <<brokerVars, storeVars, closed, cursor, recon, faults, crashes, cancels>>

\* A collision is tolerated, any other error fails the call.
DrainApply ==
  LET event == Head(drain.left) IN
  /\ drain.pc = "apply"
  /\ reserved' = reserved \ {event.order}
  /\ \E result \in EventResults :
       /\ PublishBrokerEvent(drain.read, event, DrainTime, result)
       /\ IF result = "error"
          THEN drain' = IdleDrain /\ AfterDrain(drain.by, FALSE)
          ELSE /\ drain' = [drain EXCEPT !.pc = "read", !.read = NoOrder, !.left = Tail(@)]
               /\ UNCHANGED <<planned, call, cancel>>
  /\ UNCHANGED <<brokerVars, closed, cursor, recon, crashes, cancels>>

\* The cursor moves once the whole batch is through.
FinishDrain ==
  /\ drain.by # "none" /\ drain.pc = "read" /\ drain.left = <<>>
  /\ cursor' = drain.next
  /\ drain' = IdleDrain
  /\ AfterDrain(drain.by, TRUE)
  /\ UNCHANGED <<brokerVars, storeVars, reserved, closed, recon, faults, crashes, cancels>>

-----------------------------------------------------------------------------
(* RequestCancel.                                                          *)

\* The order is read before it is reserved.
RequestCancel(o, at) ==
  /\ cancel = IdleCancel
  /\ cancels < MaxCancels
  /\ cancels' = cancels + 1
  /\ cancel' = [pc |-> "reserve", order |-> o, current |-> orders[o], at |-> at]
  /\ UNCHANGED <<brokerVars, storeVars, reserved, planned, closed, cursor, drain, call, recon, faults, crashes>>

Cancellable == {"SUBMITTED", "ACKNOWLEDGED", "PARTIALLY_FILLED"}

CancelReserve ==
  LET o == cancel.order
      report == Internal(cancel.current, "CANCEL_PENDING", "cancel", cancel.current.revision, cancel.at)
  IN /\ cancel.pc = "reserve"
     /\ IF Busy(o) \/ cancel.current.state \notin Cancellable
        THEN cancel' = IdleCancel /\ UNCHANGED <<storeVars, reserved, faults>>
        ELSE \E result \in Results :
               /\ publish(o, report, "none", 0, result)
               /\ IF result \in Done
                  THEN /\ cancel' = [cancel EXCEPT !.pc = "send",
                                       !.current = ApplyExecutionReport(orders[o], report)]
                       /\ reserved' = reserved \cup {o}
                  ELSE cancel' = IdleCancel /\ UNCHANGED reserved
     /\ UNCHANGED <<brokerVars, planned, closed, cursor, drain, call, recon, crashes, cancels>>

\* broker.Cancel: accepted, or its outcome is unknown.
CancelSend ==
  /\ cancel.pc = "send"
  /\ \/ /\ CancelAccepted(cancel.order)
        /\ cancel' = [cancel EXCEPT !.pc = "drain"]
        /\ reserved' = reserved \ {cancel.order}
        /\ UNCHANGED faults
     \/ /\ CallCancelled
        /\ cancel' = [cancel EXCEPT !.pc = "unknown"]
        /\ UNCHANGED <<brokerVars, reserved>>
  /\ UNCHANGED <<storeVars, planned, closed, cursor, drain, call, recon, crashes, cancels>>

CancelUnknown ==
  LET current == cancel.current
      report == Internal(current, "UNKNOWN", "cancel-unknown", current.revision, cancel.at)
  IN /\ cancel.pc = "unknown"
     /\ \E result \in Results : publish(cancel.order, report, "none", 0, result)
     /\ reserved' = reserved \ {cancel.order}
     /\ cancel' = IdleCancel
     /\ UNCHANGED <<brokerVars, planned, closed, cursor, drain, call, recon, crashes, cancels>>

-----------------------------------------------------------------------------
(* Reconciliation.                                                         *)

\* Mutant of FillRepairs: a repaired execution gets an identity of its own.
RepairsRename(o, local, remote) ==
  [valid  |-> TRUE,
   events |-> <<[Event(o, "repair", IF remote.cum = Quantity[o] THEN "FILL" ELSE "PARTIAL_FILL",
                       remote.cum, remote.cum - local.filled)
                   EXCEPT !.id = <<"reconcile", "repair", remote.cum>>]>>]

\* The repair event of an execution the broker shows.
RepairEvent(o, f) ==
  [Event(o, f.exec, IF f.cum = Quantity[o] THEN "FILL" ELSE "PARTIAL_FILL", f.cum, f.fill)
     EXCEPT !.id = <<"reconcile", f.exec, 0>>]

\* One round of the loop over the broker's executions: one the local order has not
\* counted gets a repair event; valid is FALSE once one does not continue the last.
RepairRound(o, before, f) ==
  IF f.cum <= before.cum THEN before
  ELSE [cum    |-> f.cum,
        valid  |-> before.valid /\ f.cum = before.cum + f.fill /\ f.cum <= Quantity[o],
        events |-> Append(before.events, RepairEvent(o, f))]

\* The repair events, when the executions lead from the local to the remote
\* cumulative.  The paper broker lists executions in the order they happened.
FillRepairs(o, local, remote) ==
  LET repaired[n \in 0..Len(remote.fills)] ==
        IF n = 0 THEN [cum |-> local.filled, valid |-> TRUE, events |-> <<>>]
        ELSE RepairRound(o, repaired[n - 1], remote.fills[n])
      all == repaired[Len(remote.fills)]
  IN IF all.valid /\ all.cum = remote.cum
     THEN [valid |-> TRUE, events |-> all.events] ELSE [valid |-> FALSE, events |-> <<>>]

\* The status the remote order has and the local one lacks.
StatusRepair(local, remote) ==
  CASE remote.state = "ACKNOWLEDGED" /\ local.state # "ACKNOWLEDGED" -> "ACKNOWLEDGED"
    [] remote.state = "SUBMITTED" /\ local.state = "UNKNOWN" -> "SUBMITTED"
    [] remote.state = "CANCELLED" /\ local.state # "CANCELLED" -> "CANCELLED"
    [] remote.state = "REJECTED" /\ local.state # "REJECTED" -> "REJECTED"
    [] OTHER -> "none"

repairEvents(o, local, remote) ==
  LET status == StatusRepair(local, remote) IN
  IF remote.cum > local.filled THEN FillRepairs(o, local, remote)
  ELSE [valid  |-> TRUE,
        events |-> IF status = "none" THEN <<>>
                   ELSE <<[Event(o, "none", status, remote.cum, 0)
                             EXCEPT !.id = <<"reconcile", status, remote.cum>>]>>]

Nonterminal(order) == order.state \notin Terminal

\* The orders of the snapshot (the broker lists no order it does not have).
Listed == {o \in Orders : recon.snapshot[o].state # "none"}

\* broker.Snapshot: the orders the broker has.
ReconcileSnapshot(at) ==
  /\ Reconciles
  /\ recon = IdleRecon
  /\ recon' = [IdleRecon EXCEPT !.pc = "local", !.at = at, !.snapshot = book]
  /\ UNCHANGED <<brokerVars, storeVars, reserved, planned, closed, cursor, drain, call, cancel, faults, crashes, cancels>>

\* repository.NonTerminalOrders.
ReconcileLocal ==
  /\ recon.pc = "local"
  /\ recon' = [recon EXCEPT !.pc = "remote", !.todo = Listed,
       !.local = [o \in Orders |-> IF Nonterminal(orders[o]) THEN orders[o] ELSE NoOrder]]
  /\ UNCHANGED <<brokerVars, storeVars, reserved, planned, closed, cursor, drain, call, cancel, faults, crashes, cancels>>

\* The repairs of one order are up, or it is blocked.
Repair(o, local) ==
  LET repair == repairEvents(o, local, recon.snapshot[o]) IN
  recon' = [recon EXCEPT !.todo = @ \ {o}, !.events = repair.events,
                         !.blocked = @ \/ ~repair.valid]

Skip(o, blocked) ==
  recon' = [recon EXCEPT !.todo = @ \ {o}, !.blocked = @ \/ blocked]

\* First the broker's orders: a locally CANCELLED one may have filled late.
ReconcileRemote(o) ==
  /\ recon.pc = "remote" /\ recon.events = <<>> /\ o \in recon.todo
  /\ IF orders[o].state = "CANCELLED" /\ recon.snapshot[o].cum > orders[o].filled
     THEN Repair(o, orders[o])
     ELSE Skip(o, FALSE)
  /\ UNCHANGED <<brokerVars, storeVars, reserved, planned, closed, cursor, drain, call, cancel, faults, crashes, cancels>>

\* Then the local orders, as NonTerminalOrders returned them.
ReconcileOrder(o) ==
  /\ recon.pc = "orders" /\ recon.events = <<>> /\ o \in recon.todo
  /\ LET local == recon.local[o] IN
     IF o \notin Listed THEN Skip(o, local.state \notin {"CREATED", "PLANNED"})
     ELSE IF recon.snapshot[o].cum < local.filled THEN Skip(o, TRUE)
     ELSE Repair(o, local)
  /\ UNCHANGED <<brokerVars, storeVars, reserved, planned, closed, cursor, drain, call, cancel, faults, crashes, cancels>>

Reconciled == recon.events = <<>> /\ recon.todo = {}

ReconcileAdvance ==
  /\ Reconciled
  /\ \/ recon.pc = "remote" /\ recon' = [recon EXCEPT !.pc = "orders", !.todo = {o \in Orders : recon.local[o] # NoOrder}]
     \/ recon.pc = "orders" /\ recon' = IdleRecon
  /\ UNCHANGED <<brokerVars, storeVars, reserved, planned, closed, cursor, drain, call, cancel, faults, crashes, cancels>>

RepairRead ==
  /\ recon.events # <<>> /\ recon.step = "read"
  /\ recon' = [recon EXCEPT !.step = "reserve", !.read = orders[Head(recon.events).order]]
  /\ UNCHANGED <<brokerVars, storeVars, reserved, planned, closed, cursor, drain, call, cancel, faults, crashes, cancels>>

\* Mutant of RepairFails: the failure is not reported.
RepairFailsSilently == recon' = [recon EXCEPT !.events = <<>>, !.step = "read", !.read = NoOrder]

\* publishEvents stops at the first error and the order counts as blocked.
RepairFails == recon' = [recon EXCEPT !.events = <<>>, !.step = "read", !.read = NoOrder, !.blocked = TRUE]

RepairReserve ==
  LET o == Head(recon.events).order IN
  /\ recon.step = "reserve"
  /\ IF Busy(o) THEN RepairFails /\ UNCHANGED reserved
     ELSE recon' = [recon EXCEPT !.step = "apply"] /\ reserved' = reserved \cup {o}
  /\ UNCHANGED <<brokerVars, storeVars, planned, closed, cursor, drain, call, cancel, faults, crashes, cancels>>

RepairApply ==
  LET event == Head(recon.events) IN
  /\ recon.step = "apply"
  /\ reserved' = reserved \ {event.order}
  /\ \E result \in EventResults :
       /\ PublishBrokerEvent(recon.read, event, recon.at, result)
       /\ IF result \in {"error", "collision"} THEN RepairFails
          ELSE recon' = [recon EXCEPT !.step = "read", !.read = NoOrder, !.events = Tail(@)]
  /\ UNCHANGED <<brokerVars, planned, closed, cursor, drain, call, cancel, crashes, cancels>>

-----------------------------------------------------------------------------
Shutdown ==
  /\ Shutdowns
  /\ ~closed
  /\ closed' = TRUE
  /\ UNCHANGED <<brokerVars, storeVars, reserved, planned, cursor, drain, call, cancel, recon, faults, crashes, cancels>>

\* A restart: the store and the broker are restored from their checkpoints, the
\* cursor by RestoreCursor or from zero, and publications are not restored.
Crash ==
  /\ crashes < MaxCrashes
  /\ crashes' = crashes + 1
  /\ reports' = [o \in Orders |-> {[r EXCEPT !.live = FALSE] : r \in reports[o]}]
  /\ cursor' \in {0, cursor}
  /\ reserved' = {} /\ planned' = {} /\ closed' = FALSE
  /\ drain' = IdleDrain /\ cancel' = IdleCancel /\ recon' = IdleRecon
  /\ call' = [w \in Workers |-> IdleCall]
  /\ UNCHANGED <<brokerVars, orders, fills, faults, cancels>>

Advance == Tick /\ UNCHANGED <<storeVars, coordinatorVars>>

LegStep(w, o) ==
  \/ SkipLeg(w, o) \/ LegBusy(w, o) \/ PlanLeg(w, o) \/ RestartUnknown(w, o)
  \/ ReserveUnknown(w, o) \/ StartSubmission(w, o)

WorkerStep(w) ==
  \/ AbandonSlot(w) \/ Scan(w) \/ EndOfLegs(w)
  \/ \E o \in Orders : LegStep(w, o)
  \/ Send(w) \/ Answered(w) \/ SubmissionUnknown(w) \/ recoverUnknown(w)

DrainStep == DrainRead \/ DrainReserve \/ DrainApply \/ FinishDrain

CancelStep == CancelReserve \/ CancelSend \/ CancelUnknown

ReconcileStep ==
  \/ ReconcileLocal \/ ReconcileAdvance \/ RepairRead \/ RepairReserve \/ RepairApply
  \/ \E o \in Orders : ReconcileRemote(o) \/ ReconcileOrder(o)

Next ==
  \/ \E w \in Workers, p \in Plans, at \in Times : ExecutePlan(w, p, at)
  \/ \E w \in Workers : AcquireSlot(w) \/ WorkerStep(w)
  \/ \E a \in Drainers : StartDrain(a) \/ DrainUnavailable(a)
  \/ DrainStep
  \/ \E o \in Orders, at \in Times : RequestCancel(o, at)
  \/ CancelStep
  \/ \E at \in Times : ReconcileSnapshot(at)
  \/ ReconcileStep
  \/ Shutdown
  \/ Crash
  \/ Advance

Spec == Init /\ [][Next]_vars

\* Goroutines run, a channel hands its slot to waiting senders in turn and
\* sync.Mutex does not starve a waiter; nobody has to call anything.
Fairness ==
  /\ \A w \in Workers : WF_vars(WorkerStep(w)) /\ SF_vars(AcquireSlot(w))
  /\ \A a \in Drainers : SF_vars(StartDrain(a) \/ DrainUnavailable(a))
  /\ WF_vars(DrainStep)
  /\ WF_vars(CancelStep)
  /\ WF_vars(ReconcileStep)

FairSpec == Spec /\ Fairness

-----------------------------------------------------------------------------
(* Properties.                                                             *)

PCs == {"idle", "slot", "drain", "scan", "leg", "send", "accepted", "rejected", "unknown",
        "recover", "recover-submitted"}

\* Types of the coordinator's state.
TypeOK ==
  /\ \A o \in Orders : orders[o].state \in OrderStates /\ ValidOrder(orders[o])
  /\ reserved \subseteq Orders
  /\ planned \subseteq Plans
  /\ cursor \in 0..Len(delivered)
  /\ \A w \in Workers : call[w].pc \in PCs /\ (call[w].pc # "idle" <=> call[w].plan \in planned)
  /\ drain.by \in Drainers \cup {"none"} /\ drain.pc \in {"read", "reserve", "apply"}
  /\ cancel.pc \in {"idle", "reserve", "send", "unknown", "drain"}
  /\ recon.pc \in {"idle", "local", "remote", "orders"}

\* Duplicate exposure: no worker is about to submit an order the broker already
\* has, after any timeout, lost answer, failed publication or restart (submit,
\* and execute's handling of SUBMISSION_PENDING and UNKNOWN).
NoResubmission == \A w \in Workers : call[w].pc = "send" => ~Placed(Leg(w))

\* Naked exposure: an order is at the broker only if every order it depends on is
\* completely filled there, in the broker's own book (dependenciesFilled).
SellsAreProtected ==
  \A o \in Orders : Placed(o) => \A d \in DependsOn[o] : book[d].cum = Quantity[d]

\* Nothing is invented: the store counts no execution the broker's book does not
\* show, and calls an order filled, cancelled or rejected only on that evidence.
BrokerEvidence ==
  \A o \in Orders :
    /\ orders[o].filled <= book[o].cum
    /\ orders[o].state \notin {"CREATED", "PLANNED", "SUBMISSION_PENDING", "UNKNOWN"} => Placed(o)
    /\ orders[o].state = "CANCELLED" => \E i \in DOMAIN delivered :
         delivered[i].order = o /\ delivered[i].type = "CANCELLED"
    /\ orders[o].state = "REJECTED" => book[o].state \in {"REJECTED", "CANCELLED"} /\ book[o].cum = 0

\* The executions of the store are executions of the broker, each booked once, and
\* they add up to the order's filled quantity, whichever of the event stream and
\* reconciliation booked them.
ExecutionsBooked ==
  \A o \in Orders :
    /\ orders[o].filled = SumFunction([f \in fills[o] |-> f.quantity])
    /\ \A f \in fills[o] : \E i \in DOMAIN delivered :
         delivered[i].order = o /\ delivered[i].exec = f.exec /\ delivered[i].fill = f.quantity
    /\ \A f, g \in fills[o] : f.exec = g.exec => f = g

\* No lost event: what the cursor has passed will not be delivered again, so every
\* execution before the cursor is in the store (DrainEvents moves the cursor last).
CursorSkipsNoFill ==
  \A i \in 1..cursor : delivered[i].fill > 0 => orders[delivered[i].order].filled >= delivered[i].cum

Holders(o) ==
  {w \in Workers : call[w].pc \in {"send", "accepted", "rejected", "unknown", "recover", "recover-submitted"}
                   /\ Leg(w) = o}
  \cup (IF cancel.pc \in {"send", "unknown"} /\ cancel.order = o THEN {"cancel"} ELSE {})
  \cup (IF drain.pc = "apply" /\ Head(drain.left).order = o THEN {"drain"} ELSE {})
  \cup (IF recon.step = "apply" /\ Head(recon.events).order = o THEN {"recon"} ELSE {})

\* Per-order serialisation: an order in work is reserved, by one actor only.
OneHolder ==
  \A o \in Orders : \A a, b \in Holders(o) : o \in reserved /\ a = b

\* Types, one holder for every order in work (reserveOrder), and an event cursor that
\* never passes an execution the store does not have (DrainEvents).
CoordinatorInv == TypeOK /\ OneHolder /\ CursorSkipsNoFill

\* Reconciliation that ends without an issue leaves no execution of its snapshot
\* unbooked, whatever the event stream did meanwhile.
CleanReconciliation ==
  recon.pc = "orders" /\ Reconciled /\ ~recon.blocked =>
    \A o \in Listed : orders[o].filled >= recon.snapshot[o].cum

\* An order of the plan is UNKNOWN, and the report recoverUnknown would publish about it
\* at this logical time came back from a checkpoint without its publication: publishing it
\* is answered as a replay, and moves nothing.
RecoveredBefore(w) ==
  \E o \in OrdersForPlan(call[w].plan) :
    /\ orders[o].state = "UNKNOWN"
    /\ RestoredReport(o, Accepted(orders[o], "SUBMITTED", "recovered", 0, call[w].at))

\* Every ExecutePlan call returns, across a restart too (ExecutePlan's leg loop ends when a
\* round made no progress).  The one call that may never return is the one whose order was
\* recovered before the restart, at its logical time, and is UNKNOWN again: the replay that
\* answers recoverUnknown is progress for the loop.
CallsReturn ==
  \A w \in Workers : []<>(call[w].pc = "idle") \/ <>[](call[w].pc # "idle" /\ RecoveredBefore(w))

\* Shutdown's wait ends (or the process dies).
ShutdownCompletes == closed ~> (planned = {} \/ ~closed)

\* Duplicates are harmless: an execution the store has booked is never an error
\* when the stream delivers it again.
DuplicatesHarmless ==
  \A i \in DOMAIN delivered :
    LET event == delivered[i]
        order == orders[event.order]
    IN Booked(event.order, event.exec) /\ ~KnownReport(event.order, event.id) =>
         \/ staleBrokerEvent(order, event)
         \/ PublishResult(event.order, EventReport(event, 0), event.exec, event.fill) # "error"

=============================================================================
