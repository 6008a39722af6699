--------------------- MODULE ExecutionCoordinatorProofs ---------------------
(***************************************************************************)
(* Proofs of the properties of the execution coordinator.                  *)
(***************************************************************************)
EXTENDS ExecutionControl

-----------------------------------------------------------------------------
(* Types.                                                                  *)

LEMMA ControlTypes == Control => TypeOK
<1>1. SUFFICES ASSUME Control PROVE TypeOK
  OBVIOUS
<1> USE <1>1 DEF Control
<1>2. \A o \in Orders : orders[o].state \in OrderStates /\ ValidOrder(orders[o])
  BY DEF StoreTyped, OrderRecords
<1>3. ASSUME NEW w \in Workers PROVE call[w].pc \in PCs /\ (call[w].pc # "idle" <=> call[w].plan \in planned)
  <2>1. call[w] \in Calls /\ "none" \notin planned
    BY CoordinatorAssumption DEF WorkersOK, CoordinatorAssumption
  <2>2. call[w].pc \in PCs
    BY <2>1 DEF Calls
  <2> QED BY <2>1, <2>2 DEF WorkersOK
<1>4. drain.by \in Drainers \cup {"none"} /\ drain.pc \in {"read", "reserve", "apply"}
  BY DEF DrainOK, Drains
<1>5. cancel.pc \in {"idle", "reserve", "send", "unknown", "drain"}
  BY DEF CancelOK, Cancels
<1>6. recon.pc \in {"idle", "local", "remote", "orders"}
  BY DEF ReconOK, Recons
<1> QED BY <1>2, <1>3, <1>4, <1>5, <1>6 DEF TypeOK, WorkersOK, DrainOK

\* The coordinator's state keeps its types in every behaviour, for every number of
\* orders, plans and workers.
THEOREM TypesHold == Spec => []TypeOK
BY ControlInvariant, ControlTypes, PTL

-----------------------------------------------------------------------------
(* Per-order serialisation (reserveOrder, releaseOrder).                   *)

\* Who holds an order.
Holds(a, o) ==
  \/ a \in Workers /\ call[a].pc \in Holding /\ Leg(a) = o
  \/ a = "cancel" /\ cancel.pc \in {"send", "unknown"} /\ cancel.order = o
  \/ a = "drain" /\ drain.pc = "apply" /\ Head(drain.left).order = o
  \/ a = "recon" /\ recon.step = "apply" /\ Head(recon.events).order = o

Serial == \A o \in Orders : \A a, b : Holds(a, o) /\ Holds(b, o) => o \in reserved /\ a = b

LEMMA SerialOneHolder == Serial => OneHolder
<1>1. ASSUME NEW o \in Orders, NEW a \in Holders(o) PROVE Holds(a, o)
  BY DEF Holders, Holds, Holding
<1> QED BY <1>1 DEF Serial, OneHolder

\* A step that takes no order and frees none.
LEMMA SerialKeeps ==
  ASSUME Serial, reserved \subseteq reserved',
         \A o \in Orders : \A a : Holds(a, o)' => Holds(a, o)
  PROVE  Serial'
BY DEF Serial

\* The actor a takes an order that nobody had reserved.
LEMMA SerialTakes ==
  ASSUME Serial, NEW a, NEW x \in Orders, x \notin reserved, reserved' = reserved \cup {x},
         \A o \in Orders : \A b : Holds(b, o)' => Holds(b, o) \/ (b = a /\ o = x)
  PROVE  Serial'
<1>1. ASSUME NEW o \in Orders, NEW b, NEW c, Holds(b, o)', Holds(c, o)' PROVE o \in reserved' /\ b = c
  <2>1. CASE o = x
    <3>1. ~Holds(b, o) /\ ~Holds(c, o)
      BY <2>1 DEF Serial
    <3> QED BY <1>1, <2>1, <3>1
  <2>2. CASE o # x
    BY <1>1, <2>2 DEF Serial
  <2> QED BY <2>1, <2>2
<1> QED BY <1>1 DEF Serial

\* The actor a frees the order it holds.
LEMMA SerialFrees ==
  ASSUME Serial, NEW a, NEW x \in Orders, Holds(a, x), reserved' = reserved \ {x},
         \A o \in Orders : \A b : Holds(b, o)' => Holds(b, o) /\ (b # a \/ o # x)
  PROVE  Serial'
<1>1. ASSUME NEW o \in Orders, NEW b, NEW c, Holds(b, o)', Holds(c, o)' PROVE o \in reserved' /\ b = c
  <2>1. Holds(b, o) /\ Holds(c, o) /\ (b # a \/ o # x)
    BY <1>1
  <2>2. o # x
    BY <2>1 DEF Serial
  <2> QED BY <2>1, <2>2 DEF Serial
<1> QED BY <1>1 DEF Serial

\* A step of the worker w: the others hold what they held.
LEMMA OthersHold ==
  ASSUME NEW w \in Workers, OnlyCall(w), UNCHANGED <<cancel, drain, recon>>
  PROVE  \A o, b : b # w => (Holds(b, o)' <=> Holds(b, o))
BY DEF Holds, OnlyCall, Leg

LEMMA LeavesHolds ==
  ASSUME NEW w \in Workers, Leaves(w)
  PROVE  OnlyCall(w) /\ \A o : ~Holds(w, o)'
<1>1. OnlyCall(w) /\ call'[w].pc \notin Holding
  BY DEF Leaves, Returns, IdleCall, Holding, Progresses, Moves
<1>2. w \notin {"cancel", "drain", "recon"}
  BY CoordinatorAssumption DEF CoordinatorAssumption
<1> QED BY <1>1, <1>2 DEF Holds

LEMMA ProgressesHolds ==
  ASSUME NEW w \in Workers, NEW pc, Progresses(w, pc)
  PROVE  /\ OnlyCall(w) /\ call'[w].pc = pc
         /\ pc \in Holding => Leg(w)' = Leg(w)
         /\ \A o : Holds(w, o)' <=> pc \in Holding /\ o = Leg(w)
<1>1. /\ OnlyCall(w) /\ call'[w].pc = pc /\ call'[w].plan = call[w].plan
      /\ pc \in Holding => call'[w].leg = call[w].leg
  BY DEF Progresses, Moves
<1>2. w \notin {"cancel", "drain", "recon"}
  BY CoordinatorAssumption DEF CoordinatorAssumption
<1>3. pc \in Holding => Leg(w)' = Leg(w)
  BY <1>1 DEF Leg
<1> QED BY <1>1, <1>2, <1>3 DEF Holds

LEMMA HoldingHolds ==
  ASSUME NEW w \in Workers, call[w].pc \in Holding
  PROVE  Holds(w, Leg(w))
BY DEF Holds

LEMMA WorkerSerial ==
  ASSUME Control, Serial, NEW w \in Workers, WorkerEffect(w)
  PROVE  Serial'
<1>1. UNCHANGED <<cancel, drain, recon>>
  BY DEF WorkerEffect, WorkerFrame
<1>2. CASE Passes(w) \/ PlansLeg(w)
  <2>1. Leaves(w) /\ UNCHANGED reserved
    BY <1>2 DEF Passes, PlansLeg
  <2> QED BY <1>1, <2>1, OthersHold, LeavesHolds, SerialKeeps
<1>3. CASE Sends(w)
  <2>1. UNCHANGED reserved /\ call[w].pc = "send" /\ \E pc \in Holding : Progresses(w, pc)
    BY <1>3 DEF Sends, Holding
  <2>2. Holds(w, Leg(w))
    BY <2>1, HoldingHolds DEF Holding
  <2> QED BY <1>1, <2>1, <2>2, OthersHold, ProgressesHolds, SerialKeeps
<1>4. CASE KeepsUnknown(w)
  <2>1. UNCHANGED reserved /\ call[w].pc = "unknown" /\ Progresses(w, "recover-submitted")
    BY <1>4 DEF KeepsUnknown
  <2>2. Holds(w, Leg(w))
    BY <2>1, HoldingHolds DEF Holding
  <2> QED BY <1>1, <2>1, <2>2, OthersHold, ProgressesHolds, SerialKeeps
<1>5. CASE Releases(w)
  <2>1. reserved' = reserved \ {Leg(w)} /\ call[w].pc \in Holding /\ Leaves(w)
    BY <1>5 DEF Releases
  <2>2. Holds(w, Leg(w)) /\ Leg(w) \in Orders
    BY <2>1, HoldingHolds, LegTyped DEF Control
  <2> QED BY <1>1, <2>1, <2>2, OthersHold, LeavesHolds, SerialFrees
<1>6. ASSUME NEW x \in Orders, TakesUnknown(w, x) \/ TakesPlanned(w, x) PROVE Serial'
  <2>1. x = Leg(w) /\ x \notin reserved /\ reserved' = reserved \cup {x}
    BY <1>6 DEF TakesUnknown, TakesPlanned, Busy
  <2>2. OnlyCall(w) /\ \A o : Holds(w, o)' => o = x
    BY <1>6, <2>1, LeavesHolds, ProgressesHolds DEF TakesUnknown, TakesPlanned, Leaves
  <2> QED BY <1>1, <2>1, <2>2, OthersHold, SerialTakes
<1> QED BY <1>2, <1>3, <1>4, <1>5, <1>6 DEF WorkerEffect

LEMMA CancelSerial ==
  ASSUME Control, Serial, CancelEffect
  PROVE  Serial'
<1>1. UNCHANGED <<drain, call, recon>>
  BY DEF CancelEffect
<1>2. \A o, b : b # "cancel" => (Holds(b, o)' <=> Holds(b, o))
  BY <1>1 DEF Holds, Leg
<1>3. "cancel" \notin Workers
  BY CoordinatorAssumption DEF CoordinatorAssumption
<1>4. \A o : Holds("cancel", o) <=> cancel.pc \in {"send", "unknown"} /\ cancel.order = o
  BY <1>3 DEF Holds
<1>5. \A o : Holds("cancel", o)' <=> cancel'.pc \in {"send", "unknown"} /\ cancel'.order = o
  BY <1>3 DEF Holds
<1>6. CASE CancelTakes
  <2>1. /\ cancel.order \in Orders /\ cancel.order \notin reserved /\ reserved' = reserved \cup {cancel.order}
        /\ cancel'.order = cancel.order
    BY <1>6 DEF CancelTakes, Busy
  <2> QED BY <1>2, <1>5, <2>1, SerialTakes
<1>7. CASE CancelSends
  <2>1. cancel.pc = "send" /\ cancel.order \in Orders /\ cancel'.order = cancel.order
    BY <1>7 DEF CancelSends
  <2>2. CASE UNCHANGED reserved
    BY <1>2, <1>4, <1>5, <2>1, <2>2, SerialKeeps
  <2>3. CASE cancel'.pc = "drain" /\ reserved' = reserved \ {cancel.order}
    BY <1>2, <1>4, <1>5, <2>1, <2>3, SerialFrees
  <2> QED BY <1>7, <2>2, <2>3 DEF CancelSends
<1>8. CASE CancelEnds
  <2>1. cancel'.pc = "idle"
    BY <1>8 DEF CancelEnds, IdleCancel
  <2>2. CASE UNCHANGED reserved
    BY <1>2, <1>5, <2>1, <2>2, SerialKeeps
  <2>3. CASE cancel.pc = "unknown" /\ cancel.order \in Orders /\ reserved' = reserved \ {cancel.order}
    BY <1>2, <1>4, <1>5, <2>1, <2>3, SerialFrees
  <2> QED BY <1>8, <2>2, <2>3 DEF CancelEnds
<1> QED BY <1>6, <1>7, <1>8 DEF CancelEffect

\* The caller of DrainEvents goes on: nobody but the drain itself takes or frees an order.
LEMMA AfterDrainHolds ==
  ASSUME Control, NEW a \in Drainers, NEW ok \in BOOLEAN, AfterDrain(a, ok), UNCHANGED recon,
         a \in Workers => call[a].pc = "drain", a = "cancel" => cancel.pc = "drain"
  PROVE  \A o, b : b # "drain" /\ Holds(b, o)' => Holds(b, o)
<1>0. "cancel" \notin Workers /\ "recon" \notin Workers
  BY CoordinatorAssumption DEF CoordinatorAssumption
<1>1. CASE a = "cancel" /\ cancel' = IdleCancel /\ UNCHANGED <<call, planned>>
  BY <1>0, <1>1 DEF Holds, Leg, IdleCancel
<1>2. CASE a \in Workers /\ a # "cancel" /\ UNCHANGED cancel /\ Leaves(a)
  <2>1. OnlyCall(a) /\ \A o : ~Holds(a, o)'
    BY <1>2, LeavesHolds
  <2>2. \A o, b : b \notin {a, "drain"} /\ Holds(b, o)' => Holds(b, o)
    BY <1>2, <2>1 DEF Holds, OnlyCall, Leg
  <2> QED BY <2>1, <2>2
<1> QED BY <1>1, <1>2, AfterDrainEffect DEF Control

LEMMA DrainHolds ==
  \A o : /\ Holds("drain", o) <=> drain.pc = "apply" /\ Head(drain.left).order = o
         /\ Holds("recon", o) <=> recon.step = "apply" /\ Head(recon.events).order = o
<1>1. "drain" \notin Workers /\ "recon" \notin Workers
  BY CoordinatorAssumption DEF CoordinatorAssumption
<1> QED BY <1>1 DEF Holds

LEMMA NewDrainHolds ==
  \A o : /\ Holds("drain", o)' <=> drain'.pc = "apply" /\ Head(drain'.left).order = o
         /\ Holds("recon", o)' <=> recon'.step = "apply" /\ Head(recon'.events).order = o
<1>1. "drain" \notin Workers /\ "recon" \notin Workers
  BY CoordinatorAssumption DEF CoordinatorAssumption
<1> QED BY <1>1 DEF Holds

LEMMA DrainSerial ==
  ASSUME Control, Serial,
         \/ \E a \in Drainers : StartDrain(a) \/ DrainUnavailable(a)
         \/ DrainRead \/ DrainReserve \/ DrainApply \/ FinishDrain
  PROVE  Serial'
<1> USE DrainHolds, NewDrainHolds
<1> DEFINE x == Head(drain.left).order
<1>1. CASE (\E a \in Drainers : StartDrain(a)) \/ DrainRead
  <2>1. UNCHANGED <<reserved, call, cancel, recon>> /\ drain'.pc # "apply"
    <3>1. drain \in Drains
      BY DEF Control, DrainOK
    <3>2. CASE DrainRead
      BY <3>1, <3>2 DEF DrainRead, Drains
    <3>3. CASE \E a \in Drainers : StartDrain(a)
      BY <3>3 DEF StartDrain, IdleDrain
    <3> QED BY <1>1, <3>2, <3>3
  <2>2. \A o, b : b # "drain" => (Holds(b, o)' <=> Holds(b, o))
    BY <2>1 DEF Holds, Leg
  <2> QED BY <2>1, <2>2, SerialKeeps
<1>2. CASE \E a \in Drainers : DrainUnavailable(a)
  <2>1. PICK a \in Drainers : DrainUnavailable(a)
    BY <1>2
  <2>2. PICK ok \in BOOLEAN : AfterDrain(a, ok)
    BY <2>1 DEF DrainUnavailable
  <2>3. UNCHANGED <<reserved, drain, recon>> /\ drain.pc = "read"
    BY <2>1 DEF DrainUnavailable, IdleDrain
  <2>4. (a \in Workers => call[a].pc = "drain") /\ (a = "cancel" => cancel.pc = "drain")
    <3>1. WantsDrain(a) /\ "cancel" \notin Workers
      BY <2>1, CoordinatorAssumption DEF DrainUnavailable, CoordinatorAssumption
    <3> QED BY <3>1 DEF WantsDrain
  <2>5. \A o, b : b # "drain" /\ Holds(b, o)' => Holds(b, o)
    BY <2>2, <2>3, <2>4, AfterDrainHolds
  <2> QED BY <2>3, <2>5, SerialKeeps
<1>3. ASSUME UNCHANGED <<reserved, recon>>, drain' = IdleDrain, drain.by # "none" \/ drain.left # <<>>,
             NEW ok \in BOOLEAN, AfterDrain(drain.by, ok)
      PROVE  Serial'
  <2>1. /\ drain.by \in Drainers /\ (drain.by \in Workers => call[drain.by].pc = "drain")
        /\ (drain.by = "cancel" => cancel.pc = "drain") /\ drain'.pc # "apply"
    BY <1>3, DrainCaller DEF Control, DrainOK, IdleDrain
  <2>2. \A o, b : b # "drain" /\ Holds(b, o)' => Holds(b, o)
    BY <1>3, <2>1, AfterDrainHolds
  <2> QED BY <1>3, <2>1, <2>2, SerialKeeps
<1>4. CASE FinishDrain
  BY <1>3, <1>4 DEF FinishDrain
<1>5. CASE DrainReserve
  <2>1. drain.pc = "reserve" /\ drain.left # <<>> /\ UNCHANGED recon
    BY <1>5 DEF DrainReserve, Control, DrainOK
  <2>2. CASE Busy(x)
    BY <1>3, <1>5, <2>1, <2>2 DEF DrainReserve
  <2>3. CASE ~Busy(x)
    <3>1. /\ drain' = [drain EXCEPT !.pc = "apply"] /\ reserved' = reserved \cup {x} /\ x \notin reserved
          /\ UNCHANGED <<call, cancel>>
      BY <1>5, <2>3 DEF DrainReserve, Busy
    <3>2. drain'.left = drain.left /\ x \in Orders
      BY <2>1, <3>1, Heads DEF Control, DrainOK, Drains, EventRecords
    <3>3. \A o, b : b # "drain" => (Holds(b, o)' <=> Holds(b, o))
      BY <2>1, <3>1 DEF Holds, Leg
    <3>4. \A o : Holds("drain", o)' => o = x
      BY <3>2
    <3> HIDE DEF x
    <3> QED BY <3>1, <3>2, <3>3, <3>4, SerialTakes
  <2> QED BY <2>2, <2>3
<1>6. CASE DrainApply
  <2>1. drain.pc = "apply" /\ drain.left # <<>> /\ reserved' = reserved \ {x} /\ UNCHANGED recon
    BY <1>6 DEF DrainApply, Control, DrainOK
  <2>2. \/ drain' = IdleDrain /\ AfterDrain(drain.by, FALSE)
        \/ /\ drain' = [drain EXCEPT !.pc = "read", !.read = NoOrder, !.left = Tail(@)]
           /\ UNCHANGED <<planned, call, cancel>>
    BY <1>6 DEF DrainApply
  <2>3. x \in Orders /\ Holds("drain", x)
    BY <2>1, Heads DEF Control, EventRecords
  <2>4. drain'.pc # "apply"
    <3>1. drain \in Drains /\ IdleDrain.pc = "read"
      BY DEF Control, DrainOK, IdleDrain
    <3>2. CASE drain' = [drain EXCEPT !.pc = "read", !.read = NoOrder, !.left = Tail(@)]
      BY <3>1, <3>2 DEF Drains
    <3> QED BY <2>2, <3>1, <3>2
  <2>5. \A o, b : b # "drain" /\ Holds(b, o)' => Holds(b, o)
    <3>1. CASE AfterDrain(drain.by, FALSE)
      <4>1. /\ drain.by \in Drainers /\ (drain.by \in Workers => call[drain.by].pc = "drain")
            /\ (drain.by = "cancel" => cancel.pc = "drain")
        BY <2>1, DrainCaller DEF Control, DrainOK
      <4> QED BY <2>1, <3>1, <4>1, AfterDrainHolds
    <3>2. CASE UNCHANGED <<planned, call, cancel>>
      BY <2>1, <3>2 DEF Holds, Leg
    <3> QED BY <2>2, <3>1, <3>2
  <2> QED BY <2>1, <2>3, <2>4, <2>5, SerialFrees
<1> QED BY <1>1, <1>2, <1>4, <1>5, <1>6

\* A step of reconciliation changes what reconciliation holds only.
LEMMA ReconHolds ==
  ASSUME UNCHANGED <<call, cancel, drain>>
  PROVE  \A o, b : b # "recon" => (Holds(b, o)' <=> Holds(b, o))
BY DEF Holds, Leg

LEMMA ReconSerial ==
  ASSUME Control, Serial, (\E at \in Times : ReconcileSnapshot(at)) \/ ReconcileStep
  PROVE  Serial'
<1> USE DrainHolds, NewDrainHolds
<1> DEFINE x == Head(recon.events).order
<1>1. UNCHANGED <<call, cancel, drain>> /\ recon \in Recons
  BY DEF ReconcileSnapshot, ReconcileStep, ReconcileLocal, ReconcileAdvance, RepairRead, RepairReserve, RepairApply,
         ReconcileRemote, ReconcileOrder, Control, ReconOK
<1>2. CASE \/ \E at \in Times : ReconcileSnapshot(at)
           \/ ReconcileLocal \/ ReconcileAdvance \/ RepairRead
           \/ \E o \in Orders : ReconcileRemote(o) \/ ReconcileOrder(o)
  <2>1. UNCHANGED reserved
    BY <1>2 DEF ReconcileSnapshot, ReconcileLocal, ReconcileAdvance, RepairRead, ReconcileRemote, ReconcileOrder
  <2>2. recon'.step = "apply" => recon.step = "apply" /\ recon'.events = recon.events
    <3>1. CASE \E at \in Times : ReconcileSnapshot(at)
      BY <3>1 DEF ReconcileSnapshot, IdleRecon
    <3>2. CASE ReconcileLocal
      BY <1>1, <3>2 DEF ReconcileLocal, Recons
    <3>3. CASE ReconcileAdvance
      <4>1. CASE recon' = IdleRecon
        BY <4>1 DEF IdleRecon
      <4>2. CASE recon' = [recon EXCEPT !.pc = "orders", !.todo = {o \in Orders : recon.local[o] # NoOrder}]
        BY <1>1, <4>2 DEF Recons
      <4> QED BY <3>3, <4>1, <4>2 DEF ReconcileAdvance
    <3>4. CASE RepairRead
      BY <1>1, <3>4 DEF RepairRead, Recons
    <3>5. CASE \E o \in Orders : ReconcileRemote(o) \/ ReconcileOrder(o)
      <4>1. recon.events = <<>> /\ \E o : (\E blocked : Skip(o, blocked)) \/ (\E local : Repair(o, local))
        BY <3>5 DEF ReconcileRemote, ReconcileOrder
      <4>2. recon'.step = recon.step
        BY <1>1, <4>1 DEF Skip, Repair, Recons
      <4>3. recon.step = "read"
        BY <1>1, <4>1 DEF Control, ReconOK
      <4> QED BY <4>2, <4>3
    <3> QED BY <1>2, <3>1, <3>2, <3>3, <3>4, <3>5
  <2> QED BY <1>1, <2>1, <2>2, ReconHolds, SerialKeeps
<1>3. CASE RepairReserve
  <2>1. recon.step = "reserve" /\ recon.events # <<>>
    BY <1>3 DEF RepairReserve, Control, ReconOK
  <2>2. CASE Busy(x)
    <3>1. recon'.step # "apply" /\ UNCHANGED reserved
      BY <1>1, <1>3, <2>2 DEF RepairReserve, RepairFails, Recons
    <3> QED BY <1>1, <3>1, ReconHolds, SerialKeeps
  <2>3. CASE ~Busy(x)
    <3>1. recon'.events = recon.events /\ x \in Orders /\ x \notin reserved /\ reserved' = reserved \cup {x}
      BY <1>1, <1>3, <2>1, <2>3, Heads DEF RepairReserve, Recons, Busy, EventRecords
    <3>2. \A o : Holds("recon", o)' => o = x
      BY <3>1
    <3> HIDE DEF x
    <3> QED BY <1>1, <3>1, <3>2, ReconHolds, SerialTakes
  <2> QED BY <2>2, <2>3
<1>4. CASE RepairApply
  <2>1. recon.step = "apply" /\ recon.events # <<>> /\ reserved' = reserved \ {x}
    BY <1>4 DEF RepairApply, Control, ReconOK
  <2>2. recon'.step # "apply"
    BY <1>1, <1>4 DEF RepairApply, RepairFails, Recons
  <2>3. x \in Orders /\ Holds("recon", x)
    BY <2>1, Heads DEF EventRecords
  <2> HIDE DEF x
  <2> QED BY <1>1, <2>1, <2>2, <2>3, ReconHolds, SerialFrees
<1> QED BY <1>2, <1>3, <1>4 DEF ReconcileStep

LEMMA SerialStep == ASSUME Control, Serial, [Next]_vars PROVE Serial'
<1>1. CASE Shutdown \/ Advance \/ UNCHANGED vars
  <2>1. UNCHANGED <<reserved, call, cancel, drain, recon>>
    BY <1>1 DEF Shutdown, Advance, vars, coordinatorVars
  <2>2. \A o, b : Holds(b, o)' <=> Holds(b, o)
    BY <2>1 DEF Holds, Leg
  <2> QED BY <2>1, <2>2, SerialKeeps
<1>2. CASE Crash
  <2>1. Idle'
    BY <1>2 DEF Crash, Idle
  <2>2. \A o, b : ~Holds(b, o)'
    BY <2>1 DEF Holds, Idle, IdleCall, IdleCancel, IdleDrain, IdleRecon, Holding
  <2> QED BY <2>2 DEF Serial
<1>3. ASSUME NEW w \in Workers, NEW p \in Plans, NEW at \in Times, ExecutePlan(w, p, at) PROVE Serial'
  <2>1. OnlyCall(w) /\ call'[w].pc = "slot" /\ UNCHANGED <<reserved, cancel, drain, recon>>
    BY <1>3, ExecuteMoves DEF Control, WorkersOK, ExecutePlan
  <2>2. \A o : ~Holds(w, o)'
    BY <2>1, CoordinatorAssumption DEF Holds, Holding, CoordinatorAssumption
  <2> QED BY <2>1, <2>2, OthersHold, SerialKeeps
<1>4. ASSUME NEW o \in Orders, NEW at \in Times, RequestCancel(o, at) PROVE Serial'
  <2>1. cancel'.pc = "reserve" /\ UNCHANGED <<reserved, call, drain, recon>>
    BY <1>4 DEF RequestCancel
  <2>2. \A y, b : Holds(b, y)' => Holds(b, y)
    BY <2>1 DEF Holds, Leg
  <2> QED BY <2>1, <2>2, SerialKeeps
<1>5. ASSUME NEW w \in Workers, AcquireSlot(w) \/ WorkerStep(w) PROVE Serial'
  BY <1>5, WorkerEffects, WorkerSerial DEF Control
<1>6. CASE CancelStep
  BY <1>6, CancelStepEffect, CancelSerial
<1> QED BY <1>1, <1>2, <1>3, <1>4, <1>5, <1>6, DrainSerial, ReconSerial DEF Next, DrainStep

LEMMA InitSerial == Init => Serial
<1>1. SUFFICES ASSUME Init PROVE Serial
  OBVIOUS
<1>2. \A o, b : ~Holds(b, o)
  BY <1>1 DEF Init, Holds, IdleCall, IdleCancel, IdleDrain, IdleRecon, Holding
<1> QED BY <1>2 DEF Serial

LEMMA SerialInvariant == Spec => []Serial
<1>1. Control /\ Serial /\ [Next]_vars => Serial'
  BY SerialStep
<1> QED BY <1>1, InitSerial, ControlInvariant, PTL DEF Spec

-----------------------------------------------------------------------------
(* What the store says of an order is backed by the broker.                *)

\* The event that the drain or reconciliation is about to apply.
InHand(e) ==
  \/ drain.left # <<>> /\ e = Head(drain.left)
  \/ recon.events # <<>> /\ e = Head(recon.events)

\* Why a report may be published: the coordinator knows it, or an event says it.
Justified(o, report, exec, quantity) ==
  \/ /\ report.id[1] = "COORDINATOR" /\ quantity = 0
     /\ \/ report.type \in {"PLANNED", "UNKNOWN"} /\ report.id[2] # "pending"
        \/ report.type \in {"SUBMITTED", "CANCEL_PENDING"} /\ Placed(o) /\ report.id[2] # "pending"
        \/ report.type = "REJECTED" /\ Refused(o) /\ report.id[2] # "pending"
        \/ report.type = "SUBMISSION_PENDING" /\ report.id = <<"COORDINATOR", "pending", orders[o].revision>>
  \/ \E e \in EventRecords, at \in Times \cup {0} :
       InHand(e) /\ EventBacked(e) /\ e.order = o /\ report = EventReport(e, at) /\ exec = e.exec /\ quantity = e.fill

\* A justified report is committed.
Commit(o, report, exec, quantity) ==
  /\ Justified(o, report, exec, quantity)
  /\ Publication(o, report, exec, quantity)
  /\ UNCHANGED brokerVars

\* No report is committed; a restart forgets which were published in this process.
NoCommit ==
  /\ UNCHANGED <<orders, fills>>
  /\ \A o \in Orders : \A r \in reports'[o] : \E s \in reports[o] : s.id = r.id /\ s.at = r.at /\ s.cum = r.cum

Commits ==
  \/ NoCommit
  \/ \E o \in Orders, report \in ReportRecords, exec \in Suffixes, quantity \in Nat : Commit(o, report, exec, quantity)

Early == {"CREATED", "PLANNED"}

Evidence(o) ==
  /\ orders[o].filled <= book[o].cum
  /\ orders[o].state \notin Early \cup {"SUBMISSION_PENDING", "UNKNOWN"} => Placed(o)
  /\ orders[o].state = "CANCELLED" => CancelDelivered(o)
  /\ orders[o].state = "REJECTED" => Refused(o)
  /\ orders[o].state \notin {"EXPIRED", "FAILED"}
  /\ \A n \in Nat : KnownReport(o, <<"COORDINATOR", "pending", n>>) => n < orders[o].revision

\* What no step takes back from an order.
Advances(o) ==
  /\ orders[o].state \notin Early => orders'[o].state \notin Early
  /\ orders[o].state = "FILLED" => orders'[o].state = "FILLED"
  /\ orders[o].filled <= orders'[o].filled
  /\ orders[o].revision <= orders'[o].revision

\* What a commit does to the order it is about, and to the others.
LEMMA CommitApplies ==
  ASSUME StoreTyped, NEW o \in Orders, NEW report \in ReportRecords, NEW exec, NEW quantity \in Nat,
         Publication(o, report, exec, quantity)
  PROVE  /\ \A x \in Orders : x # o => orders'[x] = orders[x] /\ reports'[x] = reports[x] /\ fills'[x] = fills[x]
         /\ orders'[o] = ApplyExecutionReport(orders[o], report)
         /\ orders'[o].filled = report.cum
         /\ orders'[o].revision = orders[o].revision + 1
         /\ orders'[o].state \in {orders[o].state, reportTarget[report.type]}
         /\ report.type \notin {"PARTIAL_FILL", "FILL"} => quantity = 0 /\ report.cum = orders[o].filled
         /\ report.type \in {"PARTIAL_FILL", "FILL"} => quantity > 0 /\ report.cum = orders[o].filled + quantity
         /\ Advances(o)
         /\ reports'[o] = reports[o] \cup {[id |-> report.id, at |-> report.at, cum |-> report.cum, live |-> TRUE]}
         /\ fills'[o] = fills[o] \cup (IF quantity = 0 THEN {} ELSE {[exec |-> exec, quantity |-> quantity]})
<1>1. orders[o] \in OrderRecords /\ orders[o].state \in OrderStates /\ orders[o].filled \in Nat /\ orders[o].revision \in Nat
  BY DEF StoreTyped, OrderRecords
<1>2. report.type \in ReportTypes /\ report.cum \in Nat
  BY DEF ReportRecords
<1>3. /\ orders' = [orders EXCEPT ![o] = ApplyExecutionReport(orders[o], report)]
      /\ Applies(orders[o], report, quantity)
  BY DEF Publication
<1>4. /\ \A x \in Orders : x # o => orders'[x] = orders[x] /\ reports'[x] = reports[x] /\ fills'[x] = fills[x]
      /\ reports'[o] = reports[o] \cup {[id |-> report.id, at |-> report.at, cum |-> report.cum, live |-> TRUE]}
      /\ fills'[o] = fills[o] \cup (IF quantity = 0 THEN {} ELSE {[exec |-> exec, quantity |-> quantity]})
  BY DEF Publication, StoreTyped
<1>5. /\ orders'[o] = ApplyExecutionReport(orders[o], report)
      /\ orders'[o].filled = report.cum
      /\ orders'[o].revision = orders[o].revision + 1
      /\ orders'[o].state = NextState(orders[o], report)
  BY <1>1, <1>3, AppliedTyped DEF StoreTyped
<1>6. orders'[o].state \in {orders[o].state, reportTarget[report.type]}
  BY <1>5 DEF NextState
<1>7. /\ report.type \notin {"PARTIAL_FILL", "FILL"} <=> reportTarget[report.type] \notin FillTargets
  BY <1>2 DEF reportTarget, FillTargets, ReportTypes
<1>8. /\ report.type \notin {"PARTIAL_FILL", "FILL"} => quantity = 0 /\ report.cum = orders[o].filled
      /\ report.type \in {"PARTIAL_FILL", "FILL"} => quantity > 0 /\ report.cum = orders[o].filled + quantity
      /\ report.cum >= orders[o].filled
  BY <1>1, <1>2, <1>3, <1>7 DEF Applies, QuantitiesAgree
<1>9. /\ orders[o].state \notin Early => orders'[o].state \notin Early
      /\ orders[o].state = "FILLED" => orders'[o].state = "FILLED"
  BY <1>1, <1>5 DEF NextState, legalTransition, OrderStates, Early, FillTargets
<1>10. Advances(o)
  BY <1>1, <1>2, <1>5, <1>8, <1>9 DEF Advances
<1> QED BY <1>4, <1>5, <1>6, <1>8, <1>10

LEMMA CommitsAdvance == ASSUME StoreTyped, Commits PROVE \A o \in Orders : Advances(o)
<1>1. \A o \in Orders : orders[o].filled \in Nat /\ orders[o].revision \in Nat
  BY DEF StoreTyped, OrderRecords
<1>2. CASE NoCommit
  BY <1>1, <1>2 DEF NoCommit, Advances
<1>3. ASSUME NEW o \in Orders, NEW report \in ReportRecords, NEW exec \in Suffixes, NEW quantity \in Nat,
             Commit(o, report, exec, quantity)
      PROVE  \A x \in Orders : Advances(x)
  <2>1. Publication(o, report, exec, quantity)
    BY <1>3 DEF Commit
  <2>2. Advances(o) /\ \A x \in Orders : x # o => orders'[x] = orders[x]
    BY <2>1, CommitApplies
  <2>3. \A x \in Orders : x # o => Advances(x)
    BY <1>1, <2>2 DEF Advances
  <2> QED BY <2>2, <2>3
<1> QED BY <1>2, <1>3 DEF Commits

\* What backs an order is never taken back.
LEMMA EvidenceStays ==
  ASSUME Control, Control', Grows, NEW o \in Orders, Evidence(o), orders'[o] = orders[o],
         \A r \in reports'[o] : \E s \in reports[o] : s.id = r.id
  PROVE  Evidence(o)'
<1>1. /\ book[o].cum \in Nat /\ book'[o].cum \in Nat /\ orders[o].filled \in Nat
      /\ book[o].cum <= book'[o].cum /\ (Placed(o) => Placed(o)') /\ (Refused(o) => Refused(o)')
  BY DEF Control, BrokerSound, BrokerTyped, Entries, StoreTyped, OrderRecords, Grows
<1>2. CancelDelivered(o) => CancelDelivered(o)'
  BY GrowsDelivered DEF Control, BrokerSound
<1>3. \A n \in Nat : KnownReport(o, <<"COORDINATOR", "pending", n>>)' => KnownReport(o, <<"COORDINATOR", "pending", n>>)
  BY DEF KnownReport
<1>4. orders'[o].filled <= book'[o].cum
  BY <1>1 DEF Evidence
<1> QED BY <1>1, <1>2, <1>3, <1>4 DEF Evidence

\* A justified report names a state the order may be in.
LEMMA EvidenceCommitted ==
  ASSUME Control, Control', Grows, NEW o \in Orders, NEW report \in ReportRecords, NEW exec \in Suffixes, NEW quantity \in Nat,
         Commit(o, report, exec, quantity), Evidence(o)
  PROVE  Evidence(o)'
<1> USE DEF Control
<1>1. /\ orders'[o].filled = report.cum
      /\ orders'[o].revision = orders[o].revision + 1
      /\ orders'[o].state \in {orders[o].state, reportTarget[report.type]}
      /\ report.type \notin {"PARTIAL_FILL", "FILL"} => report.cum = orders[o].filled
      /\ reports'[o] = reports[o] \cup {[id |-> report.id, at |-> report.at, cum |-> report.cum, live |-> TRUE]}
      /\ orders[o].revision \in Nat
  BY CommitApplies DEF Commit, StoreTyped, OrderRecords
<1>2. UNCHANGED brokerVars
  BY DEF Commit
<1>3. (Placed(o) => Placed(o)') /\ (Refused(o) => Refused(o)') /\ (CancelDelivered(o) => CancelDelivered(o)')
  BY GrowsDelivered DEF BrokerSound, Grows
<1>4. Refused(o) => Placed(o)
  BY DEF Refused, RefusedIn, Placed
<1>5. \A n \in Nat : KnownReport(o, <<"COORDINATOR", "pending", n>>)' =>
        KnownReport(o, <<"COORDINATOR", "pending", n>>) \/ report.id = <<"COORDINATOR", "pending", n>>
  BY <1>1 DEF KnownReport
<1>6. book'[o].cum = book[o].cum
  BY <1>2 DEF brokerVars
<1>7. CASE /\ report.id[1] = "COORDINATOR" /\ quantity = 0
           /\ \/ report.type \in {"PLANNED", "UNKNOWN"} /\ report.id[2] # "pending"
              \/ report.type \in {"SUBMITTED", "CANCEL_PENDING"} /\ Placed(o) /\ report.id[2] # "pending"
              \/ report.type = "REJECTED" /\ Refused(o) /\ report.id[2] # "pending"
              \/ report.type = "SUBMISSION_PENDING" /\ report.id = <<"COORDINATOR", "pending", orders[o].revision>>
  <2>1. orders'[o].filled <= book'[o].cum
    BY <1>1, <1>6, <1>7 DEF Evidence
  <2>2. \A n \in Nat : KnownReport(o, <<"COORDINATOR", "pending", n>>)' => n < orders'[o].revision
    <3>1. \A n \in Nat : report.id = <<"COORDINATOR", "pending", n>> => n = orders[o].revision
      BY <1>7
    <3> QED BY <1>1, <1>5, <3>1 DEF Evidence
  <2>3. /\ orders'[o].state \notin Early \cup {"SUBMISSION_PENDING", "UNKNOWN"} => Placed(o)'
        /\ orders'[o].state = "CANCELLED" => CancelDelivered(o)'
        /\ orders'[o].state = "REJECTED" => Refused(o)'
        /\ orders'[o].state \notin {"EXPIRED", "FAILED"}
    <3>1. CASE orders'[o].state = orders[o].state
      BY <1>3, <3>1 DEF Evidence
    <3>2. CASE orders'[o].state = reportTarget[report.type]
      BY <1>3, <1>4, <1>7, <3>2 DEF reportTarget, Early
    <3> QED BY <1>1, <3>1, <3>2
  <2> QED BY <2>1, <2>2, <2>3 DEF Evidence
<1>8. CASE \E e \in EventRecords, at \in Times \cup {0} :
             InHand(e) /\ EventBacked(e) /\ e.order = o /\ report = EventReport(e, at) /\ exec = e.exec /\ quantity = e.fill
  <2>1. PICK e \in EventRecords, at \in Times \cup {0} :
          EventBacked(e) /\ e.order = o /\ report = EventReport(e, at)
    BY <1>8
  <2>2. report.id = e.id /\ report.type = e.type /\ report.cum = e.cum
    BY <2>1 DEF EventReport, Report
  <2>3. orders'[o].filled <= book'[o].cum
    BY <1>1, <1>6, <2>1, <2>2 DEF EventBacked
  <2>4. \A n \in Nat : report.id # <<"COORDINATOR", "pending", n>>
    BY <2>1, <2>2 DEF EventBacked
  <2>5. \A n \in Nat : KnownReport(o, <<"COORDINATOR", "pending", n>>)' => n < orders'[o].revision
    BY <1>1, <1>5, <2>4 DEF Evidence
  <2>6. /\ orders'[o].state \notin Early \cup {"SUBMISSION_PENDING", "UNKNOWN"} => Placed(o)'
        /\ orders'[o].state = "CANCELLED" => CancelDelivered(o)'
        /\ orders'[o].state = "REJECTED" => Refused(o)'
        /\ orders'[o].state \notin {"EXPIRED", "FAILED"}
    <3>1. CASE orders'[o].state = orders[o].state
      BY <1>3, <3>1 DEF Evidence
    <3>2. CASE orders'[o].state = reportTarget[report.type]
      BY <1>3, <2>1, <2>2, <3>2 DEF reportTarget, EventBacked, EventTypes
    <3> QED BY <1>1, <3>1, <3>2
  <2> QED BY <2>3, <2>5, <2>6 DEF Evidence
<1> QED BY <1>7, <1>8 DEF Commit, Justified

LEMMA EvidenceKept ==
  ASSUME Control, Control', Grows, Commits, \A o \in Orders : Evidence(o)
  PROVE  \A o \in Orders : Evidence(o)'
<1>1. CASE NoCommit
  BY <1>1, EvidenceStays DEF NoCommit
<1>2. ASSUME NEW o \in Orders, NEW report \in ReportRecords, NEW exec \in Suffixes, NEW quantity \in Nat,
             Commit(o, report, exec, quantity), NEW x \in Orders
      PROVE  Evidence(x)'
  <2>1. CASE x = o
    BY <1>2, <2>1, EvidenceCommitted
  <2>2. CASE x # o
    <3>1. orders'[x] = orders[x] /\ reports'[x] = reports[x]
      BY <1>2, <2>2, CommitApplies DEF Commit, Control
    <3> QED BY <3>1, EvidenceStays
  <2> QED BY <2>1, <2>2
<1> QED BY <1>1, <1>2 DEF Commits

\* What the calls rely on.
WorkerGrounds(w) ==
  /\ call[w].pc = "send" =>
       /\ ~Placed(Leg(w)) /\ orders[Leg(w)].state \notin Early
       /\ \A d \in DependsOn[Leg(w)] : orders[d].state = "FILLED"
  /\ call[w].pc = "accepted" => Placed(Leg(w))
  /\ call[w].pc = "rejected" => Refused(Leg(w))
  /\ \A x \in Orders : call[w].seen[x].state = "FILLED" => orders[x].state = "FILLED"

CancelGrounds == cancel.pc = "reserve" /\ cancel.current.state \in Cancellable => Placed(cancel.order)

\* An order at the broker was submitted after the orders it depends on were filled.
PlacedGrounds(o) ==
  Placed(o) => orders[o].state \notin Early /\ \A d \in DependsOn[o] : orders[d].state = "FILLED"

Grounds ==
  /\ \A o \in Orders : Evidence(o) /\ PlacedGrounds(o)
  /\ \A w \in Workers : WorkerGrounds(w)
  /\ CancelGrounds

LEMMA IdleCommits == ASSUME UNCHANGED storeVars PROVE NoCommit
BY DEF storeVars, NoCommit

LEMMA PublishesCommits ==
  ASSUME NEW o \in Orders, NEW type, NEW key, NEW n, Publishes(o, type, key, n), UNCHANGED brokerVars,
         \/ type \in {"PLANNED", "UNKNOWN"} /\ key # "pending"
         \/ type \in {"SUBMITTED", "CANCEL_PENDING"} /\ Placed(o) /\ key # "pending"
         \/ type = "REJECTED" /\ Refused(o) /\ key # "pending"
         \/ type = "SUBMISSION_PENDING" /\ key = "pending" /\ n = orders[o].revision
  PROVE  Commits
<1>1. PICK report \in ReportRecords :
        report.type = type /\ report.id = <<"COORDINATOR", key, n>> /\ Publication(o, report, "none", 0)
  BY DEF Publishes
<1>2. report.id[1] = "COORDINATOR" /\ report.id[2] = key
  BY <1>1
<1>3. Justified(o, report, "none", 0)
  BY <1>1, <1>2 DEF Justified
<1>4. "none" \in Suffixes
  BY DEF Suffixes
<1> QED BY <1>1, <1>3, <1>4 DEF Commits, Commit

LEMMA EventCommits ==
  ASSUME NEW read, NEW event \in EventRecords, NEW at \in Times \cup {0}, NEW result,
         PublishBrokerEvent(read, event, at, result), InHand(event), EventBacked(event), UNCHANGED brokerVars
  PROVE  Commits
<1>1. CASE UNCHANGED storeVars
  BY <1>1, IdleCommits DEF Commits
<1>2. CASE Publication(event.order, EventReport(event, at), event.exec, event.fill)
  <2>1. event.order \in Orders /\ event.exec \in Suffixes /\ event.fill \in Nat
    BY DEF EventRecords
  <2>2. EventReport(event, at) \in ReportRecords
    BY EventReportTyped
  <2>3. Justified(event.order, EventReport(event, at), event.exec, event.fill)
    BY DEF Justified
  <2> QED BY <1>2, <2>1, <2>2, <2>3 DEF Commits, Commit
<1> QED BY <1>1, <1>2, EventPublished

LEMMA WorkerCommits ==
  ASSUME Control, Grounds, NEW w \in Workers, WorkerEffect(w)
  PROVE  Commits
<1>1. CASE UNCHANGED storeVars
  BY <1>1, IdleCommits DEF Commits
<1>2. CASE PlansLeg(w)
  BY <1>2, PublishesCommits DEF PlansLeg
<1>3. CASE KeepsUnknown(w)
  <2>1. Leg(w) \in Orders
    BY <1>3, LegTyped DEF KeepsUnknown, Holding, Control
  <2> QED BY <1>1, <1>3, <2>1, PublishesCommits DEF KeepsUnknown
<1>4. CASE Releases(w)
  <2>1. Leg(w) \in Orders /\ UNCHANGED brokerVars
    BY <1>4, LegTyped DEF Releases, Control
  <2>2. CASE call[w].pc = "accepted" /\ \E n \in Nat : Publishes(Leg(w), "SUBMITTED", "accepted", n)
    BY <2>1, <2>2, PublishesCommits DEF Grounds, WorkerGrounds
  <2>3. CASE call[w].pc = "rejected" /\ \E n \in Nat : Publishes(Leg(w), "REJECTED", "rejected", n)
    BY <2>1, <2>3, PublishesCommits DEF Grounds, WorkerGrounds
  <2>4. CASE Placed(Leg(w)) /\ \E n \in Nat : Publishes(Leg(w), "SUBMITTED", "recovered", n)
    BY <2>1, <2>4, PublishesCommits
  <2> QED BY <1>1, <1>4, <2>2, <2>3, <2>4 DEF Releases
<1>5. ASSUME NEW o \in Orders, TakesUnknown(w, o) PROVE Commits
  BY <1>1, <1>5, PublishesCommits DEF TakesUnknown
<1>6. ASSUME NEW o \in Orders, TakesPlanned(w, o) PROVE Commits
  BY <1>1, <1>6, PublishesCommits DEF TakesPlanned
<1> QED BY <1>1, <1>2, <1>3, <1>4, <1>5, <1>6 DEF WorkerEffect, Passes, Sends

LEMMA CancelCommits ==
  ASSUME Control, Grounds, CancelEffect
  PROVE  Commits
<1>1. CASE UNCHANGED storeVars
  BY <1>1, IdleCommits DEF Commits
<1>2. CASE CancelTakes
  BY <1>1, <1>2, PublishesCommits DEF CancelTakes, Grounds, CancelGrounds
<1>3. CASE CancelEnds
  BY <1>1, <1>3, PublishesCommits DEF CancelEnds
<1> QED BY <1>1, <1>2, <1>3 DEF CancelEffect, CancelSends

\* Every step publishes nothing or one justified report.
LEMMA StepCommits == ASSUME Control, Grounds, [Next]_vars PROVE Commits
<1>1. CASE UNCHANGED storeVars
  BY <1>1, IdleCommits DEF Commits
<1>2. CASE \E w \in Workers : AcquireSlot(w) \/ WorkerStep(w)
  BY <1>2, WorkerEffects, WorkerCommits DEF Control
<1>3. CASE CancelStep
  BY <1>3, CancelStepEffect, CancelCommits
<1>4. CASE DrainApply
  <2>1. drain.left # <<>> /\ UNCHANGED brokerVars
    BY <1>4 DEF DrainApply, Control, DrainOK
  <2>2. Head(drain.left) \in EventRecords /\ EventBacked(Head(drain.left)) /\ DrainTime \in Times \cup {0}
    BY <2>1, Heads, DrainCaller
  <2>3. InHand(Head(drain.left))
    BY <2>1 DEF InHand
  <2> QED BY <1>4, <2>1, <2>2, <2>3, EventCommits DEF DrainApply
<1>5. CASE RepairApply
  <2>1. recon.events # <<>> /\ UNCHANGED brokerVars
    BY <1>5 DEF RepairApply, Control, ReconOK
  <2>2. Head(recon.events) \in EventRecords /\ EventBacked(Head(recon.events)) /\ recon.at \in Times \cup {0}
    BY <2>1, Heads DEF Control, ReconOK, Recons
  <2>3. InHand(Head(recon.events))
    BY <2>1 DEF InHand
  <2> QED BY <1>5, <2>1, <2>2, <2>3, EventCommits DEF RepairApply
<1>6. CASE Crash
  <2>1. /\ UNCHANGED <<orders, fills>>
        /\ \A o \in Orders : reports'[o] = {[r EXCEPT !.live = FALSE] : r \in reports[o]}
    BY <1>6 DEF Crash
  <2>2. ASSUME NEW o \in Orders, NEW r \in reports[o]
        PROVE  LET s == [r EXCEPT !.live = FALSE] IN s.id = r.id /\ s.at = r.at /\ s.cum = r.cum
    <3>1. r \in RecordedReports
      BY DEF Control, StoreTyped
    <3> QED BY <3>1 DEF RecordedReports
  <2>3. ASSUME NEW o \in Orders, NEW r \in reports'[o]
        PROVE  \E s \in reports[o] : s.id = r.id /\ s.at = r.at /\ s.cum = r.cum
    <3>1. PICK s \in reports[o] : r = [s EXCEPT !.live = FALSE]
      BY <2>1
    <3> QED BY <2>2, <3>1
  <2>4. NoCommit
    BY <2>1, <2>3 DEF NoCommit
  <2> QED BY <2>4 DEF Commits
<1> QED BY <1>1, <1>2, <1>3, <1>4, <1>5, <1>6
        DEF Next, DrainStep, ReconcileStep, ExecutePlan, StartDrain, DrainUnavailable, DrainRead, DrainReserve,
            FinishDrain, RequestCancel, ReconcileSnapshot, ReconcileLocal, ReconcileAdvance, RepairRead,
            RepairReserve, ReconcileRemote, ReconcileOrder, Shutdown, Advance, vars, coordinatorVars

\* No order enters the broker's book.
NoPlace == \A o \in Orders : Placed(o)' => Placed(o)

LEMMA BookIdle == ASSUME UNCHANGED book PROVE NoPlace
BY DEF NoPlace, Placed

LEMMA EventsPlaceNothing == ASSUME BrokerSound, EventsAfter PROVE NoPlace
<1>1. Extends(book, delivered, book', delivered')
  BY EventsAfterStep
<1> QED BY <1>1 DEF Extends, NoPlace, Placed

LEMMA PlacedStays ==
  ASSUME Control, \A o \in Orders : Advances(o), NEW o \in Orders, PlacedGrounds(o), Placed(o)' => Placed(o)
  PROVE  PlacedGrounds(o)'
<1>1. DependsOn[o] \subseteq Orders
  BY CoordinatorAssumption DEF CoordinatorAssumption
<1> QED BY <1>1 DEF PlacedGrounds, Advances

\* A call that did not move keeps its grounds.
LEMMA GroundsStay ==
  ASSUME Control, Grows, \A o \in Orders : Advances(o), NEW w \in Workers, WorkerGrounds(w), call'[w] = call[w],
         call[w].pc = "send" => ~Placed(Leg(w))'
  PROVE  WorkerGrounds(w)'
<1>1. Leg(w)' = Leg(w)
  BY DEF Leg
<1>2. \A x \in Orders : call'[w].seen[x].state = "FILLED" => orders'[x].state = "FILLED"
  BY DEF WorkerGrounds, Advances
<1>3. ASSUME call[w].pc \in Holding
      PROVE  Leg(w) \in Orders /\ DependsOn[Leg(w)] \subseteq Orders
  <2>1. Leg(w) \in Orders
    BY <1>3, LegTyped DEF Control
  <2> QED BY <2>1, CoordinatorAssumption DEF CoordinatorAssumption
<1>4. CASE call[w].pc = "send"
  <2>1. ~Placed(Leg(w))' /\ orders'[Leg(w)].state \notin Early /\ \A d \in DependsOn[Leg(w)] : orders'[d].state = "FILLED"
    BY <1>3, <1>4 DEF WorkerGrounds, Advances, Holding
  <2> QED BY <1>1, <1>2, <1>4, <2>1 DEF WorkerGrounds, Placed
<1>5. CASE call[w].pc \in {"accepted", "rejected"}
  <2>1. (Placed(Leg(w)) => Placed(Leg(w))') /\ (Refused(Leg(w)) => Refused(Leg(w))')
    <3>1. PICK x \in Orders : x = Leg(w)
      BY <1>3, <1>5 DEF Holding
    <3>2. (Placed(x) => Placed(x)') /\ (Refused(x) => Refused(x)')
      BY DEF Grows
    <3> QED BY <1>1, <3>1, <3>2 DEF Placed, Refused, RefusedIn
  <2> QED BY <1>1, <1>2, <1>5, <2>1 DEF WorkerGrounds
<1>6. CASE call[w].pc \notin {"send", "accepted", "rejected"}
  BY <1>2, <1>6 DEF WorkerGrounds
<1> QED BY <1>4, <1>5, <1>6

\* A call that moved on to another step.
LEMMA GroundsMove ==
  ASSUME \A o \in Orders : Advances(o), NEW w \in Workers, WorkerGrounds(w), SeenBacked(w),
         call'[w].pc \notin {"send", "accepted", "rejected"}
  PROVE  WorkerGrounds(w)'
BY DEF WorkerGrounds, SeenBacked, Advances

LEMMA GroundsLeave ==
  ASSUME \A o \in Orders : Advances(o), NEW w \in Workers, WorkerGrounds(w), Leaves(w)
  PROVE  WorkerGrounds(w)'
<1>1. CASE Returns(w)
  <2>1. call'[w].pc = "idle" /\ \A x \in Orders : call'[w].seen[x].state = "CREATED"
    <3>1. IdleCall.pc = "idle" /\ IdleCall.seen = NoOrders
      BY DEF IdleCall
    <3>2. NoOrder.state = "CREATED" /\ \A x \in Orders : NoOrders[x] = NoOrder
      BY DEF NoOrder, NewOrder, NoOrders
    <3> QED BY <1>1, <3>1, <3>2 DEF Returns
  <2> QED BY <2>1 DEF WorkerGrounds
<1>2. CASE \E pc \in PCs \ Holding : Progresses(w, pc)
  <2>1. PICK pc \in PCs \ Holding : Progresses(w, pc)
    BY <1>2
  <2>2. SeenBacked(w) /\ call'[w].pc = pc /\ pc \notin {"send", "accepted", "rejected"}
    BY <2>1, ProgressesHolds DEF Progresses, Holding
  <2> QED BY <2>2, GroundsMove
<1> QED BY <1>1, <1>2 DEF Leaves

\* The steps of a worker keep the grounds.
LEMMA WorkerKeepsGrounds ==
  ASSUME Control, Serial, Grounds, Grows, \A o \in Orders : Advances(o), NEW w \in Workers, WorkerEffect(w)
  PROVE  /\ \A v \in Workers : WorkerGrounds(v)'
         /\ \A o \in Orders : PlacedGrounds(o)'
         /\ UNCHANGED cancel
<1> USE DEF Grounds
<1>1. CASE Sends(w)
  <2> DEFINE x == Leg(w)
  <2>1. /\ call[w].pc = "send" /\ call[w].pc \in Holding /\ UNCHANGED storeVars
        /\ \E pc \in Holding : Progresses(w, pc)
    BY <1>1 DEF Sends, Holding
  <2>2. x \in Orders /\ OnlyCall(w) /\ Leg(w)' = x /\ Holds(w, x) /\ SeenBacked(w)
    BY <2>1, ProgressesHolds, LegTyped, HoldingHolds DEF Control, Progresses
  <2>3. \A o \in Orders : o # x => (Placed(o)' => Placed(o))
    <3>1. CASE UNCHANGED book
      BY <3>1, BookIdle DEF NoPlace
    <3>2. CASE \E result : Submit(x, result)
      BY <2>2, <3>2, SubmitStep DEF Control
    <3> QED BY <1>1, <3>1, <3>2 DEF Sends, SubmitUnavailable, brokerVars
  <2>4. /\ orders[x].state \notin Early /\ ~Placed(x)
        /\ \A d \in DependsOn[x] : orders[d].state = "FILLED"
    BY <2>1 DEF WorkerGrounds
  <2>5. \A o \in Orders : PlacedGrounds(o)'
    <3>1. UNCHANGED orders
      BY <2>1 DEF storeVars
    <3>2. PICK y \in Orders : y = x
      BY <2>2
    <3>3. PlacedGrounds(y)'
      BY <2>4, <3>1, <3>2 DEF PlacedGrounds
    <3> HIDE DEF x
    <3>4. ASSUME NEW o \in Orders PROVE PlacedGrounds(o)'
      <4>1. CASE o = y
        BY <3>3, <4>1
      <4>2. CASE o # y
        BY <2>3, <3>2, <4>2, PlacedStays
      <4> QED BY <4>1, <4>2
    <3> QED BY <3>4
  <2>6. ASSUME NEW v \in Workers, v # w PROVE WorkerGrounds(v)'
    <3>1. call'[v] = call[v]
      BY <2>2, <2>6 DEF OnlyCall
    <3>2. call[v].pc = "send" => Leg(v) \in Orders /\ Leg(v) # x
      <4>1. call[v].pc = "send" => Holds(v, Leg(v)) /\ Leg(v) \in Orders
        BY HoldingHolds, LegTyped DEF Holding, Control
      <4> QED BY <2>2, <2>6, <4>1 DEF Serial
    <3>3. call[v].pc = "send" => ~Placed(Leg(v))'
      <4>1. SUFFICES ASSUME call[v].pc = "send" PROVE ~Placed(Leg(v))'
        OBVIOUS
      <4>2. PICK y \in Orders : y = Leg(v) /\ y # x
        BY <3>2, <4>1
      <4>3. ~Placed(y)'
        BY <2>3, <4>1, <4>2 DEF WorkerGrounds
      <4>4. Leg(v)' = y
        BY <3>1, <4>2 DEF Leg
      <4> QED BY <4>3, <4>4 DEF Placed
    <3> QED BY <3>1, <3>3, GroundsStay
  <2>7. WorkerGrounds(w)'
    <3>1. CASE UNCHANGED book /\ (Progresses(w, "send") \/ Progresses(w, "unknown"))
      <4>1. call'[w].pc \in {"send", "unknown"}
        BY <3>1, ProgressesHolds
      <4>2. book'[x].state = "none" /\ UNCHANGED orders
        BY <2>1, <2>4, <3>1 DEF Placed, storeVars
      <4>3. \A y \in Orders : call'[w].seen[y].state = "FILLED" => orders'[y].state = "FILLED"
        BY <2>2, <4>2 DEF SeenBacked, WorkerGrounds
      <4> HIDE DEF x
      <4> QED BY <2>2, <2>4, <4>1, <4>2, <4>3 DEF WorkerGrounds, Placed
    <3>2. ASSUME NEW result \in {"accepted", "rejected", "unknown"}, Submit(x, result), Progresses(w, result)
          PROVE  WorkerGrounds(w)'
      <4>1. call'[w].pc = result
        BY <3>2, ProgressesHolds
      <4>2. PICK y \in Orders : y = x
        BY <2>2
      <4>4. (result = "accepted" => Placed(y)') /\ (result = "rejected" => Refused(y)')
        BY <2>2, <3>2, <4>2, SubmitStep DEF Control
      <4>3. \A z \in Orders : call'[w].seen[z].state = "FILLED" => orders'[z].state = "FILLED"
        BY <2>1, <2>2 DEF SeenBacked, WorkerGrounds, storeVars
      <4>5. Leg(w)' = y
        BY <2>2, <4>2
      <4>6. (result = "accepted" => Placed(Leg(w))') /\ (result = "rejected" => Refused(Leg(w))')
        BY <4>4, <4>5 DEF Placed, Refused, RefusedIn
      <4> QED BY <4>1, <4>3, <4>6 DEF WorkerGrounds
    <3> QED BY <1>1, <3>1, <3>2 DEF Sends, SubmitUnavailable, brokerVars
  <2> QED BY <2>5, <2>6, <2>7 DEF WorkerEffect, WorkerFrame
<1>2. ASSUME UNCHANGED brokerVars, OnlyCall(w), WorkerGrounds(w)'
      PROVE  (\A v \in Workers : WorkerGrounds(v)') /\ (\A o \in Orders : PlacedGrounds(o)')
  <2>1. NoPlace
    BY <1>2, BookIdle DEF brokerVars
  <2>2. \A o \in Orders : PlacedGrounds(o)'
    BY <2>1, PlacedStays DEF NoPlace
  <2>3. ASSUME NEW v \in Workers, v # w PROVE WorkerGrounds(v)'
    <3>1. call'[v] = call[v]
      BY <1>2, <2>3 DEF OnlyCall
    <3>2. call[v].pc = "send" => ~Placed(Leg(v))'
      BY <1>2, <3>1 DEF WorkerGrounds, Placed, Leg, brokerVars
    <3> QED BY <3>1, <3>2, GroundsStay
  <2> QED BY <1>2, <2>2, <2>3
<1>3. CASE Passes(w) \/ PlansLeg(w) \/ Releases(w)
  <2>1. UNCHANGED brokerVars /\ Leaves(w)
    BY <1>3 DEF Passes, PlansLeg, Releases
  <2> QED BY <1>2, <2>1, GroundsLeave, LeavesHolds DEF WorkerEffect, WorkerFrame
<1>4. ASSUME UNCHANGED brokerVars, NEW pc \in {"recover", "recover-submitted"}, Progresses(w, pc)
      PROVE  (\A v \in Workers : WorkerGrounds(v)') /\ (\A o \in Orders : PlacedGrounds(o)')
  <2>1. OnlyCall(w) /\ call'[w].pc \notin {"send", "accepted", "rejected"} /\ SeenBacked(w)
    BY <1>4, ProgressesHolds DEF Progresses
  <2> QED BY <1>2, <1>4, <2>1, GroundsMove
<1>5. CASE KeepsUnknown(w)
  BY <1>4, <1>5 DEF KeepsUnknown, WorkerEffect, WorkerFrame
<1>6. ASSUME NEW o \in Orders, TakesUnknown(w, o)
      PROVE  (\A v \in Workers : WorkerGrounds(v)') /\ (\A y \in Orders : PlacedGrounds(y)')
  BY <1>2, <1>4, <1>6, GroundsLeave, LeavesHolds DEF TakesUnknown, Leaves
<1>7. ASSUME NEW o \in Orders, TakesPlanned(w, o)
      PROVE  (\A v \in Workers : WorkerGrounds(v)') /\ (\A y \in Orders : PlacedGrounds(y)')
  <2>1. /\ UNCHANGED brokerVars /\ o = Leg(w) /\ orders[o].state = "PLANNED" /\ dependenciesFilled(w, o)
        /\ Progresses(w, "send")
    BY <1>7 DEF TakesPlanned
  <2>2. Publishes(o, "SUBMISSION_PENDING", "pending", orders[o].revision)
    <3>1. ~KnownReport(o, <<"COORDINATOR", "pending", orders[o].revision>>)
      <4>1. orders[o].revision \in Nat
        BY DEF Control, StoreTyped, OrderRecords
      <4> QED BY <4>1 DEF Evidence
    <3> QED BY <1>7, <3>1 DEF TakesPlanned
  <2>3. orders'[o].state = "SUBMISSION_PENDING"
    <3>1. PICK report \in ReportRecords : report.type = "SUBMISSION_PENDING" /\ Publication(o, report, "none", 0)
      BY <2>2 DEF Publishes
    <3>2. orders'[o] = ApplyExecutionReport(orders[o], report)
      BY <3>1, CommitApplies DEF Control
    <3>3. ApplyExecutionReport(orders[o], report).state = NextState(orders[o], report)
      BY AppliedTyped DEF Control, StoreTyped
    <3> QED BY <2>1, <3>1, <3>2, <3>3 DEF NextState, reportTarget, legalTransition
  <2>4. ~Placed(o)
    BY <2>1 DEF PlacedGrounds, Early
  <2>5. \A d \in DependsOn[o] : orders'[d].state = "FILLED"
    <3>1. DependsOn[o] \subseteq Orders
      BY CoordinatorAssumption DEF CoordinatorAssumption
    <3> QED BY <2>1, <3>1 DEF dependenciesFilled, WorkerGrounds, Advances
  <2>6. OnlyCall(w) /\ call'[w].pc = "send" /\ Leg(w)' = o /\ SeenBacked(w)
    BY <2>1, ProgressesHolds DEF Progresses, Holding
  <2>7. \A y \in Orders : call'[w].seen[y].state = "FILLED" => orders'[y].state = "FILLED"
    BY <2>6 DEF SeenBacked, WorkerGrounds, Advances
  <2>8. ~Placed(o)'
    BY <2>1, <2>4 DEF Placed, brokerVars
  <2>9. WorkerGrounds(w)'
    BY <2>3, <2>5, <2>6, <2>7, <2>8 DEF WorkerGrounds, Placed, Early
  <2> QED BY <1>2, <2>1, <2>6, <2>9
<1> QED BY <1>1, <1>3, <1>5, <1>6, <1>7 DEF WorkerEffect, WorkerFrame

\* Steps of other actors: no order is placed, and a call at most leaves.
LEMMA OthersKeepGrounds ==
  ASSUME Control, Grounds, Grows, \A o \in Orders : Advances(o), NoPlace,
         \A v \in Workers : call'[v] = call[v] \/ Leaves(v)
  PROVE  /\ \A v \in Workers : WorkerGrounds(v)'
         /\ \A o \in Orders : PlacedGrounds(o)'
<1> USE DEF Grounds
<1>1. \A o \in Orders : PlacedGrounds(o)'
  BY PlacedStays DEF NoPlace
<1>2. ASSUME NEW v \in Workers PROVE WorkerGrounds(v)'
  <2>1. CASE Leaves(v)
    BY <2>1, GroundsLeave
  <2>2. CASE call'[v] = call[v]
    <3>1. ASSUME call[v].pc = "send" PROVE ~Placed(Leg(v))'
      <4>1. PICK x \in Orders : x = Leg(v)
        BY <3>1, LegTyped DEF Control, Holding
      <4>2. ~Placed(x)'
        BY <3>1, <4>1 DEF WorkerGrounds, NoPlace
      <4>3. Leg(v)' = x
        BY <2>2, <4>1 DEF Leg
      <4> QED BY <4>2, <4>3 DEF Placed
    <3> QED BY <2>2, <3>1, GroundsStay
  <2> QED BY <2>1, <2>2
<1> QED BY <1>1, <1>2

LEMMA CancelGroundsKept ==
  ASSUME Control, Grounds, Grows, UNCHANGED cancel \/ cancel'.pc # "reserve"
  PROVE  CancelGrounds'
<1>1. CASE cancel'.pc # "reserve"
  BY <1>1 DEF CancelGrounds
<1>2. CASE UNCHANGED cancel
  <2>1. ASSUME cancel.pc = "reserve", cancel.current.state \in Cancellable PROVE book'[cancel.order].state # "none"
    <3>1. PICK x \in Orders : x = cancel.order
      BY <2>1 DEF Control, CancelOK
    <3>2. Placed(x)'
      BY <2>1, <3>1 DEF Grounds, CancelGrounds, Grows
    <3> QED BY <3>1, <3>2 DEF Placed
  <2> QED BY <1>2, <2>1 DEF CancelGrounds, Placed
<1> QED BY <1>1, <1>2

\* The callers of DrainEvents.
LEMMA AfterDrainCalls ==
  ASSUME Control, NEW a \in Drainers, NEW ok \in BOOLEAN, AfterDrain(a, ok)
  PROVE  /\ \A v \in Workers : call'[v] = call[v] \/ Leaves(v)
         /\ UNCHANGED cancel \/ cancel'.pc # "reserve"
<1>1. CASE a = "cancel" /\ cancel' = IdleCancel /\ UNCHANGED <<call, planned>>
  BY <1>1 DEF IdleCancel
<1>2. CASE a \in Workers /\ a # "cancel" /\ UNCHANGED cancel /\ Leaves(a)
  BY <1>2, LeavesHolds DEF OnlyCall
<1> QED BY <1>1, <1>2, AfterDrainEffect DEF Control

LEMMA DrainCalls ==
  ASSUME Control,
         \/ \E a \in Drainers : StartDrain(a) \/ DrainUnavailable(a)
         \/ DrainRead \/ DrainReserve \/ DrainApply \/ FinishDrain
  PROVE  /\ \A v \in Workers : call'[v] = call[v] \/ Leaves(v)
         /\ UNCHANGED cancel \/ cancel'.pc # "reserve"
         /\ NoPlace
<1>1. CASE (\E a \in Drainers : StartDrain(a)) \/ DrainRead
  <2>1. UNCHANGED <<call, cancel>>
    BY <1>1 DEF StartDrain, DrainRead
  <2>2. NoPlace
    BY <1>1, EventsPlaceNothing, BookIdle DEF StartDrain, DrainRead, brokerVars, Control
  <2> QED BY <2>1, <2>2
<1>2. CASE ~((\E a \in Drainers : StartDrain(a)) \/ DrainRead)
  <2>1. NoPlace
    BY <1>2, BookIdle DEF DrainUnavailable, DrainReserve, DrainApply, FinishDrain, brokerVars
  <2>2. UNCHANGED <<call, cancel>> \/ \E a \in Drainers, ok \in BOOLEAN : AfterDrain(a, ok)
    <3>1. DrainReserve \/ DrainApply \/ FinishDrain => drain.by \in Drainers
      BY DrainCaller DEF Control, DrainOK, DrainReserve, DrainApply, FinishDrain
    <3> QED BY <1>2, <3>1 DEF DrainUnavailable, DrainReserve, DrainApply, FinishDrain
  <2> QED BY <2>1, <2>2, AfterDrainCalls
<1> QED BY <1>1, <1>2

LEMMA ReconCalls ==
  ASSUME (\E at \in Times : ReconcileSnapshot(at)) \/ ReconcileStep
  PROVE  UNCHANGED <<brokerVars, call, cancel, drain, cursor, planned>>
BY DEF ReconcileSnapshot, ReconcileStep, ReconcileLocal, ReconcileAdvance, RepairRead, RepairReserve, RepairApply,
       ReconcileRemote, ReconcileOrder

LEMMA GroundsStep ==
  ASSUME Control, Serial, Grounds, [Next]_vars
  PROVE  Grounds' /\ Commits
<1>1. Control' /\ Grows /\ Commits
  BY ControlStep, StepCommits
<1>2. \A o \in Orders : Advances(o)
  BY <1>1, CommitsAdvance DEF Control
<1>3. \A o \in Orders : Evidence(o)'
  BY <1>1, EvidenceKept DEF Grounds
<1>4. ASSUME UNCHANGED <<brokerVars, call, cancel>> PROVE Grounds'
  <2>1. NoPlace
    BY <1>4, BookIdle DEF brokerVars
  <2> QED BY <1>1, <1>2, <1>3, <1>4, <2>1, OthersKeepGrounds, CancelGroundsKept DEF Grounds
<1>5. CASE Shutdown \/ UNCHANGED vars \/ (\E at \in Times : ReconcileSnapshot(at)) \/ ReconcileStep
  <2>1. UNCHANGED <<brokerVars, call, cancel>>
    BY <1>5, ReconCalls DEF Shutdown, vars, coordinatorVars
  <2> QED BY <1>1, <1>4, <2>1
<1>6. CASE Advance
  <2>1. NoPlace /\ UNCHANGED <<call, cancel>>
    BY <1>6, BookIdle DEF Advance, Tick, coordinatorVars
  <2> QED BY <1>1, <1>2, <1>3, <2>1, OthersKeepGrounds, CancelGroundsKept DEF Grounds
<1>7. ASSUME NEW w \in Workers, NEW p \in Plans, NEW at \in Times, ExecutePlan(w, p, at) PROVE Grounds'
  <2>1. OnlyCall(w) /\ call'[w].pc = "slot" /\ call'[w].seen = NoOrders /\ UNCHANGED <<brokerVars, cancel>>
    BY <1>7, ExecuteMoves DEF Control, WorkersOK, ExecutePlan, IdleCall
  <2>2. NoPlace
    BY <2>1, BookIdle DEF brokerVars
  <2>3. NoOrder.state = "CREATED" /\ \A x \in Orders : NoOrders[x] = NoOrder
    BY DEF NoOrder, NewOrder, NoOrders
  <2>4. WorkerGrounds(w)'
    BY <2>1, <2>3 DEF WorkerGrounds
  <2>5. ASSUME NEW v \in Workers, v # w PROVE WorkerGrounds(v)'
    <3>1. call'[v] = call[v]
      BY <2>1, <2>5 DEF OnlyCall
    <3>2. call[v].pc = "send" => ~Placed(Leg(v))'
      BY <2>1, <3>1 DEF Grounds, WorkerGrounds, Placed, Leg, brokerVars
    <3> QED BY <1>1, <1>2, <3>1, <3>2, GroundsStay DEF Grounds
  <2>6. \A o \in Orders : PlacedGrounds(o)'
    BY <1>2, <2>2, PlacedStays DEF NoPlace, Grounds
  <2> QED BY <1>1, <1>3, <2>1, <2>4, <2>5, <2>6, CancelGroundsKept DEF Grounds
<1>8. ASSUME NEW o \in Orders, NEW at \in Times, RequestCancel(o, at) PROVE Grounds'
  <2>1. cancel' = [pc |-> "reserve", order |-> o, current |-> orders[o], at |-> at] /\ UNCHANGED <<brokerVars, call>>
    BY <1>8 DEF RequestCancel
  <2>2. orders[o].state \in Cancellable => book'[o].state # "none"
    BY <2>1 DEF Grounds, Evidence, Cancellable, Early, Placed, brokerVars
  <2>3. CancelGrounds'
    BY <2>1, <2>2 DEF CancelGrounds, Placed
  <2>4. NoPlace
    BY <2>1, BookIdle DEF brokerVars
  <2> QED BY <1>1, <1>2, <1>3, <2>1, <2>3, <2>4, OthersKeepGrounds DEF Grounds
<1>9. ASSUME NEW w \in Workers, AcquireSlot(w) \/ WorkerStep(w) PROVE Grounds'
  <2>1. WorkerEffect(w)
    BY <1>9, WorkerEffects DEF Control
  <2> QED BY <1>1, <1>2, <1>3, <2>1, WorkerKeepsGrounds, CancelGroundsKept DEF Grounds
<1>10. CASE CancelStep
  <2>1. CancelEffect
    BY <1>10, CancelStepEffect
  <2>2. UNCHANGED call /\ cancel'.pc # "reserve"
    BY <2>1 DEF CancelEffect, CancelTakes, CancelSends, CancelEnds, IdleCancel
  <2>3. UNCHANGED book
    BY <2>1 DEF CancelEffect, CancelTakes, CancelSends, CancelEnds, CancelAccepted, brokerVars
  <2>4. NoPlace
    BY <2>3, BookIdle
  <2> QED BY <1>1, <1>2, <1>3, <2>2, <2>4, OthersKeepGrounds, CancelGroundsKept DEF Grounds
<1>11. CASE \/ \E a \in Drainers : StartDrain(a) \/ DrainUnavailable(a)
            \/ DrainRead \/ DrainReserve \/ DrainApply \/ FinishDrain
  BY <1>1, <1>2, <1>3, <1>11, DrainCalls, OthersKeepGrounds, CancelGroundsKept DEF Grounds
<1>12. CASE Crash
  <2>1. Idle' /\ UNCHANGED brokerVars
    BY <1>12 DEF Crash, Idle
  <2>2. NoPlace
    BY <2>1, BookIdle DEF brokerVars
  <2>3. \A o \in Orders : PlacedGrounds(o)'
    BY <1>2, <2>2, PlacedStays DEF NoPlace, Grounds
  <2>4. NoOrder.state = "CREATED" /\ \A x \in Orders : NoOrders[x] = NoOrder
    BY DEF NoOrder, NewOrder, NoOrders
  <2>5. ASSUME NEW v \in Workers PROVE WorkerGrounds(v)'
    <3>1. call'[v].pc = "idle" /\ call'[v].seen = NoOrders
      BY <2>1 DEF Idle, IdleCall
    <3> QED BY <2>4, <3>1 DEF WorkerGrounds
  <2>6. CancelGrounds'
    BY <2>1 DEF Idle, IdleCancel, CancelGrounds
  <2> QED BY <1>1, <1>3, <2>3, <2>5, <2>6 DEF Grounds
<1> QED BY <1>1, <1>5, <1>6, <1>7, <1>8, <1>9, <1>10, <1>11, <1>12 DEF Next, DrainStep

LEMMA InitGrounds == Init => Grounds
<1>1. SUFFICES ASSUME Init PROVE Grounds
  OBVIOUS
<1>2. ASSUME NEW o \in Orders PROVE Evidence(o) /\ PlacedGrounds(o)
  <2>1. orders[o].state = "CREATED" /\ orders[o].filled = 0 /\ reports[o] = {}
    BY <1>1 DEF Init, NewOrder
  <2>2. book[o].cum = 0 /\ book[o].state = "none"
    BY <1>1 DEF Init, BrokerInit, NotPlaced
  <2>3. \A n \in Nat : ~KnownReport(o, <<"COORDINATOR", "pending", n>>)
    BY <2>1 DEF KnownReport
  <2> QED BY <2>1, <2>2, <2>3 DEF Evidence, PlacedGrounds, Placed, Early
<1>3. ASSUME NEW v \in Workers PROVE WorkerGrounds(v)
  <2>1. call[v].pc = "idle" /\ call[v].seen = NoOrders
    BY <1>1 DEF Init, IdleCall
  <2>2. NoOrder.state = "CREATED" /\ \A x \in Orders : NoOrders[x] = NoOrder
    BY DEF NoOrder, NewOrder, NoOrders
  <2> QED BY <2>1, <2>2 DEF WorkerGrounds
<1>4. CancelGrounds
  BY <1>1 DEF Init, IdleCancel, CancelGrounds
<1> QED BY <1>2, <1>3, <1>4 DEF Grounds

LEMMA GroundsInvariant == Spec => []Grounds
<1>1. Control /\ Serial /\ Grounds /\ [Next]_vars => Grounds'
  BY GroundsStep
<1> QED BY <1>1, InitGrounds, ControlInvariant, SerialInvariant, PTL DEF Spec

\* No worker is about to submit an order the broker already has, whatever timed out, got
\* lost, failed or restarted before (submit, recoverUnknown).
THEOREM NoOrderIsResubmitted == Spec => []NoResubmission
<1>1. Grounds => NoResubmission
  BY DEF Grounds, WorkerGrounds, NoResubmission
<1> QED BY <1>1, GroundsInvariant, PTL

\* An order is at the broker only once every order it depends on is completely filled
\* in the broker's own book (dependenciesFilled).
THEOREM ProtectionComesFirst == Spec => []SellsAreProtected
<1>1. Control /\ Grounds => SellsAreProtected
  <2>1. SUFFICES ASSUME Control, Grounds, NEW o \in Orders, Placed(o), NEW d \in DependsOn[o]
                 PROVE  book[d].cum = Quantity[d]
    BY DEF SellsAreProtected
  <2>2. d \in Orders
    BY <2>1, CoordinatorAssumption DEF CoordinatorAssumption
  <2>3. orders[d].state = "FILLED"
    BY <2>1 DEF Grounds, PlacedGrounds
  <2>4. ValidOrder(orders[d]) /\ orders[d].quantity = Quantity[d] /\ Quantity[d] \in Nat
    BY <2>1, <2>2, QuantityTyped DEF Control, StoreTyped
  <2>5. orders[d].filled = Quantity[d]
    BY <2>3, <2>4 DEF ValidOrder
  <2>6. orders[d].filled <= book[d].cum /\ book[d].cum <= Quantity[d] /\ book[d].cum \in Nat
    BY <2>1, <2>2 DEF Grounds, Evidence, Control, BrokerSound, Consistent, BrokerTyped, Entries
  <2> QED BY <2>4, <2>5, <2>6
<1> QED BY <1>1, ControlInvariant, GroundsInvariant, PTL

\* The store counts no execution the broker's book does not show, and calls an order
\* filled, cancelled or rejected only on the broker's evidence (PublishBrokerEvent, the
\* publications of submit, and reconciliation).
THEOREM NothingIsInvented == Spec => []BrokerEvidence
<1>1. Control /\ Grounds => BrokerEvidence
  <2>1. SUFFICES ASSUME Control, Grounds, NEW o \in Orders
                 PROVE  /\ orders[o].filled <= book[o].cum
                        /\ orders[o].state \notin {"CREATED", "PLANNED", "SUBMISSION_PENDING", "UNKNOWN"} => Placed(o)
                        /\ orders[o].state = "CANCELLED" => \E i \in DOMAIN delivered :
                             delivered[i].order = o /\ delivered[i].type = "CANCELLED"
                        /\ orders[o].state = "REJECTED" => book[o].state \in {"REJECTED", "CANCELLED"} /\ book[o].cum = 0
    BY DEF BrokerEvidence
  <2>2. Evidence(o)
    BY <2>1 DEF Grounds
  <2>3. DOMAIN delivered = 1..Len(delivered)
    BY <2>1 DEF Control, BrokerSound, BrokerTyped
  <2> QED BY <2>2, <2>3 DEF Evidence, Early, CancelDelivered, Refused, RefusedIn
<1> QED BY <1>1, ControlInvariant, GroundsInvariant, PTL

-----------------------------------------------------------------------------
(* The executions of an order (the store's fills and reports).             *)

\* The cumulative an execution of the scripted broker reaches.
Reaches(o, exec) == IF exec = "partial" THEN Quantity[o] \div 2 ELSE Quantity[o]

Accounts(o) ==
  /\ IsFiniteSet(fills[o])
  /\ orders[o].filled = SumFunction([f \in fills[o] |-> f.quantity])
  /\ \A f \in fills[o] :
       /\ \E cum \in Nat : Delivered(o, f.exec, f.quantity, cum)
       /\ Reaches(o, f.exec) <= orders[o].filled
  /\ \A f, g \in fills[o] : f.exec = g.exec => f = g
  /\ \A r \in reports[o] : r.cum <= orders[o].filled
  /\ \A r \in reports[o], x \in Executed : r.id = <<"BROKER", x, 0>> => Reaches(o, x) <= orders[o].filled

\* An execution the broker delivered.
LEMMA DeliveredReaches ==
  ASSUME BrokerSound, NEW o \in Orders, NEW exec, NEW fill, NEW cum, Delivered(o, exec, fill, cum), fill > 0
  PROVE  cum = Reaches(o, exec) /\ exec \in Executed
<1>1. PICK i \in 1..Len(delivered) :
        delivered[i].order = o /\ delivered[i].exec = exec /\ delivered[i].fill = fill /\ delivered[i].cum = cum
  BY DEF Delivered
<1>2. SoundEvent(delivered[i])
  BY DEF BrokerSound, Consistent
<1> QED BY <1>1, <1>2 DEF SoundEvent, Reaches, Executed

LEMMA AccountsStay ==
  ASSUME Control, Control', Grows, NEW o \in Orders, Accounts(o), orders'[o] = orders[o], fills'[o] = fills[o],
         \A r \in reports'[o] : \E s \in reports[o] : s.id = r.id /\ s.at = r.at /\ s.cum = r.cum
  PROVE  Accounts(o)'
<1>1. \A exec, fill, cum : Delivered(o, exec, fill, cum) => Delivered(o, exec, fill, cum)'
  BY GrowsDelivered DEF Control, BrokerSound
<1>2. \A r \in reports'[o] : r.cum <= orders'[o].filled
  BY DEF Accounts
<1>3. \A r \in reports'[o], x \in Executed : r.id = <<"BROKER", x, 0>> => Reaches(o, x) <= orders'[o].filled
  BY DEF Accounts
<1>4. \A f \in fills'[o] : (\E cum \in Nat : Delivered(o, f.exec, f.quantity, cum)') /\ Reaches(o, f.exec) <= orders'[o].filled
  BY <1>1 DEF Accounts
<1> QED BY <1>2, <1>3, <1>4 DEF Accounts, Reaches, Delivered


\* A committed report counts its execution, and no other.
LEMMA AccountsCommitted ==
  ASSUME Control, Control', Grows, NEW o \in Orders, NEW report \in ReportRecords, NEW exec \in Suffixes, NEW quantity \in Nat,
         Commit(o, report, exec, quantity), Accounts(o)
  PROVE  Accounts(o)'
<1> USE DEF Control
<1>1. /\ orders'[o].filled = report.cum
      /\ report.type \notin {"PARTIAL_FILL", "FILL"} => quantity = 0 /\ report.cum = orders[o].filled
      /\ report.type \in {"PARTIAL_FILL", "FILL"} => quantity > 0 /\ report.cum = orders[o].filled + quantity
      /\ reports'[o] = reports[o] \cup {[id |-> report.id, at |-> report.at, cum |-> report.cum, live |-> TRUE]}
      /\ fills'[o] = fills[o] \cup (IF quantity = 0 THEN {} ELSE {[exec |-> exec, quantity |-> quantity]})
      /\ orders[o].filled \in Nat /\ report.cum \in Nat
      /\ orders[o].filled <= orders'[o].filled
  <2>1. Publication(o, report, exec, quantity)
    BY DEF Commit
  <2>2. orders[o].filled \in Nat /\ report.cum \in Nat
    BY DEF StoreTyped, OrderRecords, ReportRecords
  <2>3. Advances(o)
    BY <2>1, CommitApplies
  <2> QED BY <2>1, <2>2, <2>3, CommitApplies DEF Advances
<1>2. \A e, f, c : Delivered(o, e, f, c) => Delivered(o, e, f, c)'
  BY GrowsDelivered DEF BrokerSound
<1>3. /\ IsFiniteSet(fills[o]) /\ orders[o].filled = SumFunction([f \in fills[o] |-> f.quantity])
      /\ \A f \in fills[o] : (\E cum \in Nat : Delivered(o, f.exec, f.quantity, cum)) /\ Reaches(o, f.exec) <= orders[o].filled
      /\ \A f, g \in fills[o] : f.exec = g.exec => f = g
      /\ \A r \in reports[o] : r.cum <= orders[o].filled
      /\ \A r \in reports[o], x \in Executed : r.id = <<"BROKER", x, 0>> => Reaches(o, x) <= orders[o].filled
  BY DEF Accounts
<1>4. \A x : Reaches(o, x) \in Nat
  BY QuantityTyped DEF Reaches
<1>5. \A r \in reports[o] : r.cum \in Nat
  BY DEF StoreTyped, RecordedReports
<1>6. \A r \in reports'[o] : r.cum <= orders'[o].filled
  BY <1>1, <1>3, <1>5
<1>7. \A f \in fills[o] : (\E cum \in Nat : Delivered(o, f.exec, f.quantity, cum)') /\ Reaches(o, f.exec) <= orders'[o].filled
  BY <1>1, <1>2, <1>3, <1>4
<1>8. \A r \in reports[o], x \in Executed : r.id = <<"BROKER", x, 0>> => Reaches(o, x) <= orders'[o].filled
  BY <1>1, <1>3, <1>4
<1>9. CASE quantity = 0
  <2>1. fills'[o] = fills[o] /\ orders'[o].filled = orders[o].filled
    BY <1>1, <1>9
  <2>2. \A x \in Executed : report.id # <<"BROKER", x, 0>>
    BY <1>1, <1>9 DEF Commit, Justified, EventBacked, EventReport, Report
  <2>3. \A r \in reports'[o], x \in Executed : r.id = <<"BROKER", x, 0>> => Reaches(o, x) <= orders'[o].filled
    BY <1>1, <1>8, <2>2
  <2> QED BY <1>3, <1>6, <1>7, <2>1, <2>3 DEF Accounts, Reaches, Delivered
<1>10. CASE quantity # 0
  <2> DEFINE new == [exec |-> exec, quantity |-> quantity]
    <2>1. PICK e \in EventRecords, at \in Times \cup {0} :
          EventBacked(e) /\ e.order = o /\ report = EventReport(e, at) /\ exec = e.exec /\ quantity = e.fill
    BY <1>10 DEF Commit, Justified
  <2>2. report.id = e.id /\ report.type = e.type /\ report.cum = e.cum /\ e.cum \in Nat
    BY <2>1 DEF EventReport, Report, EventRecords
  <2>3. Delivered(o, exec, quantity, report.cum) /\ (e.id[1] = "BROKER" => e.id = <<"BROKER", exec, 0>>)
    BY <1>10, <2>1, <2>2 DEF EventBacked
  <2>4. report.cum = Reaches(o, exec) /\ exec \in Executed
    BY <1>10, <2>3, DeliveredReaches
  <2>5. quantity > 0 /\ report.cum = orders[o].filled + quantity
    BY <1>1, <1>10
  <2>6. ~Booked(o, exec)
    BY <1>10 DEF Commit, Publication
  <2>7. new \notin fills[o] /\ \A f \in fills[o] : f.exec # exec
    BY <2>6 DEF Booked
  <2>8. fills'[o] = fills[o] \cup {new}
    BY <1>1, <1>10
  <2>9. (\A f \in fills[o] \cup {new} : f.quantity \in Int) /\ new.quantity = quantity
    BY DEF StoreTyped, BookedFills
  <2>10. IsFiniteSet(fills'[o]) /\ orders'[o].filled = SumFunction([f \in fills'[o] |-> f.quantity])
    <3> HIDE DEF new
    <3>1. IsFiniteSet(fills[o])
      BY <1>3
    <3>2. /\ IsFiniteSet(fills[o] \cup {new})
          /\ SumFunction([f \in fills[o] \cup {new} |-> f.quantity]) =
               SumFunction([f \in fills[o] |-> f.quantity]) + new.quantity
      BY <2>7, <2>9, <3>1, SumBooked
    <3> QED BY <1>1, <1>3, <2>5, <2>8, <2>9, <3>2
  <2>11. \A f \in fills'[o] : (\E cum \in Nat : Delivered(o, f.exec, f.quantity, cum)') /\ Reaches(o, f.exec) <= orders'[o].filled
    <3>1. Delivered(o, new.exec, new.quantity, report.cum)' /\ Reaches(o, new.exec) <= orders'[o].filled
      BY <1>1, <1>2, <2>3, <2>4
    <3> HIDE DEF new
    <3> QED BY <1>1, <1>7, <2>8, <3>1
  <2>12. \A f1, f2 \in fills'[o] : f1.exec = f2.exec => f1 = f2
    BY <1>3, <2>7, <2>8
  <2>13. \A r \in reports'[o], x \in Executed : r.id = <<"BROKER", x, 0>> => Reaches(o, x) <= orders'[o].filled
    <3>1. \A x \in Executed : report.id = <<"BROKER", x, 0>> => x = exec
      BY <2>2, <2>3
    <3>2. Reaches(o, exec) <= orders'[o].filled
      BY <1>1, <2>4
    <3> QED BY <1>1, <1>8, <3>1, <3>2
  <2> QED BY <1>6, <2>10, <2>11, <2>12, <2>13 DEF Accounts, Reaches, Delivered
<1> QED BY <1>9, <1>10

LEMMA AccountsKept ==
  ASSUME Control, Control', Grows, Commits, \A o \in Orders : Accounts(o)
  PROVE  \A o \in Orders : Accounts(o)'
<1>1. CASE NoCommit
  BY <1>1, AccountsStay DEF NoCommit
<1>2. ASSUME NEW o \in Orders, NEW report \in ReportRecords, NEW exec \in Suffixes, NEW quantity \in Nat,
             Commit(o, report, exec, quantity), NEW x \in Orders
      PROVE  Accounts(x)'
  <2>1. CASE x = o
    BY <1>2, <2>1, AccountsCommitted
  <2>2. CASE x # o
    <3>1. orders'[x] = orders[x] /\ reports'[x] = reports[x] /\ fills'[x] = fills[x]
      BY <1>2, <2>2, CommitApplies DEF Commit, Control
    <3> QED BY <3>1, AccountsStay
  <2> QED BY <2>1, <2>2
<1> QED BY <1>1, <1>2 DEF Commits

Accounted == \A o \in Orders : Accounts(o)

LEMMA AccountedInvariant == Spec => []Accounted
<1>1. Init => Accounted
  <2>1. SUFFICES ASSUME Init, NEW o \in Orders PROVE Accounts(o)
    BY DEF Accounted
  <2>2. fills[o] = {} /\ reports[o] = {} /\ orders[o].filled = 0
    BY <2>1 DEF Init, NewOrder
  <2>3. IsFiniteSet(fills[o])
    BY <2>2, FS_EmptySet
  <2> DEFINE g == [f \in fills[o] |-> f.quantity]
  <2>4. g \in [fills[o] -> Int]
    BY <2>2
  <2> HIDE DEF g
  <2>5. SumFunction(g) = 0
    BY <2>2, <2>3, <2>4, SumType
  <2> QED BY <2>2, <2>3, <2>5 DEF Accounts, g
<1>2. Control /\ Serial /\ Grounds /\ Accounted /\ [Next]_vars => Accounted'
  BY ControlStep, GroundsStep, AccountsKept DEF Accounted
<1> QED BY <1>1, <1>2, ControlInvariant, SerialInvariant, GroundsInvariant, PTL DEF Spec

\* Every execution of the store is one the broker delivered, is booked once, and they
\* add up to the filled quantity (publish, DrainEvents and reconciliation).
THEOREM EveryExecutionIsBookedOnce == Spec => []ExecutionsBooked
<1>1. Control /\ Accounted => ExecutionsBooked
  <2>1. SUFFICES ASSUME Control, Accounted, NEW o \in Orders
                 PROVE  /\ orders[o].filled = SumFunction([f \in fills[o] |-> f.quantity])
                        /\ \A f \in fills[o] : \E i \in DOMAIN delivered :
                             delivered[i].order = o /\ delivered[i].exec = f.exec /\ delivered[i].fill = f.quantity
                        /\ \A f, g \in fills[o] : f.exec = g.exec => f = g
    BY DEF ExecutionsBooked
  <2>2. Accounts(o)
    BY <2>1 DEF Accounted
  <2>3. DOMAIN delivered = 1..Len(delivered)
    BY <2>1 DEF Control, BrokerSound, BrokerTyped
  <2> QED BY <2>2, <2>3 DEF Accounts, Delivered
<1> QED BY <1>1, ControlInvariant, AccountedInvariant, PTL

-----------------------------------------------------------------------------
(* The event cursor (DrainEvents).                                         *)

\* What was read of an order before it was reserved is never ahead of the store.
UpTo(read, o) == read.filled <= orders[o].filled /\ (read.state = "FILLED" => orders[o].state = "FILLED")

Reads ==
  /\ drain.pc # "read" => UpTo(drain.read, Head(drain.left).order)
  /\ recon.step # "read" => UpTo(recon.read, Head(recon.events).order)

\* How far the stream of events was applied.
Through == IF drain.by = "none" THEN cursor ELSE drain.next - Len(drain.left)

Passed == \A i \in 1..Through : delivered[i].fill > 0 => orders[delivered[i].order].filled >= delivered[i].cum

LEMMA ThroughTyped == ASSUME Control PROVE Through \in cursor..Len(delivered) /\ cursor \in Nat /\ Len(delivered) \in Nat
<1>1. cursor \in 0..Len(delivered) /\ Len(delivered) \in Nat /\ drain.left \in Seq(EventRecords)
  BY DEF Control, DrainOK, Drains, BrokerSound, BrokerTyped
<1>2. CASE drain.by = "none"
  BY <1>1, <1>2 DEF Through
<1>3. CASE drain.by # "none"
  <2>1. drain.next \in cursor..Len(delivered) /\ Len(drain.left) <= drain.next - cursor /\ Len(drain.left) \in Nat
    BY <1>1, <1>3 DEF Control, DrainOK
  <2> QED BY <1>1, <1>3, <2>1 DEF Through
<1> QED BY <1>2, <1>3

\* An event with an execution that PublishBrokerEvent accepted is in the store, as
\* published now, recorded before, or overtaken.
LEMMA EventDone ==
  ASSUME Control, Accounted, NEW event \in EventRecords, EventBacked(event), event.fill > 0,
         NEW read \in OrderRecords, UpTo(read, event.order), NEW at \in Times \cup {0}, NEW result,
         PublishBrokerEvent(read, event, at, result), result # "error",
         event.id[1] = "BROKER" \/ result # "collision"
  PROVE  orders'[event.order].filled >= event.cum
<1> DEFINE o == event.order
           report == EventReport(event, at)
<1>0. o \in Orders /\ event.cum \in Nat /\ event.fill \in Nat /\ event.exec \in Suffixes
  BY DEF EventRecords
<1>1. orders[o].filled \in Nat /\ read.filled \in Nat /\ Quantity[o] \in Nat /\ ValidOrder(orders[o]) /\ orders[o].quantity = Quantity[o]
  BY <1>0, QuantityTyped DEF Control, StoreTyped, OrderRecords
<1>2. report.id = event.id /\ report.cum = event.cum
  BY DEF EventReport, Report
<1>3. report \in ReportRecords
  BY EventReportTyped
<1>4. event.cum = Reaches(o, event.exec) /\ event.exec \in Executed
  BY <1>0, DeliveredReaches DEF EventBacked, Control
<1>5. Accounts(o)
  BY <1>0 DEF Accounted
<1>6. event.cum <= Quantity[o]
  <2>1. book[o].cum \in Nat /\ book[o].cum <= Quantity[o] /\ event.cum <= book[o].cum
    BY <1>0 DEF Control, BrokerSound, BrokerTyped, Consistent, Entries, EventBacked
  <2> QED BY <1>0, <1>1, <2>1
<1> HIDE DEF o
<1>7. ASSUME UNCHANGED storeVars, orders[o].filled >= event.cum PROVE orders'[o].filled >= event.cum
  BY <1>7 DEF storeVars
<1>8. CASE KnownReport(o, report.id)
  <2>1. UNCHANGED storeVars /\ result = IF SameReport(o, report) THEN "duplicate" ELSE "collision"
    BY <1>8 DEF PublishBrokerEvent, o
  <2>2. CASE event.id[1] = "BROKER"
    <3>1. report.id = <<"BROKER", event.exec, 0>>
      BY <1>2, <2>2 DEF EventBacked
    <3>2. PICK r \in reports[o] : r.id = <<"BROKER", event.exec, 0>>
      BY <1>8, <3>1 DEF KnownReport
    <3>3. Reaches(o, event.exec) <= orders[o].filled
      BY <1>4, <1>5, <3>2 DEF Accounts
    <3> QED BY <1>0, <1>1, <1>4, <1>7, <2>1, <3>3 DEF o
  <2>3. CASE event.id[1] # "BROKER"
    <3>1. SameReport(o, report)
      BY <2>1, <2>3
    <3>2. PICK r \in reports[o] : r.cum = event.cum
      BY <1>2, <3>1 DEF SameReport
    <3>3. event.cum <= orders[o].filled
      BY <1>5, <3>2 DEF Accounts
    <3> QED BY <1>0, <1>1, <1>7, <2>1, <3>3 DEF o
  <2> QED BY <2>2, <2>3
<1>9. CASE ~KnownReport(o, report.id) /\ staleBrokerEvent(read, event)
  <2>1. UNCHANGED storeVars
    BY <1>9 DEF PublishBrokerEvent, o
  <2>2. read.filled <= orders[o].filled /\ (read.state = "FILLED" => orders[o].state = "FILLED")
    BY DEF UpTo, o
  <2>3. event.type \in {"PARTIAL_FILL", "FILL"}
    BY DEF EventBacked
  <2>4. orders[o].filled >= event.cum
    <3>1. CASE event.cum < read.filled
      BY <1>0, <1>1, <2>2, <3>1
    <3>2. CASE read.state = "FILLED"
      <4>1. orders[o].filled = Quantity[o]
        BY <1>1, <2>2, <3>2 DEF ValidOrder
      <4> QED BY <1>0, <1>1, <1>6, <4>1
    <3> QED BY <1>9, <2>3, <3>1, <3>2 DEF staleBrokerEvent
  <2> QED BY <1>7, <2>1, <2>4 DEF o
<1>10. CASE ~KnownReport(o, report.id) /\ ~staleBrokerEvent(read, event)
  <2>1. publish(o, report, event.exec, event.fill, result)
    BY <1>10 DEF PublishBrokerEvent, o
  <2> HIDE DEF report
  <2>2. CASE result = "published"
    <3>1. Publication(o, report, event.exec, event.fill)
      BY <2>1, <2>2, PublishCases
    <3>2. orders'[o].filled = report.cum
      BY <1>0, <1>3, <3>1, CommitApplies DEF Control, o
    <3> QED BY <1>0, <1>2, <3>2 DEF o
  <2>3. CASE result # "published"
    <3>1. UNCHANGED storeVars /\ result = PublishResult(o, report, event.exec, event.fill)
      BY <2>1, <2>3 DEF publish
    <3>2. Booked(o, event.exec)
      BY <1>10, <2>3, <3>1 DEF PublishResult
    <3>3. PICK f \in fills[o] : f.exec = event.exec
      BY <3>2 DEF Booked
    <3>4. Reaches(o, event.exec) <= orders[o].filled
      BY <1>5, <3>3 DEF Accounts
    <3> QED BY <1>0, <1>1, <1>4, <1>7, <3>1, <3>4 DEF o
  <2> QED BY <2>2, <2>3
<1> QED BY <1>8, <1>9, <1>10

\* Whatever was passed stays in the store.
LEMMA PassedKept ==
  ASSUME Control, Control', Grows, \A o \in Orders : Advances(o), Passed, Through' <= Through
  PROVE  Passed'
<1>1. /\ Through \in Nat /\ Through' \in Nat /\ Through <= Len(delivered) /\ Len(delivered) \in Nat
  <2>1. (Through \in cursor..Len(delivered) /\ cursor \in Nat /\ Len(delivered) \in Nat)
    BY ThroughTyped
  <2>2. (Through \in cursor..Len(delivered) /\ cursor \in Nat /\ Len(delivered) \in Nat)'
    BY ThroughTyped, PTL
  <2> QED BY <2>1, <2>2
<1>2. ASSUME NEW i \in 1..Through', delivered'[i].fill > 0
      PROVE  orders'[delivered'[i].order].filled >= delivered'[i].cum
  <2>1. i \in 1..Through /\ i \in 1..Len(delivered)
    BY <1>1
  <2>2. delivered'[i] = delivered[i] /\ delivered[i] \in EventRecords
    BY <2>1 DEF Grows, Control, BrokerSound, BrokerTyped
  <2>3. delivered[i].order \in Orders /\ delivered[i].cum \in Nat
    BY <2>2 DEF EventRecords
  <2>4. orders[delivered[i].order].filled >= delivered[i].cum
    BY <1>2, <2>1, <2>2 DEF Passed
  <2>5. orders[delivered[i].order].filled <= orders'[delivered[i].order].filled
    BY <2>3 DEF Advances
  <2>6. orders[delivered[i].order].filled \in Nat /\ orders'[delivered[i].order].filled \in Nat
    BY <2>3 DEF Control, StoreTyped, OrderRecords
  <2> QED BY <2>2, <2>3, <2>4, <2>5, <2>6
<1> QED BY <1>2 DEF Passed

\* What a step does to the drain: it ends without moving the cursor on, starts, reads
\* the order of the next event, takes it, applies it, or ends after the whole batch.
DrainStops == drain' = IdleDrain /\ cursor' \in {0, cursor}
DrainKeeps == UNCHANGED <<drain, cursor>>

LEMMA DrainMoves ==
  ASSUME Control, [Next]_vars
  PROVE  \/ DrainStops \/ DrainKeeps
         \/ \E a \in Drainers : StartDrain(a)
         \/ DrainRead
         \/ drain.pc = "reserve" /\ drain' = [drain EXCEPT !.pc = "apply"] /\ UNCHANGED cursor
         \/ DrainApply /\ drain' # IdleDrain
         \/ FinishDrain
<1>1. CASE Shutdown \/ Advance \/ UNCHANGED vars
  BY <1>1 DEF Shutdown, Advance, vars, coordinatorVars, DrainKeeps
<1>2. CASE Crash
  BY <1>2 DEF Crash, DrainStops
<1>3. ASSUME NEW w \in Workers, NEW p \in Plans, NEW at \in Times, ExecutePlan(w, p, at) PROVE DrainKeeps
  BY <1>3 DEF ExecutePlan, DrainKeeps
<1>4. ASSUME NEW o \in Orders, NEW at \in Times, RequestCancel(o, at) PROVE DrainKeeps
  BY <1>4 DEF RequestCancel, DrainKeeps
<1>5. ASSUME NEW w \in Workers, AcquireSlot(w) \/ WorkerStep(w) PROVE DrainKeeps
  BY <1>5, WorkerEffects DEF Control, WorkerEffect, WorkerFrame, DrainKeeps
<1>6. CASE CancelStep
  BY <1>6, CancelStepEffect DEF CancelEffect, DrainKeeps
<1>7. CASE (\E at \in Times : ReconcileSnapshot(at)) \/ ReconcileStep
  BY <1>7 DEF ReconcileSnapshot, ReconcileStep, ReconcileLocal, ReconcileAdvance, RepairRead, RepairReserve, RepairApply,
              ReconcileRemote, ReconcileOrder, DrainKeeps
<1>8. ASSUME NEW a \in Drainers, DrainUnavailable(a) PROVE DrainKeeps
  BY <1>8 DEF DrainUnavailable, DrainKeeps
<1>9. CASE DrainReserve
  BY <1>9 DEF DrainReserve, DrainStops
<1>10. CASE DrainApply
  BY <1>10 DEF DrainApply, DrainStops
<1> QED BY <1>1, <1>2, <1>3, <1>4, <1>5, <1>6, <1>7, <1>8, <1>9, <1>10 DEF Next, DrainStep

LEMMA UpToKept ==
  ASSUME StoreTyped, StoreTyped', NEW read \in OrderRecords, NEW o \in Orders, Advances(o), UpTo(read, o)
  PROVE  UpTo(read, o)'
<1>1. read.filled \in Nat /\ orders[o].filled \in Nat /\ orders'[o].filled \in Nat
  BY DEF StoreTyped, OrderRecords
<1> QED BY <1>1 DEF UpTo, Advances

LEMMA DrainReads ==
  ASSUME Control, Control', \A o \in Orders : Advances(o), Reads, [Next]_vars
  PROVE  drain'.pc # "read" => UpTo(drain.read, Head(drain.left).order)'
<1> USE DEF Control
<1>1. drain \in Drains /\ drain.read \in OrderRecords /\ IdleDrain.pc = "read"
  BY DEF DrainOK, Drains, IdleDrain
<1>2. ASSUME drain.pc # "read", drain'.left = drain.left, drain'.read = drain.read
      PROVE  UpTo(drain.read, Head(drain.left).order)'
  <2>1. drain.left # <<>>
    BY <1>2 DEF DrainOK
  <2>2. PICK o \in Orders : o = Head(drain.left).order
    BY <2>1, Heads DEF EventRecords
  <2>3. PICK r \in OrderRecords : r = drain.read
    BY <1>1
  <2>4. UpTo(r, o)
    BY <1>2, <2>2, <2>3 DEF Reads
  <2>5. UpTo(r, o)'
    BY <2>4, UpToKept
  <2> QED BY <1>2, <2>2, <2>3, <2>5
<1>3. CASE DrainStops \/ (\E a \in Drainers : StartDrain(a)) \/ FinishDrain
  BY <1>1, <1>3 DEF DrainStops, StartDrain, FinishDrain, IdleDrain
<1>4. CASE DrainKeeps
  BY <1>2, <1>4 DEF DrainKeeps
<1>5. CASE DrainRead
  <2>1. drain.left # <<>> /\ drain' = [drain EXCEPT !.pc = "reserve", !.read = orders[Head(drain.left).order]]
    BY <1>5 DEF DrainRead
  <2>2. drain'.read = orders[Head(drain.left).order] /\ drain'.left = drain.left
    BY <1>1, <2>1 DEF Drains
  <2>3. PICK o \in Orders : o = Head(drain.left).order
    BY <2>1, Heads DEF EventRecords
  <2>4. orders' = orders /\ orders[o].filled \in Nat
    BY <1>5 DEF DrainRead, storeVars, StoreTyped, OrderRecords
  <2> QED BY <2>2, <2>3, <2>4 DEF UpTo
<1>6. CASE drain.pc = "reserve" /\ drain' = [drain EXCEPT !.pc = "apply"] /\ UNCHANGED cursor
  BY <1>1, <1>2, <1>6 DEF Drains
<1>7. CASE DrainApply /\ drain' # IdleDrain
  <2>1. drain' = [drain EXCEPT !.pc = "read", !.read = NoOrder, !.left = Tail(@)]
    BY <1>7 DEF DrainApply
  <2> QED BY <1>1, <2>1 DEF Drains
<1> QED BY <1>3, <1>4, <1>5, <1>6, <1>7, DrainMoves

LEMMA ReconMoves ==
  ASSUME Control, [Next]_vars
  PROVE  UNCHANGED recon \/ Crash \/ (\E at \in Times : ReconcileSnapshot(at)) \/ ReconcileStep
<1>1. CASE Shutdown \/ Advance \/ UNCHANGED vars
  BY <1>1 DEF Shutdown, Advance, vars, coordinatorVars
<1>3. ASSUME NEW w \in Workers, NEW p \in Plans, NEW at \in Times, ExecutePlan(w, p, at) PROVE UNCHANGED recon
  BY <1>3 DEF ExecutePlan
<1>4. ASSUME NEW o \in Orders, NEW at \in Times, RequestCancel(o, at) PROVE UNCHANGED recon
  BY <1>4 DEF RequestCancel
<1>5. ASSUME NEW w \in Workers, AcquireSlot(w) \/ WorkerStep(w) PROVE UNCHANGED recon
  BY <1>5, WorkerEffects DEF Control, WorkerEffect, WorkerFrame
<1>6. CASE CancelStep
  BY <1>6, CancelStepEffect DEF CancelEffect
<1>7. ASSUME NEW a \in Drainers, StartDrain(a) \/ DrainUnavailable(a) PROVE UNCHANGED recon
  BY <1>7 DEF StartDrain, DrainUnavailable
<1>8. CASE DrainStep
  BY <1>8 DEF DrainStep, DrainRead, DrainReserve, DrainApply, FinishDrain
<1> QED BY <1>1, <1>3, <1>4, <1>5, <1>6, <1>7, <1>8 DEF Next

LEMMA ReconReads ==
  ASSUME Control, Control', \A o \in Orders : Advances(o), Reads, [Next]_vars
  PROVE  recon'.step # "read" => UpTo(recon.read, Head(recon.events).order)'
<1> USE DEF Control
<1>1. recon \in Recons /\ recon.read \in OrderRecords /\ IdleRecon.step = "read"
  BY DEF ReconOK, Recons, IdleRecon
<1>2. ASSUME recon.step # "read", recon'.events = recon.events, recon'.read = recon.read
      PROVE  UpTo(recon.read, Head(recon.events).order)'
  <2>1. recon.events # <<>>
    BY <1>2 DEF ReconOK
  <2>2. PICK o \in Orders : o = Head(recon.events).order
    BY <2>1, Heads DEF EventRecords
  <2>3. PICK r \in OrderRecords : r = recon.read
    BY <1>1
  <2>4. UpTo(r, o)
    BY <1>2, <2>2, <2>3 DEF Reads
  <2>5. UpTo(r, o)'
    BY <2>4, UpToKept
  <2> QED BY <1>2, <2>2, <2>3, <2>5
<1>3. CASE UNCHANGED recon
  BY <1>2, <1>3
<1>4. CASE \E at \in Times : ReconcileSnapshot(at)
  BY <1>4 DEF ReconcileSnapshot, IdleRecon
<1>5. CASE ReconcileLocal \/ ReconcileAdvance \/ \E o \in Orders : ReconcileRemote(o) \/ ReconcileOrder(o)
  <2>1. CASE ReconcileLocal
    BY <1>1, <1>2, <2>1 DEF ReconcileLocal, Recons
  <2>2. CASE ReconcileAdvance
    <3>1. CASE recon' = IdleRecon
      BY <1>1, <3>1
    <3>2. CASE recon' = [recon EXCEPT !.pc = "orders", !.todo = {o \in Orders : recon.local[o] # NoOrder}]
      BY <1>1, <1>2, <3>2 DEF Recons
    <3> QED BY <2>2, <3>1, <3>2 DEF ReconcileAdvance
  <2>3. CASE \E o \in Orders : ReconcileRemote(o) \/ ReconcileOrder(o)
    <3>1. recon.events = <<>> /\ \E o : (\E blocked : Skip(o, blocked)) \/ (\E local : Repair(o, local))
      BY <2>3 DEF ReconcileRemote, ReconcileOrder
    <3>2. recon'.step = recon.step
      BY <1>1, <3>1 DEF Skip, Repair, Recons
    <3>3. recon.step = "read"
      BY <1>1, <3>1 DEF ReconOK
    <3> QED BY <3>2, <3>3
  <2> QED BY <1>5, <2>1, <2>2, <2>3
<1>6. CASE RepairRead
  <2>1. recon.events # <<>> /\ recon' = [recon EXCEPT !.step = "reserve", !.read = orders[Head(recon.events).order]]
    BY <1>6 DEF RepairRead
  <2>2. recon'.read = orders[Head(recon.events).order] /\ recon'.events = recon.events
    BY <1>1, <2>1 DEF Recons
  <2>3. PICK o \in Orders : o = Head(recon.events).order
    BY <2>1, Heads DEF EventRecords
  <2>4. orders' = orders /\ orders[o].filled \in Nat
    BY <1>6 DEF RepairRead, storeVars, StoreTyped, OrderRecords
  <2> QED BY <2>2, <2>3, <2>4 DEF UpTo
<1>7. CASE RepairReserve
  <2>1. recon.step = "reserve"
    BY <1>7 DEF RepairReserve
  <2>2. CASE RepairFails
    BY <1>1, <2>2 DEF RepairFails, Recons
  <2>3. CASE recon' = [recon EXCEPT !.step = "apply"]
    BY <1>1, <1>2, <2>1, <2>3 DEF Recons
  <2> QED BY <1>7, <2>2, <2>3 DEF RepairReserve
<1>8. CASE RepairApply
  <2>1. CASE RepairFails
    BY <1>1, <2>1 DEF RepairFails, Recons
  <2>2. CASE recon' = [recon EXCEPT !.step = "read", !.read = NoOrder, !.events = Tail(@)]
    BY <1>1, <2>2 DEF Recons
  <2> QED BY <1>8, <2>1, <2>2 DEF RepairApply
<1>9. CASE Crash
  BY <1>1, <1>9 DEF Crash
<1> QED BY <1>3, <1>4, <1>5, <1>6, <1>7, <1>8, <1>9, ReconMoves DEF ReconcileStep

\* The next event is applied: one more event is through, and its execution is in the store.
LEMMA ApplyPasses ==
  ASSUME Control, Control', Grows, \A o \in Orders : Advances(o), Accounted, Reads, Passed,
         DrainApply, drain' # IdleDrain
  PROVE  Passed'
<1> USE DEF Control
<1> DEFINE event == Head(drain.left)
           k == drain.next - Len(drain.left) + 1
<1>1. drain.pc = "apply" /\ drain.left # <<>> /\ UNCHANGED <<brokerVars, cursor>>
  BY DEF DrainApply, DrainOK
<1>2. PICK result \in EventResults :
        /\ PublishBrokerEvent(drain.read, event, DrainTime, result) /\ result # "error"
        /\ drain' = [drain EXCEPT !.pc = "read", !.read = NoOrder, !.left = Tail(@)]
  BY DEF DrainApply
<1>3. /\ event \in EventRecords /\ EventBacked(event) /\ event = delivered[k] /\ k \in (cursor + 1)..drain.next
      /\ drain.next \in cursor..Len(delivered) /\ drain.by \in Drainers /\ DrainTime \in Times \cup {0}
  BY <1>1, Heads, DrainCaller
<1>4. drain.by # "none" /\ drain.left \in Seq(EventRecords) /\ drain.read \in OrderRecords /\ drain \in Drains
  BY <1>1 DEF DrainOK, Drains
<1>5. drain'.by = drain.by /\ drain'.next = drain.next /\ drain'.left = Tail(drain.left)
  BY <1>2, <1>4 DEF Drains
<1>6. Len(Tail(drain.left)) = Len(drain.left) - 1 /\ Len(drain.left) \in Nat
  BY <1>1, <1>4, HeadTailProperties
<1>7. Through \in Nat /\ drain.next \in Nat /\ Through = drain.next - Len(drain.left)
  BY <1>4, ThroughTyped DEF Through, DrainOK, Drains
<1>8. Through' = Through + 1 /\ k = Through + 1
  <2>1. Through' = drain.next - (Len(drain.left) - 1)
    BY <1>4, <1>5, <1>6 DEF Through
  <2> QED BY <1>6, <1>7, <2>1
<1>9. event.fill > 0 => orders'[event.order].filled >= event.cum
  <2>1. ASSUME event.fill > 0 PROVE orders'[event.order].filled >= event.cum
    <3>1. UpTo(drain.read, event.order)
      BY <1>1 DEF Reads
    <3>2. event.id[1] = "BROKER"
      <4>1. k \in 1..Len(delivered)
        BY <1>3, ThroughTyped
      <4>2. SoundEvent(delivered[k])
        BY <4>1 DEF BrokerSound, Consistent
      <4> HIDE DEF k
      <4> QED BY <1>3, <4>2 DEF SoundEvent
    <3> HIDE DEF event
    <3> QED BY <1>2, <1>3, <1>4, <2>1, <3>1, <3>2, EventDone
  <2> QED BY <2>1
<1> HIDE DEF event, k
<1>10. ASSUME NEW i \in 1..Through', delivered'[i].fill > 0
       PROVE  orders'[delivered'[i].order].filled >= delivered'[i].cum
  <2>1. delivered' = delivered
    BY <1>1 DEF brokerVars
  <2>2. CASE i = k
    BY <1>3, <1>9, <1>10, <2>1, <2>2
  <2>3. CASE i # k
    <3>1. i \in 1..Through /\ i \in 1..Len(delivered)
      BY <1>7, <1>8, <2>3, ThroughTyped
    <3>2. orders[delivered[i].order].filled >= delivered[i].cum
      BY <1>10, <2>1, <3>1 DEF Passed
    <3>3. delivered[i] \in EventRecords
      BY <3>1 DEF BrokerSound, BrokerTyped
    <3>4. delivered[i].order \in Orders /\ delivered[i].cum \in Nat
      BY <3>3 DEF EventRecords
    <3>5. orders[delivered[i].order].filled \in Nat /\ orders'[delivered[i].order].filled \in Nat
      BY <3>4 DEF StoreTyped, OrderRecords
    <3>6. orders[delivered[i].order].filled <= orders'[delivered[i].order].filled
      BY <3>4 DEF Advances
    <3> QED BY <2>1, <3>2, <3>4, <3>5, <3>6
  <2> QED BY <2>2, <2>3
<1> QED BY <1>10 DEF Passed

\* The batch starts at the cursor.
LEMMA StartThrough ==
  ASSUME Control, Control', NEW a \in Drainers, StartDrain(a)
  PROVE  Through' <= Through
<1> DEFINE until == cursor + EventBatchSize
           next == IF until > Len(delivered') THEN Len(delivered') ELSE until
           left == SubSeq(delivered', cursor + 1, next)
<1>1. /\ drain = IdleDrain /\ drain' = [IdleDrain EXCEPT !.by = a, !.next = next, !.left = left]
      /\ UNCHANGED cursor
  BY DEF StartDrain
<1>2. /\ Len(delivered') \in Nat /\ delivered' \in Seq(EventRecords) /\ cursor \in 0..Len(delivered')
      /\ EventBatchSize \in Nat \ {0}
  <2>1. cursor' = cursor
    BY <1>1
  <2>3. EventBatchSize \in Nat \ {0}
    BY CoordinatorAssumption DEF CoordinatorAssumption
  <2>2. cursor' \in 0..Len(delivered') /\ delivered' \in Seq(EventRecords)
    BY DEF Control, DrainOK, BrokerSound, BrokerTyped
  <2> QED BY <2>1, <2>2, <2>3
<1>3. next \in cursor..Len(delivered')
  BY <1>2
<1> HIDE DEF next
<1>4. Len(left) = next - cursor
  <2>1. CASE cursor + 1 <= next
    <3>1. Len(left) = next - (cursor + 1) + 1
      BY <1>2, <1>3, <2>1
    <3> QED BY <1>2, <1>3, <3>1
  <2>2. CASE ~(cursor + 1 <= next)
    <3>1. next = cursor
      BY <1>2, <1>3, <2>2
    <3>2. left = <<>>
      BY <1>2, <3>1
    <3> QED BY <1>2, <3>1, <3>2
  <2> QED BY <2>1, <2>2
<1> HIDE DEF left
<1>5. drain.by = "none" /\ drain'.by = a /\ drain'.next = next /\ drain'.left = left
  BY <1>1 DEF IdleDrain
<1>6. a # "none"
  BY CoordinatorAssumption DEF CoordinatorAssumption, Drainers
<1>7. Through = cursor /\ Through' = next - Len(left)
  BY <1>5, <1>6 DEF Through
<1> QED BY <1>2, <1>3, <1>4, <1>7

LEMMA CursorStep ==
  ASSUME Control, Control', Grows, \A o \in Orders : Advances(o), Accounted, Reads, Passed, [Next]_vars
  PROVE  Reads' /\ Passed'
<1>0. Reads'
  BY DrainReads, ReconReads DEF Reads
<1>1. Through \in cursor..Len(delivered) /\ cursor \in Nat /\ drain \in Drains
  BY ThroughTyped DEF Control, DrainOK
<1>2. CASE DrainStops
  <2>1. Through' = cursor' /\ cursor' \in {0, cursor}
    BY <1>2 DEF DrainStops, Through, IdleDrain
  <2>2. Through' <= Through
    BY <1>1, <2>1
  <2> QED BY <1>0, <2>2, PassedKept
<1>3. CASE DrainKeeps
  <2>1. Through' <= Through
    BY <1>1, <1>3 DEF DrainKeeps, Through
  <2> QED BY <1>0, <2>1, PassedKept
<1>4. CASE \E a \in Drainers : StartDrain(a)
  BY <1>0, <1>4, StartThrough, PassedKept
<1>5. CASE DrainRead \/ (drain.pc = "reserve" /\ drain' = [drain EXCEPT !.pc = "apply"] /\ UNCHANGED cursor)
  <2>1. drain'.by = drain.by /\ drain'.left = drain.left /\ drain'.next = drain.next /\ UNCHANGED cursor
    BY <1>1, <1>5 DEF DrainRead, Drains
  <2>2. Through' <= Through
    BY <1>1, <2>1 DEF Through
  <2> QED BY <1>0, <2>2, PassedKept
<1>6. CASE DrainApply /\ drain' # IdleDrain
  BY <1>0, <1>6, ApplyPasses
<1>7. CASE FinishDrain
  <2>1. drain.by # "none" /\ drain.left = <<>> /\ cursor' = drain.next /\ drain' = IdleDrain
    BY <1>7 DEF FinishDrain
  <2>2. Through' = drain.next /\ Through = drain.next - 0 /\ drain.next \in Nat
    BY <1>1, <2>1 DEF Through, IdleDrain, Drains
  <2>3. Through' <= Through
    BY <2>2
  <2> QED BY <1>0, <2>3, PassedKept
<1> QED BY <1>2, <1>3, <1>4, <1>5, <1>6, <1>7, DrainMoves

Follows == Reads /\ Passed

LEMMA FollowsInvariant == Spec => []Follows
<1>1. Init => Follows
  BY DEF Init, Follows, Reads, Passed, Through, IdleDrain, IdleRecon
<1>2. Control /\ Serial /\ Grounds /\ Accounted /\ Follows /\ [Next]_vars => Follows'
  <2>1. SUFFICES ASSUME Control, Serial, Grounds, Accounted, Follows, [Next]_vars PROVE Follows'
    OBVIOUS
  <2>2. Control' /\ Grows /\ Commits
    BY <2>1, ControlStep, GroundsStep
  <2>3. \A o \in Orders : Advances(o)
    BY <2>1, <2>2, CommitsAdvance DEF Control
  <2> QED BY <2>1, <2>2, <2>3, CursorStep DEF Follows
<1> QED BY <1>1, <1>2, ControlInvariant, SerialInvariant, GroundsInvariant, AccountedInvariant, PTL DEF Spec

\* The coordinator's state keeps its types, every order in work has one holder that
\* reserved it (reserveOrder), and the event cursor never passes an execution that is
\* not in the store (DrainEvents), for every number of orders, plans and workers.
THEOREM CoordinatorHolds == Spec => []CoordinatorInv
<1>1. Control /\ Follows => CursorSkipsNoFill
  <2>1. SUFFICES ASSUME Control, Follows, NEW i \in 1..cursor, delivered[i].fill > 0
                 PROVE  orders[delivered[i].order].filled >= delivered[i].cum
    BY DEF CursorSkipsNoFill
  <2>2. Through \in cursor..Len(delivered) /\ cursor \in Nat /\ Len(delivered) \in Nat
    BY <2>1, ThroughTyped
  <2>3. i \in 1..Through
    BY <2>2
  <2> QED BY <2>1, <2>3 DEF Follows, Passed
<1>2. Control /\ Serial /\ Follows => CoordinatorInv
  BY <1>1, ControlTypes, SerialOneHolder DEF CoordinatorInv
<1> QED BY <1>2, ControlInvariant, SerialInvariant, FollowsInvariant, PTL

-----------------------------------------------------------------------------
(* The order of the broker's events: a partial fill is due when the order  *)
(* is placed, so it is delivered before any cancellation of the order.     *)

IsPartial(e, o) == e.order = o /\ e.type = "PARTIAL_FILL"
IsCancel(e, o) == e.order = o /\ e.type = "CANCELLED"

\* In the delivered events d no partial fill follows a cancellation of its order, and
\* none is left among the items after the m-th.
Ordered(d, items, m) ==
  \A o \in Orders : \A i \in 1..Len(d) : IsCancel(d[i], o) =>
    /\ \A j \in 1..Len(d) : IsPartial(d[j], o) => j < i
    /\ \A l \in 1..Len(items) : IsPartial(items[l].event, o) => l <= m

\* Partial fills come before cancellations, and are due.
Timely(items, at) ==
  /\ \A k \in 1..Len(items) : items[k].event.type = "PARTIAL_FILL" => items[k].due <= at
  /\ \A o \in Orders : \A k, l \in 1..Len(items) :
       IsCancel(items[k].event, o) /\ IsPartial(items[l].event, o) => l < k

InTurn == Timely(scheduled, now) /\ Ordered(delivered, scheduled, 0)

\* A round of EventsAfter's loop delivers events in that order and leaves no partial fill.
LEMMA DeliverOrdered ==
  ASSUME NEW items \in Seq(Items), NEW n \in 1..Len(items), NEW before \in Deliveries, now \in Nat,
         Timely(items, now), Ordered(before.delivered, items, n - 1),
         \A k \in 1..Len(before.remaining) : before.remaining[k].event.type # "PARTIAL_FILL"
  PROVE  LET after == Deliver(before, items[n]) IN
         /\ Ordered(after.delivered, items, n)
         /\ \A k \in 1..Len(after.remaining) : after.remaining[k].event.type # "PARTIAL_FILL"
<1> DEFINE item == items[n]
           e == item.event
           d == before.delivered
           r == before.remaining
           after == Deliver(before, item)
<1>0. d \in Seq(EventRecords) /\ r \in Seq(Items) /\ item \in Items /\ Len(d) \in Nat /\ Len(items) \in Nat /\ Len(r) \in Nat
  BY DEF Deliveries
<1>1. CASE item.due <= now
  <2>1. after.delivered = Append(d, e) /\ after.remaining = r
    BY <1>1 DEF Deliver
  <2>2. ASSUME NEW o \in Orders, NEW i \in 1..(Len(d) + 1), IsCancel(Append(d, e)[i], o)
        PROVE  /\ \A j \in 1..(Len(d) + 1) : IsPartial(Append(d, e)[j], o) => j < i
               /\ \A l \in 1..Len(items) : IsPartial(items[l].event, o) => l <= n
    <3>0. /\ \A j \in 1..Len(d) : Append(d, e)[j] = d[j]
          /\ Append(d, e)[Len(d) + 1] = e
      <4>1. e \in EventRecords
        BY <1>0 DEF Items
      <4> QED BY <1>0, <4>1, AppendProperties
    <3>1. CASE i = Len(d) + 1
      <4>1. IsCancel(e, o)
        BY <2>2, <3>0, <3>1
      <4>2. ~IsPartial(e, o)
        BY <4>1 DEF IsCancel, IsPartial
      <4>3. \A j \in 1..(Len(d) + 1) : IsPartial(Append(d, e)[j], o) => j < i
        BY <1>0, <3>0, <3>1, <4>2
      <4>4. \A l \in 1..Len(items) : IsPartial(items[l].event, o) => l <= n
        BY <1>0, <4>1 DEF Timely
      <4> QED BY <4>3, <4>4
    <3>2. CASE i # Len(d) + 1
      <4>1. i \in 1..Len(d) /\ IsCancel(d[i], o)
        BY <1>0, <2>2, <3>0, <3>2
      <4>2. /\ \A j \in 1..Len(d) : IsPartial(d[j], o) => j < i
            /\ \A l \in 1..Len(items) : IsPartial(items[l].event, o) => l <= n - 1
        BY <4>1 DEF Ordered
      <4>3. ~IsPartial(e, o)
        BY <1>0, <4>2
      <4>4. \A l \in 1..Len(items) : IsPartial(items[l].event, o) => l <= n
        BY <1>0, <4>2
      <4>5. ASSUME NEW j \in 1..(Len(d) + 1), IsPartial(Append(d, e)[j], o) PROVE j < i
        <5>1. CASE j = Len(d) + 1
          BY <3>0, <4>3, <4>5, <5>1
        <5>2. CASE j # Len(d) + 1
          <6>1. j \in 1..Len(d)
            BY <1>0, <5>2
          <6> QED BY <3>0, <4>2, <4>5, <6>1
        <5> QED BY <5>1, <5>2
      <4> QED BY <4>4, <4>5
    <3> QED BY <3>1, <3>2
  <2>3. Len(Append(d, e)) = Len(d) + 1
    <3>1. e \in EventRecords
      BY <1>0 DEF Items
    <3> QED BY <1>0, <3>1, AppendProperties
  <2>4. Ordered(Append(d, e), items, n)
    BY <2>2, <2>3 DEF Ordered
  <2> QED BY <2>1, <2>4
<1>2. CASE ~(item.due <= now)
  <2>1. after = [before EXCEPT !.remaining = Append(@, item)]
    BY <1>2 DEF Deliver
  <2>2. after.delivered = d /\ after.remaining = Append(r, item)
    BY <2>1 DEF Deliveries
  <2>3. e.type # "PARTIAL_FILL"
    BY <1>2 DEF Timely
  <2>4. \A k \in 1..Len(Append(r, item)) : Append(r, item)[k].event.type # "PARTIAL_FILL"
    <3>1. Len(Append(r, item)) = Len(r) + 1 /\ Append(r, item)[Len(r) + 1] = item
          /\ \A k \in 1..Len(r) : Append(r, item)[k] = r[k]
      BY <1>0, AppendProperties
    <3>2. ASSUME NEW k \in 1..(Len(r) + 1) PROVE Append(r, item)[k].event.type # "PARTIAL_FILL"
      <4>1. CASE k = Len(r) + 1
        BY <2>3, <3>1, <4>1
      <4>2. CASE k # Len(r) + 1
        <5>1. k \in 1..Len(r)
          BY <1>0, <4>2
        <5> QED BY <3>1, <5>1
      <4> QED BY <4>1, <4>2
    <3> QED BY <3>1, <3>2
  <2>5. Ordered(d, items, n)
    BY <1>0 DEF Ordered
  <2> QED BY <2>2, <2>4, <2>5
<1> QED BY <1>1, <1>2

LEMMA EventsInTurn ==
  ASSUME BrokerSound, EventsAfter, InTurn
  PROVE  InTurn'
<1> DEFINE N == Len(scheduled)
           D(n) == Delivery[n]
           Turn(n) == /\ Ordered(D(n).delivered, scheduled, n)
                      /\ \A k \in 1..Len(D(n).remaining) : D(n).remaining[k].event.type # "PARTIAL_FILL"
           G == {n \in 0..N : Turn(n)}
<1>0. BrokerTyped /\ N \in Nat /\ scheduled \in Seq(Items) /\ now \in Nat
  BY DEF BrokerSound, BrokerTyped
<1>1. /\ D(0) = [book |-> book, delivered |-> delivered, remaining |-> <<>>]
      /\ \A n \in 1..N : D(n) = Deliver(D(n - 1), scheduled[n])
      /\ \A n \in 0..N : D(n) \in Deliveries
  BY <1>0, DeliveryDef
<1> HIDE DEF D
<1>2. 0 \in G
  BY <1>0, <1>1 DEF InTurn
<1>3. ASSUME NEW n \in 0..(N - 1), n \in G PROVE n + 1 \in G
  <2>1. n + 1 \in 1..N /\ n \in 0..N /\ n + 1 \in 0..N /\ n + 1 - 1 = n
    BY <1>0
  <2>2. D(n) \in Deliveries /\ D(n + 1) = Deliver(D(n), scheduled[n + 1])
    BY <1>1, <2>1
  <2>3. Turn(n)
    BY <1>3
  <2>4. Ordered(D(n).delivered, scheduled, n + 1 - 1)
    BY <2>1, <2>3
  <2>5. Turn(n + 1)
    BY <1>0, <2>1, <2>2, <2>3, <2>4, DeliverOrdered DEF InTurn
  <2> QED BY <2>1, <2>5
<1>4. N \in G
  <2> HIDE DEF G
  <2>1. \A n \in 0..N : n \in G
    BY <1>0, <1>2, <1>3, Induction
  <2> QED BY <1>0, <2>1
<1>5. delivered' = D(N).delivered /\ scheduled' = D(N).remaining
  BY DEF EventsAfter, D
<1>6. Ordered(delivered', scheduled, N) /\ \A k \in 1..Len(scheduled') : scheduled'[k].event.type # "PARTIAL_FILL"
  BY <1>4, <1>5
<1>7. Timely(scheduled', now') /\ Ordered(delivered', scheduled', 0)
  BY <1>6 DEF Timely, Ordered, IsPartial
<1> QED BY <1>7 DEF InTurn, Timely, Ordered, IsPartial, IsCancel


\* Scheduling keeps the order: a partial fill is scheduled only when its order is placed.
LEMMA ScheduledInTurn ==
  ASSUME BrokerSound, InTurn, NEW items \in Seq(Items), scheduled' = scheduled \o items, UNCHANGED <<now, delivered>>,
         \A l \in 1..Len(items) : items[l].event.type = "PARTIAL_FILL" =>
           /\ items[l].due <= now /\ ~Placed(items[l].event.order)
           /\ \A k \in 1..Len(items) : items[k].event.type # "CANCELLED"
  PROVE  InTurn'
<1>0. scheduled \in Seq(Items) /\ delivered \in Seq(EventRecords)
  BY DEF BrokerSound, BrokerTyped
<1>1. /\ Len(scheduled') = Len(scheduled) + Len(items)
      /\ Len(scheduled) \in Nat /\ Len(items) \in Nat
      /\ \A i \in 1..Len(scheduled') :
           scheduled'[i] = IF i <= Len(scheduled) THEN scheduled[i] ELSE items[i - Len(scheduled)]
  BY <1>0, ConcatProperties
<1>2. ASSUME NEW i \in 1..Len(scheduled')
      PROVE  \/ i \in 1..Len(scheduled) /\ scheduled'[i] = scheduled[i]
             \/ /\ i > Len(scheduled) /\ i - Len(scheduled) \in 1..Len(items)
                /\ scheduled'[i] = items[i - Len(scheduled)]
  BY <1>1
\* No event of an order that is not placed.
<1>3. ASSUME NEW o \in Orders, ~Placed(o)
      PROVE  /\ \A i \in 1..Len(delivered) : delivered[i].order # o
             /\ \A i \in 1..Len(scheduled) : scheduled[i].event.order # o
  BY <1>3 DEF BrokerSound, Consistent, Scheduled, Placed
<1>4. ASSUME NEW l \in 1..Len(scheduled'), NEW o \in Orders, IsPartial(scheduled'[l].event, o), l > Len(scheduled)
      PROVE  /\ scheduled'[l].due <= now /\ ~Placed(o)
             /\ \A k \in 1..Len(items) : items[k].event.type # "CANCELLED"
  <2>1. l - Len(scheduled) \in 1..Len(items) /\ scheduled'[l] = items[l - Len(scheduled)]
    BY <1>1, <1>2, <1>4
  <2> QED BY <1>4, <2>1 DEF IsPartial
<1>5. ASSUME NEW l \in 1..Len(scheduled'), scheduled'[l].event.type = "PARTIAL_FILL" PROVE scheduled'[l].due <= now
  <2>1. CASE l \in 1..Len(scheduled) /\ scheduled'[l] = scheduled[l]
    BY <1>5, <2>1 DEF InTurn, Timely
  <2>2. CASE l - Len(scheduled) \in 1..Len(items) /\ scheduled'[l] = items[l - Len(scheduled)]
    BY <1>5, <2>2
  <2> QED BY <1>2, <2>1, <2>2
<1>6. ASSUME NEW o \in Orders, NEW k \in 1..Len(scheduled'), NEW l \in 1..Len(scheduled'),
             IsCancel(scheduled'[k].event, o), IsPartial(scheduled'[l].event, o)
      PROVE  l < k
  <2>1. CASE l > Len(scheduled)
    <3>1. ~Placed(o) /\ \A i \in 1..Len(items) : items[i].event.type # "CANCELLED"
      BY <1>4, <1>6, <2>1
    <3>2. CASE k \in 1..Len(scheduled) /\ scheduled'[k] = scheduled[k]
      BY <1>3, <1>6, <3>1, <3>2 DEF IsCancel
    <3>3. CASE k - Len(scheduled) \in 1..Len(items) /\ scheduled'[k] = items[k - Len(scheduled)]
      BY <1>6, <3>1, <3>3 DEF IsCancel
    <3> QED BY <1>2, <3>2, <3>3
  <2>2. CASE ~(l > Len(scheduled))
    <3>1. l \in 1..Len(scheduled) /\ scheduled'[l] = scheduled[l]
      BY <1>1, <1>2, <2>2
    <3>2. CASE k \in 1..Len(scheduled) /\ scheduled'[k] = scheduled[k]
      BY <1>6, <3>1, <3>2 DEF InTurn, Timely
    <3>3. CASE k > Len(scheduled)
      BY <1>1, <3>1, <3>3
    <3> QED BY <1>2, <3>2, <3>3
  <2> QED BY <2>1, <2>2
<1>7. ASSUME NEW o \in Orders, NEW i \in 1..Len(delivered), IsCancel(delivered[i], o),
             NEW l \in 1..Len(scheduled'), IsPartial(scheduled'[l].event, o)
      PROVE  l <= 0
  <2>1. CASE l > Len(scheduled)
    BY <1>3, <1>4, <1>7, <2>1 DEF IsCancel
  <2>2. CASE ~(l > Len(scheduled))
    <3>1. l \in 1..Len(scheduled) /\ scheduled'[l] = scheduled[l]
      BY <1>1, <1>2, <2>2
    <3> QED BY <1>7, <3>1 DEF InTurn, Ordered
  <2> QED BY <2>1, <2>2
<1>8. Timely(scheduled', now)
  BY <1>5, <1>6 DEF Timely
<1>9. Ordered(delivered, scheduled', 0)
  BY <1>7 DEF InTurn, Ordered
<1>10. Timely(scheduled', now') /\ Ordered(delivered', scheduled', 0)
  BY <1>8, <1>9
<1> QED BY <1>10 DEF InTurn, Timely, Ordered, IsPartial, IsCancel

\* What Submit schedules: a partial fill is due at once, and nothing is cancelled.
LEMMA FollowupsTimely ==
  ASSUME now \in Nat, NEW o \in Orders, NEW behavior \in Behaviors
  PROVE  LET items == <<At(now, Event(o, "ack", "ACKNOWLEDGED", 0, 0))>> \o Followups(o, behavior) IN
         \A i \in 1..Len(items) :
           /\ items[i].event.type # "CANCELLED"
           /\ items[i].event.type = "PARTIAL_FILL" => items[i].due <= now
<1> DEFINE q == Quantity[o]
           S == {x \in [due : Nat, event : [type : ReportTypes, order : Orders, id : {<<"BROKER", s, 0>> : s \in Suffixes},
                                            exec : Suffixes, cum : Nat, fill : Int]] :
                   x.event.type # "CANCELLED" /\ (x.event.type = "PARTIAL_FILL" => x.due <= now)}
<1>1. q \in Nat /\ q \div 2 \in Nat /\ q - (q \div 2) \in Int
  BY QuantityTyped
<1>2. ASSUME NEW due \in Nat, NEW suffix \in Suffixes,
             NEW type \in {"ACKNOWLEDGED", "PARTIAL_FILL", "FILL"}, NEW cum \in Nat, NEW fill \in Int,
             type = "PARTIAL_FILL" => due <= now
      PROVE  At(due, Event(o, suffix, type, cum, fill)) \in S
  BY <1>2 DEF At, Event, ReportTypes
<1>3. now + 1 \in Nat /\ {"ack", "partial", "fill", "fill-early", "ack-late"} \subseteq Suffixes
  BY DEF Suffixes
<1> HIDE DEF S, q
<1>4. At(now, Event(o, "ack", "ACKNOWLEDGED", 0, 0)) \in S
  BY <1>1, <1>2, <1>3
<1>5. /\ At(now, Event(o, "fill", "FILL", q, q)) \in S
      /\ At(now + 1, Event(o, "fill", "FILL", q, q)) \in S
      /\ At(now, Event(o, "fill-early", "FILL", q, q)) \in S
  BY <1>1, <1>2, <1>3
<1>6. /\ At(now, Event(o, "partial", "PARTIAL_FILL", q \div 2, q \div 2)) \in S
      /\ At(now + 1, Event(o, "fill", "FILL", q, q - (q \div 2))) \in S
  BY <1>1, <1>2, <1>3
<1>7. At(now, Event(o, "ack-late", "ACKNOWLEDGED", q, 0)) \in S
  BY <1>1, <1>2, <1>3
<1> DEFINE items == <<At(now, Event(o, "ack", "ACKNOWLEDGED", 0, 0))>> \o Followups(o, behavior)
<1>8. Followups(o, behavior) \in Seq(S)
  BY <1>5, <1>6, <1>7 DEF Followups, q
<1>9. items \in Seq(S)
  <2>1. <<At(now, Event(o, "ack", "ACKNOWLEDGED", 0, 0))>> \in Seq(S)
    BY <1>4
  <2> QED BY <1>8, <2>1, ConcatProperties
<1> HIDE DEF items
<1>10. \A i \in 1..Len(items) : items[i].event.type # "CANCELLED" /\ (items[i].event.type = "PARTIAL_FILL" => items[i].due <= now)
  BY <1>9 DEF S
<1> QED BY <1>10 DEF items

LEMMA SubmitInTurn ==
  ASSUME BrokerSound, NEW o \in Orders, NEW result, Submit(o, result), InTurn
  PROVE  InTurn'
<1>1. CASE UNCHANGED brokerVars
  BY <1>1 DEF brokerVars, InTurn, Timely, Ordered, IsPartial, IsCancel
<1>2. CASE ~UNCHANGED brokerVars
  <2> DEFINE behavior == Head(script).behavior
             items == IF behavior = "REJECT" THEN <<>>
                      ELSE <<At(now, Event(o, "ack", "ACKNOWLEDGED", 0, 0))>> \o Followups(o, behavior)
  <2>1. /\ ~Placed(o) /\ script # <<>> /\ Place(o, behavior)
        /\ ~(behavior = "PARTIAL_FILL" /\ Quantity[o] < 2)
    BY <1>2 DEF Submit
  <2>2. behavior \in Behaviors /\ now \in Nat
    <3>1. script \in Seq(Scenarios) /\ now \in Nat
      BY DEF BrokerSound, BrokerTyped
    <3>2. Head(script) \in Scenarios
      BY <2>1, <3>1, HeadTailProperties
    <3> QED BY <3>1, <3>2 DEF Scenarios
  <2>3. scheduled' = scheduled \o items /\ UNCHANGED <<now, delivered>>
    BY <2>1 DEF Place
  <2>4. /\ items \in Seq(Items)
        /\ \A i \in 1..Len(items) : items[i].event.order = o /\ items[i].event.type # "CANCELLED"
                                    /\ (items[i].event.type = "PARTIAL_FILL" => items[i].due <= now)
    <3>1. CASE behavior = "REJECT"
      BY <3>1
    <3>2. CASE behavior # "REJECT"
      <4>1. behavior = "PARTIAL_FILL" => Quantity[o] >= 2
        BY <2>1, QuantityTyped
      <4> HIDE DEF behavior
      <4> QED BY <2>2, <3>2, <4>1, FollowupsSound, FollowupsTimely
    <3> QED BY <3>1, <3>2
  <2> HIDE DEF items
  <2> QED BY <2>1, <2>3, <2>4, ScheduledInTurn
<1> QED BY <1>1, <1>2

LEMMA CancelInTurn ==
  ASSUME BrokerSound, NEW o \in Orders, CancelAccepted(o), InTurn
  PROVE  InTurn'
<1> DEFINE q == Quantity[o]
           cum == book[o].cum
           cancelled == At(now, Event(o, "cancelled", "CANCELLED", cum, 0))
           filled == At(now + 1, Event(o, "late-fill", "FILL", q, q - cum))
           items == IF book[o].late THEN <<cancelled, filled>> ELSE <<cancelled>>
<1>0. book \in [Orders -> Entries] /\ now \in Nat /\ now + 1 \in Nat
  BY DEF BrokerSound, BrokerTyped
<1>1. scheduled' = scheduled \o items /\ UNCHANGED <<now, delivered>>
  BY DEF CancelAccepted
<1>2. q \in Nat /\ cum \in Nat /\ q - cum \in Nat
  <2>1. q \in Nat /\ cum \in Nat /\ cum <= q
    BY <1>0, QuantityTyped DEF Entries, BrokerSound, Consistent
  <2> HIDE DEF q, cum
  <2> QED BY <2>1
<1>3. <<"BROKER", "cancelled", 0>> \in Identities /\ <<"BROKER", "late-fill", 0>> \in Identities
  BY DEF Identities, Keys, Suffixes
<1>4. cancelled \in Items /\ cancelled.event.type # "PARTIAL_FILL"
  <2> HIDE DEF cum
  <2> QED BY <1>0, <1>2, <1>3 DEF At, Event, Items, EventRecords, Suffixes, ReportTypes
<1>5. filled \in Items /\ filled.event.type # "PARTIAL_FILL"
  <2> HIDE DEF cum
  <2> QED BY <1>0, <1>2, <1>3 DEF At, Event, Items, EventRecords, Suffixes, ReportTypes
<1>6. items \in Seq(Items) /\ \A i \in 1..Len(items) : items[i].event.type # "PARTIAL_FILL"
  <2> HIDE DEF cancelled, filled
  <2> QED BY <1>4, <1>5
<1> HIDE DEF items
<1> QED BY <1>1, <1>6, ScheduledInTurn

LEMMA IdleInTurn ==
  ASSUME UNCHANGED <<scheduled, delivered>>, now \in Nat, now' \in Nat, now <= now', scheduled \in Seq(Items), InTurn
  PROVE  InTurn'
<1>1. ASSUME NEW k \in 1..Len(scheduled), scheduled[k].event.type = "PARTIAL_FILL" PROVE scheduled[k].due <= now'
  <2>1. scheduled[k].due <= now
    BY <1>1 DEF InTurn, Timely
  <2>2. scheduled[k] \in Items
    OBVIOUS
  <2>3. scheduled[k].due \in Nat
    BY <2>2 DEF Items
  <2> QED BY <2>1, <2>3
<1>2. Timely(scheduled, now')
  BY <1>1 DEF InTurn, Timely
<1>3. Timely(scheduled', now') /\ Ordered(delivered', scheduled', 0)
  BY <1>2 DEF InTurn
<1> QED BY <1>3 DEF InTurn, Timely, Ordered, IsPartial, IsCancel

\* Which steps move the broker.
LEMMA BrokerMoves ==
  ASSUME Control, [Next]_vars
  PROVE  \/ UNCHANGED brokerVars \/ EventsAfter \/ Tick
         \/ \E o \in Orders : SubmitUnavailable(o) \/ CancelAccepted(o) \/ \E result : Submit(o, result)
<1>1. CASE Shutdown \/ Crash \/ Advance \/ UNCHANGED vars
  BY <1>1 DEF Shutdown, Crash, Advance, vars
<1>2. ASSUME NEW w \in Workers, AcquireSlot(w) \/ WorkerStep(w)
      PROVE  UNCHANGED brokerVars \/ \E o \in Orders : SubmitUnavailable(o) \/ \E result : Submit(o, result)
  <2>1. WorkerEffect(w)
    BY <1>2, WorkerEffects DEF Control
  <2>2. CASE Sends(w)
    <3>1. Leg(w) \in Orders
      BY <2>2, LegTyped DEF Sends, Control, Holding
    <3> QED BY <2>2, <3>1 DEF Sends
  <2>3. CASE ~Sends(w)
    BY <2>1, <2>3 DEF WorkerEffect, Passes, PlansLeg, KeepsUnknown, Releases, TakesUnknown, TakesPlanned
  <2> QED BY <2>2, <2>3
<1>3. CASE CancelStep
  BY <1>3, CancelStepEffect DEF CancelEffect, CancelTakes, CancelSends, CancelEnds
<1>4. ASSUME NEW a \in Drainers, StartDrain(a) \/ DrainUnavailable(a) PROVE UNCHANGED brokerVars \/ EventsAfter
  BY <1>4 DEF StartDrain, DrainUnavailable
<1>5. CASE DrainStep
  BY <1>5 DEF DrainStep, DrainRead, DrainReserve, DrainApply, FinishDrain
<1>6. CASE (\E at \in Times : ReconcileSnapshot(at)) \/ ReconcileStep
  BY <1>6 DEF ReconcileSnapshot, ReconcileStep, ReconcileLocal, ReconcileAdvance, RepairRead, RepairReserve, RepairApply,
              ReconcileRemote, ReconcileOrder
<1>7. ASSUME NEW w \in Workers, NEW p \in Plans, NEW at \in Times, ExecutePlan(w, p, at) PROVE UNCHANGED brokerVars
  BY <1>7 DEF ExecutePlan
<1>8. ASSUME NEW o \in Orders, NEW at \in Times, RequestCancel(o, at) PROVE UNCHANGED brokerVars
  BY <1>8 DEF RequestCancel
<1> QED BY <1>1, <1>2, <1>3, <1>4, <1>5, <1>6, <1>7, <1>8 DEF Next

LEMMA InTurnInvariant == Spec => []InTurn
<1>1. Init => InTurn
  BY DEF Init, BrokerInit, InTurn, Timely, Ordered
<1>2. Control /\ InTurn /\ [Next]_vars => InTurn'
  <2>1. SUFFICES ASSUME Control, InTurn, [Next]_vars PROVE InTurn'
    OBVIOUS
  <2>2. BrokerSound /\ now \in Nat /\ scheduled \in Seq(Items)
    BY <2>1 DEF Control, BrokerSound, BrokerTyped
  <2>3. CASE UNCHANGED brokerVars \/ Tick \/ \E o \in Orders : SubmitUnavailable(o)
    <3>1. UNCHANGED <<scheduled, delivered>> /\ now' \in {now, now + 1}
      BY <2>3 DEF brokerVars, Tick, SubmitUnavailable
    <3>2. now' \in Nat /\ now <= now'
      BY <2>2, <3>1
    <3> QED BY <2>1, <2>2, <3>1, <3>2, IdleInTurn
  <2>4. CASE EventsAfter
    BY <2>1, <2>2, <2>4, EventsInTurn
  <2>5. CASE \E o \in Orders : CancelAccepted(o) \/ \E result : Submit(o, result)
    BY <2>1, <2>2, <2>5, CancelInTurn, SubmitInTurn
  <2> QED BY <2>1, <2>3, <2>4, <2>5, BrokerMoves
<1> QED BY <1>1, <1>2, ControlInvariant, PTL DEF Spec

-----------------------------------------------------------------------------
(* Cancelled orders: no execution but the completing one can still come.   *)

\* The partial fills of o that were delivered reach no further than c.
PartialsUpTo(o, c) ==
  \A i \in 1..Len(delivered) : IsPartial(delivered[i], o) /\ delivered[i].fill > 0 => delivered[i].cum <= c

\* A cancellation counts the partial fills, in the store and in a reconciliation.
Counted == \A o \in Orders : orders[o].state = "CANCELLED" => PartialsUpTo(o, orders[o].filled)

SnapshotCounts == \A o \in Orders : recon.snapshot[o].state = "CANCELLED" => PartialsUpTo(o, recon.snapshot[o].cum)

Statuses ==
  \A i \in 1..Len(recon.events) : LET e == recon.events[i] IN
    e.type = "CANCELLED" => recon.snapshot[e.order].state = "CANCELLED" /\ e.cum = recon.snapshot[e.order].cum

LEMMA PartialsStay ==
  ASSUME BrokerTyped, BrokerTyped', Grows, InTurn', NEW o \in Orders, CancelDelivered(o), NEW c, PartialsUpTo(o, c)
  PROVE  PartialsUpTo(o, c)'
<1>1. Len(delivered) \in Nat /\ Len(delivered') \in Nat
  BY DEF BrokerTyped
<1>2. PICK k \in 1..Len(delivered) : IsCancel(delivered[k], o)
  BY DEF CancelDelivered, IsCancel
<1>3. k \in 1..Len(delivered') /\ IsCancel(delivered'[k], o)
  BY <1>1, <1>2 DEF Grows, IsCancel
<1>4. Ordered(delivered', scheduled', 0)
  BY DEF InTurn, Ordered, IsPartial, IsCancel
<1>5. \A j \in 1..Len(delivered') : IsPartial(delivered'[j], o) => j < k
  BY <1>3, <1>4 DEF Ordered
<1>6. ASSUME NEW i \in 1..Len(delivered'), IsPartial(delivered'[i], o), delivered'[i].fill > 0
      PROVE  delivered'[i].cum <= c
  <2>1. i \in 1..Len(delivered)
    BY <1>1, <1>5, <1>6
  <2>2. delivered'[i] = delivered[i]
    BY <2>1 DEF Grows
  <2> QED BY <1>6, <2>1, <2>2 DEF PartialsUpTo
<1> QED BY <1>6 DEF PartialsUpTo, IsPartial

LEMMA PartialsFurther ==
  ASSUME BrokerTyped, NEW o \in Orders, NEW c \in Nat, NEW d \in Nat, c <= d, PartialsUpTo(o, c)
  PROVE  PartialsUpTo(o, d)
<1>1. ASSUME NEW i \in 1..Len(delivered), IsPartial(delivered[i], o), delivered[i].fill > 0
      PROVE  delivered[i].cum <= d
  <2>1. delivered[i] \in EventRecords
    BY DEF BrokerTyped
  <2>2. delivered[i].cum \in Nat
    BY <2>1 DEF EventRecords
  <2>3. delivered[i].cum <= c
    BY <1>1 DEF PartialsUpTo
  <2> QED BY <2>2, <2>3
<1> QED BY <1>1 DEF PartialsUpTo

\* A status repair says what the snapshot says.
LEMMA RepairStatuses ==
  ASSUME NEW o \in Orders, NEW local \in OrderRecords, NEW remote \in Entries
  PROVE  LET r == repairEvents(o, local, remote) IN
         \A i \in 1..Len(r.events) :
           r.events[i].type = "CANCELLED" => remote.state = "CANCELLED" /\ r.events[i].cum = remote.cum
<1> DEFINE r == repairEvents(o, local, remote)
<1>1. CASE remote.cum > local.filled
  <2>1. r = FillRepairs(o, local, remote)
    BY <1>1 DEF repairEvents
  <2>2. \A i \in 1..Len(r.events) : \E k \in 1..Len(remote.fills) : r.events[i] = RepairEvent(o, remote.fills[k])
    BY <1>1, <2>1, FillRepairsKeeps
  <2>3. ASSUME NEW k \in 1..Len(remote.fills) PROVE RepairEvent(o, remote.fills[k]).type # "CANCELLED"
    <3>1. remote.fills \in Seq(Executions)
      BY DEF Entries
    <3>2. remote.fills[k] \in Executions
      BY <3>1
    <3> QED BY <3>2, RepairEventTyped
  <2> HIDE DEF r
  <2>4. \A i \in 1..Len(r.events) : r.events[i].type # "CANCELLED"
    BY <2>2, <2>3
  <2> QED BY <2>4 DEF r
<1>2. CASE ~(remote.cum > local.filled)
  <2> DEFINE status == StatusRepair(local, remote)
             e == [Event(o, "none", status, remote.cum, 0) EXCEPT !.id = <<"reconcile", status, remote.cum>>]
  <2>1. r.events = IF status = "none" THEN <<>> ELSE <<e>>
    BY <1>2 DEF repairEvents
  <2>2. status = "CANCELLED" => remote.state = "CANCELLED"
    BY DEF StatusRepair
  <2>3. e.type = status /\ e.cum = remote.cum
    BY DEF Event
  <2> HIDE DEF e, status, r
  <2>4. \A i \in 1..Len(r.events) : r.events[i] = e
    BY <2>1
  <2>5. \A i \in 1..Len(r.events) : r.events[i].type = "CANCELLED" => remote.state = "CANCELLED" /\ r.events[i].cum = remote.cum
    BY <2>2, <2>3, <2>4
  <2> QED BY <2>5 DEF r
<1> QED BY <1>1, <1>2

\* The last repair of o brings it to the cumulative of the snapshot.
Pending(o) ==
  /\ recon.events # <<>>
  /\ LET e == recon.events[Len(recon.events)] IN e.order = o /\ e.cum = recon.snapshot[o].cum /\ e.fill > 0

Caught(o) == orders[o].filled >= recon.snapshot[o].cum

\* What a step leaves of a reconciliation.
ReconFrame == recon'.pc = recon.pc /\ recon'.snapshot = recon.snapshot /\ recon'.local = recon.local
ReconKeeps == ReconFrame /\ recon'.todo = recon.todo /\ recon'.events = recon.events /\ recon'.blocked = recon.blocked
ReconFails == ReconFrame /\ recon'.events = <<>> /\ recon'.blocked
ReconBegins ==
  /\ recon'.pc \in {"idle", "local"} /\ recon'.snapshot \in {IdleRecon.snapshot, book}
  /\ recon'.local = NoOrders /\ recon'.events = <<>>

\* An order is done with, its repairs proposed.
ReconOrder(o) ==
  /\ ReconFrame
  /\ recon'.todo = recon.todo \ {o}
  /\ recon.blocked => recon'.blocked
  /\ recon.events = <<>>
  /\ \A i \in 1..Len(recon'.events) :
       /\ recon'.events[i].order = o
       /\ recon'.events[i].type = "CANCELLED" =>
            recon.snapshot[o].state = "CANCELLED" /\ recon'.events[i].cum = recon.snapshot[o].cum
  /\ UNCHANGED <<brokerVars, storeVars>>

LEMMA RepairProposes ==
  ASSUME Control, NEW o \in Orders, NEW local \in OrderRecords, Repair(o, local), recon.events = <<>>,
         recon.snapshot[o].state # "none", recon.snapshot[o].cum >= local.filled, UNCHANGED <<brokerVars, storeVars>>
  PROVE  /\ ReconOrder(o)
         /\ recon'.blocked \/ ~(recon.snapshot[o].cum > local.filled) \/ Pending(o)'
<1> DEFINE r == repairEvents(o, local, recon.snapshot[o])
<1>1. recon' = [recon EXCEPT !.todo = @ \ {o}, !.events = r.events, !.blocked = @ \/ ~r.valid]
  BY DEF Repair
<1>2. recon \in Recons /\ recon.snapshot \in [Orders -> Entries] /\ SnapshotBacked(recon.snapshot) /\ BrokerSound
  BY DEF Control, ReconOK, Recons
<1>3. /\ r.valid \in BOOLEAN /\ r.events \in Seq(EventRecords)
      /\ \A i \in 1..Len(r.events) : r.events[i].order = o
      /\ r.valid /\ recon.snapshot[o].cum > local.filled =>
           r.events # <<>> /\ r.events[Len(r.events)].cum = recon.snapshot[o].cum
      /\ recon.snapshot[o].cum > local.filled => \A i \in 1..Len(r.events) : r.events[i].fill > 0
  BY <1>2, RepairsBacked
<1>4. \A i \in 1..Len(r.events) : r.events[i].type = "CANCELLED" =>
        recon.snapshot[o].state = "CANCELLED" /\ r.events[i].cum = recon.snapshot[o].cum
  BY <1>2, RepairStatuses
<1> HIDE DEF r
<1>5. /\ recon'.pc = recon.pc /\ recon'.snapshot = recon.snapshot /\ recon'.local = recon.local
      /\ recon'.todo = recon.todo \ {o} /\ recon'.events = r.events /\ recon'.blocked = (recon.blocked \/ ~r.valid)
  BY <1>1, <1>2, <1>3 DEF Recons
<1>6. ReconOrder(o)
  BY <1>3, <1>4, <1>5 DEF ReconOrder, ReconFrame
<1>7. ASSUME r.valid, recon.snapshot[o].cum > local.filled PROVE Pending(o)'
  <2>1. r.events # <<>> /\ Len(r.events) \in 1..Len(r.events)
    BY <1>3, <1>7
  <2>2. LET e == r.events[Len(r.events)] IN e.order = o /\ e.cum = recon.snapshot[o].cum /\ e.fill > 0
    BY <1>3, <1>7, <2>1
  <2> QED BY <1>5, <2>1, <2>2 DEF Pending
<1> QED BY <1>3, <1>5, <1>6, <1>7

LEMMA SkipProposes ==
  ASSUME Control, NEW o, NEW blocked \in BOOLEAN, Skip(o, blocked), recon.events = <<>>, UNCHANGED <<brokerVars, storeVars>>
  PROVE  ReconOrder(o) /\ (blocked => recon'.blocked)
<1>1. recon' = [recon EXCEPT !.todo = @ \ {o}, !.blocked = @ \/ blocked] /\ recon \in Recons
  BY DEF Skip, Control, ReconOK
<1>2. /\ recon'.pc = recon.pc /\ recon'.snapshot = recon.snapshot /\ recon'.local = recon.local
      /\ recon'.todo = recon.todo \ {o} /\ recon'.events = <<>> /\ recon'.blocked = (recon.blocked \/ blocked)
  BY <1>1 DEF Recons
<1>3. 1..Len(<<>>) = {}
  OBVIOUS
<1> QED BY <1>2, <1>3 DEF ReconOrder, ReconFrame

LEMMA RemoteProposes ==
  ASSUME Control, NEW o \in Orders, ReconcileRemote(o)
  PROVE  /\ ReconOrder(o) /\ recon.pc = "remote"
         /\ recon'.blocked \/ Pending(o)' \/ orders[o].state # "CANCELLED" \/ Caught(o)
<1>1. recon.pc = "remote" /\ recon.events = <<>> /\ UNCHANGED <<brokerVars, storeVars>>
  BY DEF ReconcileRemote
<1>2. /\ orders[o] \in OrderRecords /\ recon.snapshot[o] \in Entries
      /\ (recon.snapshot[o].state = "none" => recon.snapshot[o].cum = 0)
  BY DEF Control, StoreTyped, ReconOK, Recons, SnapshotBacked
<1>3. orders[o].filled \in Nat /\ recon.snapshot[o].cum \in Nat
  BY <1>2 DEF OrderRecords, Entries
<1>4. CASE orders[o].state = "CANCELLED" /\ recon.snapshot[o].cum > orders[o].filled
  <2>1. Repair(o, orders[o])
    BY <1>4 DEF ReconcileRemote
  <2>2. recon.snapshot[o].state # "none" /\ recon.snapshot[o].cum >= orders[o].filled
    BY <1>2, <1>3, <1>4
  <2> QED BY <1>1, <1>2, <1>4, <2>1, <2>2, RepairProposes
<1>5. CASE ~(orders[o].state = "CANCELLED" /\ recon.snapshot[o].cum > orders[o].filled)
  <2>1. Skip(o, FALSE)
    BY <1>5 DEF ReconcileRemote
  <2>2. ReconOrder(o)
    BY <1>1, <2>1, SkipProposes
  <2>3. orders[o].state # "CANCELLED" \/ Caught(o)
    BY <1>3, <1>5 DEF Caught
  <2> QED BY <1>1, <2>2, <2>3
<1> QED BY <1>4, <1>5

LEMMA OrderProposes ==
  ASSUME Control, NEW o \in Orders, ReconcileOrder(o)
  PROVE  /\ ReconOrder(o) /\ recon.pc = "orders"
         /\ o \in Listed => recon'.blocked \/ Pending(o)' \/ recon.local[o].filled >= recon.snapshot[o].cum
<1> DEFINE local == recon.local[o]
<1>1. recon.pc = "orders" /\ recon.events = <<>> /\ UNCHANGED <<brokerVars, storeVars>>
  BY DEF ReconcileOrder
<1>2. local \in OrderRecords /\ recon.snapshot[o] \in Entries
  BY DEF Control, ReconOK, Recons
<1>3. local.filled \in Nat /\ recon.snapshot[o].cum \in Nat
  BY <1>2 DEF OrderRecords, Entries
<1>4. CASE o \notin Listed
  <2>1. Skip(o, local.state \notin {"CREATED", "PLANNED"})
    BY <1>4 DEF ReconcileOrder
  <2>2. (local.state \notin {"CREATED", "PLANNED"}) \in BOOLEAN
    OBVIOUS
  <2> HIDE DEF local
  <2> QED BY <1>1, <1>4, <2>1, <2>2, SkipProposes
<1>5. CASE o \in Listed /\ recon.snapshot[o].cum < local.filled
  BY <1>1, <1>5, SkipProposes DEF ReconcileOrder
<1>6. CASE o \in Listed /\ ~(recon.snapshot[o].cum < local.filled)
  <2>1. Repair(o, local) /\ recon.snapshot[o].state # "none"
    BY <1>6 DEF ReconcileOrder, Listed
  <2>2. recon.snapshot[o].cum >= local.filled
    BY <1>3, <1>6
  <2> HIDE DEF local
  <2>3. ReconOrder(o) /\ (recon'.blocked \/ ~(recon.snapshot[o].cum > local.filled) \/ Pending(o)')
    BY <1>1, <1>2, <2>1, <2>2, RepairProposes
  <2>4. ~(recon.snapshot[o].cum > local.filled) => local.filled >= recon.snapshot[o].cum
    BY <1>3
  <2> QED BY <1>1, <2>3, <2>4 DEF local
<1> QED BY <1>4, <1>5, <1>6

\* The broker's orders are done with, the local orders are up.
ReconPasses ==
  /\ recon.pc = "remote" /\ recon.todo = {} /\ recon.events = <<>>
  /\ recon'.pc = "orders" /\ recon'.todo = {o \in Orders : recon.local[o] # NoOrder}
  /\ recon'.snapshot = recon.snapshot /\ recon'.local = recon.local /\ recon'.events = recon.events
  /\ recon'.blocked = recon.blocked
  /\ UNCHANGED <<brokerVars, storeVars>>

\* The next repair is in the store.
ReconRepaired ==
  /\ ReconFrame /\ recon'.todo = recon.todo /\ recon'.blocked = recon.blocked
  /\ recon.step = "apply" /\ recon.events # <<>> /\ recon'.events = Tail(recon.events)
  /\ \E result \in EventResults \ {"error", "collision"} :
       PublishBrokerEvent(recon.read, Head(recon.events), recon.at, result)

ReconLists ==
  /\ recon'.pc = "remote" /\ recon'.todo = Listed /\ recon'.snapshot = recon.snapshot
  /\ recon'.local = [o \in Orders |-> IF Nonterminal(orders[o]) THEN orders[o] ELSE NoOrder]
  /\ recon'.events = recon.events /\ recon'.blocked = recon.blocked
  /\ UNCHANGED <<brokerVars, storeVars>>

LEMMA ReconSteps ==
  ASSUME Control, [Next]_vars
  PROVE  \/ ReconKeeps \/ ReconFails \/ (ReconBegins /\ UNCHANGED <<book, delivered>>) \/ ReconLists \/ ReconPasses \/ ReconRepaired
         \/ \E o \in Orders : ReconcileRemote(o) \/ ReconcileOrder(o)
<1>1. recon \in Recons
  BY DEF Control, ReconOK
<1>2. CASE UNCHANGED recon
  BY <1>2 DEF ReconKeeps, ReconFrame
<1>3. CASE recon' = IdleRecon /\ UNCHANGED brokerVars
  BY <1>3 DEF IdleRecon, ReconBegins, brokerVars
<1>4. CASE Crash
  BY <1>3, <1>4 DEF Crash
<1>5. CASE \E at \in Times : ReconcileSnapshot(at)
  BY <1>5 DEF ReconcileSnapshot, IdleRecon, ReconBegins, brokerVars
<1>6. CASE ReconcileLocal
  <2> DEFINE local == [o \in Orders |-> IF Nonterminal(orders[o]) THEN orders[o] ELSE NoOrder]
  <2>1. recon' = [recon EXCEPT !.pc = "remote", !.todo = Listed, !.local = local] /\ UNCHANGED <<brokerVars, storeVars>>
    BY <1>6 DEF ReconcileLocal
  <2> HIDE DEF local
  <2>2. /\ recon'.pc = "remote" /\ recon'.todo = Listed /\ recon'.local = local /\ recon'.snapshot = recon.snapshot
        /\ recon'.events = recon.events /\ recon'.blocked = recon.blocked
    BY <1>1, <2>1 DEF Recons
  <2> QED BY <2>1, <2>2 DEF ReconLists, local
<1>7. CASE ReconcileAdvance
  <2>1. UNCHANGED <<brokerVars, storeVars>> /\ recon.events = <<>> /\ recon.todo = {}
    BY <1>7 DEF ReconcileAdvance, Reconciled
  <2>2. CASE recon.pc = "remote" /\ recon' = [recon EXCEPT !.pc = "orders", !.todo = {o \in Orders : recon.local[o] # NoOrder}]
    <3> DEFINE todo == {o \in Orders : recon.local[o] # NoOrder}
    <3> HIDE DEF todo
    <3>1. recon' = [recon EXCEPT !.pc = "orders", !.todo = todo]
      BY <2>2 DEF todo
    <3>2. /\ recon'.pc = "orders" /\ recon'.todo = todo /\ recon'.local = recon.local /\ recon'.snapshot = recon.snapshot
          /\ recon'.events = recon.events /\ recon'.blocked = recon.blocked
      BY <1>1, <3>1 DEF Recons
    <3> QED BY <2>1, <2>2, <3>2 DEF ReconPasses, todo
  <2> QED BY <1>3, <1>7, <2>1, <2>2 DEF ReconcileAdvance
<1>8. CASE RepairRead
  <2>1. recon' = [recon EXCEPT !.step = "reserve", !.read = orders[Head(recon.events).order]]
    BY <1>8 DEF RepairRead
  <2> QED BY <1>1, <2>1 DEF Recons, ReconKeeps, ReconFrame
<1>9. CASE RepairFails
  BY <1>1, <1>9 DEF RepairFails, Recons, ReconFails, ReconFrame
<1>10. CASE RepairReserve
  <2>1. CASE recon' = [recon EXCEPT !.step = "apply"]
    BY <1>1, <2>1 DEF Recons, ReconKeeps, ReconFrame
  <2> QED BY <1>9, <1>10, <2>1 DEF RepairReserve
<1>11. CASE RepairApply
  <2>1. PICK result \in EventResults :
          /\ PublishBrokerEvent(recon.read, Head(recon.events), recon.at, result)
          /\ IF result \in {"error", "collision"} THEN RepairFails
             ELSE recon' = [recon EXCEPT !.step = "read", !.read = NoOrder, !.events = Tail(@)]
    BY <1>11 DEF RepairApply
  <2>2. CASE result \notin {"error", "collision"}
    <3>1. recon.step = "apply" /\ recon.events # <<>>
      BY <1>11 DEF RepairApply, Control, ReconOK
    <3>2. recon' = [recon EXCEPT !.step = "read", !.read = NoOrder, !.events = Tail(@)]
      BY <2>1, <2>2
    <3>3. /\ recon'.pc = recon.pc /\ recon'.snapshot = recon.snapshot /\ recon'.local = recon.local
          /\ recon'.todo = recon.todo /\ recon'.blocked = recon.blocked /\ recon'.events = Tail(recon.events)
      BY <1>1, <3>2 DEF Recons
    <3> QED BY <2>1, <2>2, <3>1, <3>3 DEF ReconRepaired, ReconFrame
  <2> QED BY <1>9, <2>1, <2>2
<1> QED BY <1>2, <1>4, <1>5, <1>6, <1>7, <1>8, <1>10, <1>11, ReconMoves DEF ReconcileStep

\* Only a status repair of a cancelled order cancels it.
LEMMA StatusesKept ==
  ASSUME Control, [Next]_vars, Statuses
  PROVE  Statuses'
<1>1. recon.events \in Seq(EventRecords) /\ Len(recon.events) \in Nat
  BY DEF Control, ReconOK, Recons
<1>2. CASE ReconKeeps \/ ReconLists \/ ReconPasses
  <2>1. recon'.events = recon.events /\ recon'.snapshot = recon.snapshot
    BY <1>2 DEF ReconKeeps, ReconLists, ReconPasses, ReconFrame
  <2> QED BY <2>1 DEF Statuses
<1>3. CASE ReconFails \/ ReconBegins
  <2>1. recon'.events = <<>>
    BY <1>3 DEF ReconFails, ReconBegins
  <2> QED BY <2>1 DEF Statuses
<1>4. CASE ReconRepaired
  <2>1. recon.events # <<>> /\ recon'.events = Tail(recon.events) /\ recon'.snapshot = recon.snapshot
    BY <1>4 DEF ReconRepaired, ReconFrame
  <2>2. /\ Len(Tail(recon.events)) = Len(recon.events) - 1
        /\ \A i \in 1..Len(Tail(recon.events)) : Tail(recon.events)[i] = recon.events[i + 1]
    BY <1>1, <2>1, HeadTailProperties
  <2>3. \A i \in 1..Len(recon'.events) : i + 1 \in 1..Len(recon.events) /\ recon'.events[i] = recon.events[i + 1]
    BY <1>1, <2>1, <2>2
  <2> QED BY <2>1, <2>3 DEF Statuses
<1>5. ASSUME NEW o \in Orders, ReconcileRemote(o) \/ ReconcileOrder(o) PROVE Statuses'
  <2>1. ReconOrder(o)
    BY <1>5, RemoteProposes, OrderProposes
  <2> QED BY <2>1 DEF ReconOrder, ReconFrame, Statuses
<1> QED BY <1>2, <1>3, <1>4, <1>5, ReconSteps

\* A snapshot of a cancelled order counts its partial fills, now and later.
LEMMA SnapshotCountsKept ==
  ASSUME Control, Control', Grows, InTurn', [Next]_vars, SnapshotCounts
  PROVE  SnapshotCounts'
<1>1. CASE ReconBegins /\ UNCHANGED <<book, delivered>>
  <2>1. CASE recon'.snapshot = IdleRecon.snapshot
    <3>1. \A o \in Orders : IdleRecon.snapshot[o].state = "none"
      BY DEF IdleRecon, NotPlaced
    <3> QED BY <2>1, <3>1 DEF SnapshotCounts
  <2>2. CASE recon'.snapshot = book
    <3>1. ASSUME NEW o \in Orders PROVE PartialsUpTo(o, book[o].cum)
      BY DEF PartialsUpTo, IsPartial, Control, BrokerSound, Consistent
    <3> QED BY <1>1, <2>2, <3>1 DEF SnapshotCounts, PartialsUpTo, IsPartial
  <2> QED BY <1>1, <2>1, <2>2 DEF ReconBegins
<1>2. CASE ~(ReconBegins /\ UNCHANGED <<book, delivered>>)
  <2>1. recon'.snapshot = recon.snapshot
    BY <1>2, ReconSteps, RemoteProposes, OrderProposes
       DEF ReconKeeps, ReconFails, ReconLists, ReconPasses, ReconRepaired, ReconOrder, ReconFrame
  <2>2. ASSUME NEW o \in Orders, recon.snapshot[o].state = "CANCELLED"
        PROVE  PartialsUpTo(o, recon.snapshot[o].cum)'
    <3>1. CancelDelivered(o)
      BY <2>2 DEF Control, ReconOK, SnapshotBacked
    <3>2. PICK c : c = recon.snapshot[o].cum
      OBVIOUS
    <3>3. PartialsUpTo(o, c)
      BY <2>2, <3>2 DEF SnapshotCounts
    <3>4. PartialsUpTo(o, c)'
      BY <3>1, <3>3, PartialsStay DEF Control, BrokerSound
    <3>5. recon'.snapshot[o].cum = c
      BY <2>1, <3>2
    <3> QED BY <3>4, <3>5 DEF PartialsUpTo
  <2> QED BY <2>1, <2>2 DEF SnapshotCounts
<1> QED BY <1>1, <1>2

\* A report of an execution or a cancellation comes from the event in hand.
LEMMA CommitInHand ==
  ASSUME NEW o \in Orders, NEW report \in ReportRecords, NEW exec, NEW quantity, Commit(o, report, exec, quantity),
         report.type \in {"PARTIAL_FILL", "FILL", "CANCELLED"}
  PROVE  \E e \in EventRecords :
           /\ InHand(e) /\ EventBacked(e) /\ e.order = o
           /\ e.type = report.type /\ e.cum = report.cum /\ e.fill = quantity
<1>1. PICK e \in EventRecords, at \in Times \cup {0} :
        InHand(e) /\ EventBacked(e) /\ e.order = o /\ report = EventReport(e, at) /\ exec = e.exec /\ quantity = e.fill
  BY DEF Commit, Justified
<1>2. report.type = e.type /\ report.cum = e.cum
  BY <1>1 DEF EventReport, Report
<1> QED BY <1>1, <1>2

\* The event that cancels an order counts the partial fills.
LEMMA CancelCounts ==
  ASSUME Control, Follows, InTurn, Statuses, SnapshotCounts, NEW e \in EventRecords, InHand(e), EventBacked(e), e.type = "CANCELLED",
         orders[e.order].filled = e.cum
  PROVE  PartialsUpTo(e.order, e.cum)
<1>1. CASE drain.left # <<>> /\ e = Head(drain.left)
  <2>1. /\ Head(drain.left) = delivered[drain.next - Len(drain.left) + 1]
        /\ drain.next - Len(drain.left) + 1 \in (cursor + 1)..drain.next
        /\ drain.next \in cursor..Len(delivered) /\ drain.by \in Drainers
    BY <1>1, Heads
  <2>2. drain.by # "none"
    BY <1>1 DEF Control, DrainOK
  <2>3. /\ Through = drain.next - Len(drain.left)
        /\ Through \in cursor..Len(delivered) /\ cursor \in Nat /\ Len(delivered) \in Nat
    BY <2>2, ThroughTyped DEF Through
  <2>4. Through + 1 \in 1..Len(delivered) /\ IsCancel(delivered[Through + 1], e.order)
    <3>1. drain.next \in Nat /\ Len(drain.left) \in Nat
      BY DEF Control, DrainOK, Drains
    <3>2. Through + 1 = drain.next - Len(drain.left) + 1
      BY <2>3, <3>1
    <3>3. delivered[Through + 1] = e
      BY <1>1, <2>1, <3>2
    <3>4. Through + 1 \in 1..Len(delivered)
      BY <2>1, <2>3, <3>1, <3>2
    <3> QED BY <3>3, <3>4 DEF IsCancel
  <2>5. e.order \in Orders
    BY DEF EventRecords
  <2>6. \A j \in 1..Len(delivered) : IsPartial(delivered[j], e.order) => j < Through + 1
    BY <2>4, <2>5 DEF InTurn, Ordered
  <2>7. ASSUME NEW j \in 1..Len(delivered), IsPartial(delivered[j], e.order), delivered[j].fill > 0
        PROVE  delivered[j].cum <= e.cum
    <3>1. j \in 1..Through
      BY <2>3, <2>6, <2>7
    <3>2. orders[e.order].filled >= delivered[j].cum
      BY <2>7, <3>1 DEF Follows, Passed, IsPartial
    <3> QED BY <3>2
  <2> QED BY <2>7 DEF PartialsUpTo
<1>2. CASE recon.events # <<>> /\ e = Head(recon.events)
  <2>1. recon.events \in Seq(EventRecords)
    BY DEF Control, ReconOK, Recons
  <2>2. 1 \in 1..Len(recon.events) /\ e = recon.events[1]
    BY <1>2, <2>1
  <2>3. recon.snapshot[e.order].state = "CANCELLED" /\ e.cum = recon.snapshot[e.order].cum
    BY <2>2 DEF Statuses
  <2> QED BY <2>3 DEF SnapshotCounts, EventRecords
<1> QED BY <1>1, <1>2 DEF InHand

LEMMA CountedKept ==
  ASSUME Control, Control', Grows, InTurn, InTurn', Grounds, Commits, Follows, Statuses, SnapshotCounts, Counted
  PROVE  Counted'
<1>1. ASSUME NEW o \in Orders, orders'[o] = orders[o], orders[o].state = "CANCELLED"
      PROVE  PartialsUpTo(o, orders[o].filled)'
  <2>1. CancelDelivered(o) /\ PartialsUpTo(o, orders[o].filled)
    BY <1>1 DEF Grounds, Evidence, Counted
  <2>2. PICK c : c = orders[o].filled
    OBVIOUS
  <2>3. PartialsUpTo(o, c)'
    BY <2>1, <2>2, PartialsStay DEF Control, BrokerSound
  <2>4. orders'[o].filled = c
    BY <1>1, <2>2
  <2> QED BY <2>3, <2>4 DEF PartialsUpTo
<1>2. CASE NoCommit
  BY <1>1, <1>2 DEF NoCommit, Counted
<1>3. ASSUME NEW o \in Orders, NEW report \in ReportRecords, NEW exec \in Suffixes, NEW quantity \in Nat,
             Commit(o, report, exec, quantity)
      PROVE  Counted'
  <2>1. Publication(o, report, exec, quantity) /\ UNCHANGED brokerVars
    BY <1>3 DEF Commit
  <2>2. /\ \A x \in Orders : x # o => orders'[x] = orders[x]
        /\ orders'[o].filled = report.cum
        /\ orders'[o].state \in {orders[o].state, reportTarget[report.type]}
        /\ report.type \notin {"PARTIAL_FILL", "FILL"} => report.cum = orders[o].filled
        /\ Advances(o)
    BY <2>1, CommitApplies DEF Control
  <2>3. ASSUME orders'[o].state = "CANCELLED" PROVE PartialsUpTo(o, orders'[o].filled)
    <3>1. orders[o].filled \in Nat /\ orders'[o].filled \in Nat
      BY DEF Control, StoreTyped, OrderRecords
    <3>2. CASE orders[o].state = "CANCELLED"
      <4>1. PartialsUpTo(o, orders[o].filled) /\ orders[o].filled <= orders'[o].filled
        BY <2>2, <3>2 DEF Counted, Advances
      <4> QED BY <3>1, <4>1, PartialsFurther DEF Control, BrokerSound
    <3>3. CASE orders[o].state # "CANCELLED"
      <4>1. reportTarget[report.type] = "CANCELLED"
        BY <2>2, <2>3, <3>3
      <4>2. report.type = "CANCELLED"
        <5>1. report.type \in ReportTypes
          BY DEF ReportRecords
        <5> QED BY <4>1, <5>1 DEF reportTarget, ReportTypes
      <4>3. PICK e \in EventRecords : InHand(e) /\ EventBacked(e) /\ e.order = o /\ e.type = report.type /\ e.cum = report.cum
        BY <1>3, <4>2, CommitInHand
      <4>4. PartialsUpTo(e.order, e.cum)
        BY <2>2, <4>2, <4>3, CancelCounts
      <4> QED BY <2>2, <4>3, <4>4
    <3> QED BY <3>2, <3>3
  <2>4. ASSUME orders'[o].state = "CANCELLED" PROVE PartialsUpTo(o, orders[o].filled)'
    BY <2>1, <2>3, <2>4 DEF PartialsUpTo, brokerVars, IsPartial
  <2>5. ASSUME NEW x \in Orders, orders'[x].state = "CANCELLED" PROVE PartialsUpTo(x, orders[x].filled)'
    BY <1>1, <2>2, <2>4, <2>5
  <2> QED BY <2>5 DEF Counted
<1> QED BY <1>2, <1>3 DEF Commits

\* A cancelled order leaves its state only when it is filled.
LEMMA CancelledStays ==
  ASSUME Control, Commits, Counted, NEW o \in Orders, orders[o].state = "CANCELLED"
  PROVE  orders'[o].state \in {"CANCELLED", "FILLED"}
<1>1. CASE NoCommit
  BY <1>1 DEF NoCommit
<1>2. ASSUME NEW x \in Orders, NEW report \in ReportRecords, NEW exec \in Suffixes, NEW quantity \in Nat,
             Commit(x, report, exec, quantity)
      PROVE  orders'[o].state \in {"CANCELLED", "FILLED"}
  <2>1. Publication(x, report, exec, quantity)
    BY <1>2 DEF Commit
  <2>2. /\ o # x => orders'[o] = orders[o]
        /\ orders'[x] = ApplyExecutionReport(orders[x], report)
        /\ report.type \in {"PARTIAL_FILL", "FILL"} => quantity > 0 /\ report.cum = orders[x].filled + quantity
    BY <2>1, CommitApplies DEF Control
  <2>3. CASE o # x
    BY <2>2, <2>3
  <2>4. CASE o = x
    <3>1. orders'[o].state = NextState(orders[o], report)
      <4>1. ApplyExecutionReport(orders[o], report).state = NextState(orders[o], report)
        BY DEF ApplyExecutionReport
      <4> QED BY <2>2, <2>4, <4>1
    <3>2. report.type \in ReportTypes /\ report.cum \in Nat
      BY DEF ReportRecords
    <3>3. report.type # "PARTIAL_FILL" => orders'[o].state \in {"CANCELLED", "FILLED"}
      BY <3>1, <3>2 DEF NextState, legalTransition, reportTarget, ReportTypes, FillTargets
    <3>4. ASSUME report.type = "PARTIAL_FILL" PROVE FALSE
      <4>1. PICK e \in EventRecords : EventBacked(e) /\ e.order = o /\ e.type = report.type /\ e.cum = report.cum /\ e.fill = quantity
        BY <1>2, <2>4, <3>4, CommitInHand
      <4>2. quantity > 0 /\ report.cum = orders[o].filled + quantity /\ orders[o].filled \in Nat
        BY <2>2, <2>4, <3>4 DEF Control, StoreTyped, OrderRecords
      <4>3. PICK i \in 1..Len(delivered) :
              delivered[i].order = o /\ delivered[i].fill = quantity /\ delivered[i].cum = report.cum
        BY <4>1, <4>2 DEF EventBacked, Delivered
      <4>4. SoundEvent(delivered[i])
        BY DEF Control, BrokerSound, Consistent
      <4>5. report.cum # Quantity[o]
        <5>1. QuantitiesAgree(orders[o], report, quantity) /\ orders[o].quantity = Quantity[o]
          BY <2>1, <2>4 DEF Publication, Applies, Control, StoreTyped
        <5>2. reportTarget[report.type] = "PARTIALLY_FILLED"
          BY <3>4 DEF reportTarget
        <5> QED BY <5>1, <5>2 DEF QuantitiesAgree, FillTargets
      <4>6. IsPartial(delivered[i], o)
        BY <4>2, <4>3, <4>4, <4>5 DEF SoundEvent, IsPartial
      <4>7. report.cum <= orders[o].filled
        BY <4>2, <4>3, <4>6 DEF Counted, PartialsUpTo
      <4> QED BY <4>2, <4>7
    <3> QED BY <3>3, <3>4
  <2> QED BY <2>3, <2>4
<1> QED BY <1>1, <1>2 DEF Commits

-----------------------------------------------------------------------------
(* A reconciliation without an issue misses nothing of its snapshot.       *)

Settled(o) == Caught(o) \/ Pending(o)

\* While no issue was found: the broker's orders that are not settled were either read
\* as nonterminal, and come up later, or are cancelled and not looked at yet; then
\* every one that is not settled comes up as a local order.
Clean ==
  /\ \A o \in Orders : recon.local[o].filled <= orders[o].filled
  /\ recon.pc = "remote" /\ ~recon.blocked => \A o \in Listed :
       Settled(o) \/ recon.local[o] # NoOrder \/ (o \in recon.todo /\ orders[o].state = "CANCELLED")
  /\ recon.pc = "orders" /\ ~recon.blocked => \A o \in Listed : Settled(o) \/ o \in recon.todo

LEMMA Numbers ==
  ASSUME Control, NEW o \in Orders
  PROVE  /\ orders[o].filled \in Nat /\ recon.local[o].filled \in Nat /\ recon.snapshot[o].cum \in Nat
         /\ recon.snapshot[o].cum <= Quantity[o]
<1>1. orders[o] \in OrderRecords /\ recon.local[o] \in OrderRecords /\ recon.snapshot[o] \in Entries /\ book[o] \in Entries
  BY DEF Control, StoreTyped, ReconOK, Recons, BrokerSound, BrokerTyped
<1>2. orders[o].filled \in Nat /\ recon.local[o].filled \in Nat /\ recon.snapshot[o].cum \in Nat /\ book[o].cum \in Nat
  BY <1>1 DEF OrderRecords, Entries
<1>3. recon.snapshot[o].cum <= book[o].cum /\ book[o].cum <= Quantity[o]
  BY DEF Control, ReconOK, SnapshotBacked, BrokerSound, Consistent
<1>4. Quantity[o] \in Nat
  BY QuantityTyped
<1> QED BY <1>2, <1>3, <1>4

FilledCaught == \A o \in Orders : orders[o].state = "FILLED" => Caught(o)

LEMMA FilledAreCaught == Control => FilledCaught
<1>1. SUFFICES ASSUME Control, NEW o \in Orders, orders[o].state = "FILLED" PROVE Caught(o)
  BY DEF FilledCaught
<1>2. orders[o].filled = Quantity[o]
  BY <1>1 DEF Control, StoreTyped, ValidOrder
<1>3. orders[o].filled \in Nat /\ recon.snapshot[o].cum \in Nat /\ recon.snapshot[o].cum <= Quantity[o]
  BY <1>1, Numbers
<1>4. Caught(o)
  BY <1>2, <1>3 DEF Caught
<1> QED BY <1>4

LEMMA CaughtKept ==
  ASSUME Control, Control', NEW o \in Orders, Advances(o), Caught(o), recon'.snapshot = recon.snapshot
  PROVE  Caught(o)'
<1>1. orders[o].filled \in Nat /\ recon.snapshot[o].cum \in Nat
  BY Numbers
<1>2. orders'[o].filled \in Nat
  BY DEF Control, StoreTyped, OrderRecords
<1> QED BY <1>1, <1>2 DEF Caught, Advances

\* A cancelled order is cancelled still, or filled.
LEMMA CancelledOpen ==
  ASSUME Control, Control', Commits, Counted, NEW o \in Orders, orders[o].state = "CANCELLED"
  PROVE  orders'[o].state = "CANCELLED" \/ Caught(o)'
<1>1. orders'[o].state = "FILLED" => Caught(o)'
  <2>1. (Control => FilledCaught)'
    BY FilledAreCaught, PTL
  <2> QED BY <2>1 DEF FilledCaught
<1>2. orders'[o].state \in {"CANCELLED", "FILLED"}
  BY CancelledStays
<1> QED BY <1>1, <1>2

\* The next repair in the store: an order whose last repair it was has caught up.
LEMMA PendingRepaired ==
  ASSUME Control, Accounted, Follows, ReconRepaired, NEW o \in Orders, Pending(o)
  PROVE  Settled(o)'
<1>0. /\ recon.events \in Seq(EventRecords) /\ recon.events # <<>>
      /\ recon'.events = Tail(recon.events) /\ recon'.snapshot = recon.snapshot
  BY DEF Control, ReconOK, Recons, ReconRepaired, ReconFrame
<1>1. /\ Len(recon.events) \in Nat \ {0} /\ Head(recon.events) = recon.events[1]
      /\ Len(recon'.events) = Len(recon.events) - 1
      /\ \A i \in 1..Len(recon'.events) : recon'.events[i] = recon.events[i + 1]
  BY <1>0, HeadTailProperties
<1>2. CASE Len(recon.events) > 1
  <2>1. Len(recon'.events) \in 1..Len(recon'.events) /\ recon'.events[Len(recon'.events)] = recon.events[Len(recon.events)]
    BY <1>1, <1>2
  <2>2. recon'.events # <<>>
    BY <2>1
  <2> QED BY <1>0, <2>1, <2>2 DEF Pending, Settled
<1>3. CASE Len(recon.events) = 1
  <2> DEFINE e == Head(recon.events)
  <2>1. e.order = o /\ e.cum = recon.snapshot[o].cum /\ e.fill > 0
    BY <1>1, <1>3 DEF Pending
  <2>2. e \in EventRecords /\ EventBacked(e)
    BY <1>0, Heads
  <2>3. recon.read \in OrderRecords /\ recon.at \in Times \cup {0} /\ UpTo(recon.read, e.order)
    BY DEF Control, ReconOK, Recons, ReconRepaired, Follows, Reads
  <2>4. PICK result \in EventResults \ {"error", "collision"} : PublishBrokerEvent(recon.read, e, recon.at, result)
    BY DEF ReconRepaired
  <2> HIDE DEF e
  <2>5. orders'[e.order].filled >= e.cum
    BY <2>1, <2>2, <2>3, <2>4, EventDone
  <2>6. orders'[o].filled >= recon'.snapshot[o].cum
    BY <1>0, <2>1, <2>5
  <2>7. Caught(o)'
    BY <2>6 DEF Caught
  <2> QED BY <2>7 DEF Settled
<1>4. Len(recon.events) = 1 \/ Len(recon.events) > 1
  <2>1. \A n \in Nat \ {0} : n = 1 \/ n > 1
    OBVIOUS
  <2> QED BY <1>1, <2>1
<1> QED BY <1>2, <1>3, <1>4

\* A list of the local orders leaves none of the broker's orders behind.
LEMMA ListsClean ==
  ASSUME Control, Grounds, ReconLists
  PROVE  Clean'
<1>0. orders' = orders /\ recon'.pc = "remote" /\ recon'.snapshot = recon.snapshot /\ recon'.todo = Listed
  BY DEF ReconLists, storeVars
<1>1. ASSUME NEW o \in Orders
      PROVE  recon'.local[o] = IF Nonterminal(orders[o]) THEN orders[o] ELSE NoOrder
  BY DEF ReconLists
<1>2. \A o \in Orders : recon'.local[o].filled <= orders'[o].filled
  <2>1. NoOrder.filled = 0
    BY DEF NoOrder, NewOrder
  <2>2. \A o \in Orders : orders[o].filled \in Nat
    BY Numbers
  <2> QED BY <1>0, <1>1, <2>1, <2>2
<1>3. ASSUME NEW o \in Listed PROVE Caught(o) \/ recon'.local[o] # NoOrder \/ orders[o].state = "CANCELLED"
  <2>1. o \in Orders /\ orders[o] \in OrderRecords /\ orders[o].state \in OrderStates
    BY DEF Listed, Control, StoreTyped, OrderRecords
  <2>2. CASE Nonterminal(orders[o])
    <3>1. orders[o].quantity = Quantity[o] /\ Quantity[o] \in Nat \ {0} /\ NoOrder.quantity = 0
      BY <2>1, QuantityTyped DEF Control, StoreTyped, NoOrder, NewOrder
    <3>2. orders[o].quantity # NoOrder.quantity
      BY <3>1
    <3> QED BY <1>1, <2>1, <2>2, <3>2
  <2>3. CASE orders[o].state = "FILLED"
    BY <2>1, <2>3, FilledAreCaught DEF FilledCaught
  <2>4. CASE orders[o].state = "REJECTED"
    <3>1. Refused(o)
      BY <2>1, <2>4 DEF Grounds, Evidence
    <3>2. book[o].cum = 0 /\ recon.snapshot[o].cum <= book[o].cum
      BY <2>1, <3>1 DEF Refused, RefusedIn, Control, ReconOK, SnapshotBacked
    <3>3. orders[o].filled \in Nat /\ recon.snapshot[o].cum \in Nat
      BY <2>1, Numbers
    <3> QED BY <3>2, <3>3 DEF Caught
  <2>5. orders[o].state \notin {"EXPIRED", "FAILED"}
    BY <2>1 DEF Grounds, Evidence
  <2> QED BY <2>2, <2>3, <2>4, <2>5 DEF Nonterminal, Terminal
<1>4. Listed' = Listed
  BY <1>0 DEF Listed
<1>5. \A o : Caught(o) => Caught(o)'
  BY <1>0 DEF Caught
<1> QED BY <1>0, <1>2, <1>3, <1>4, <1>5 DEF Clean, Settled

\* An order done with is settled, or comes up again as a local order.
LEMMA OrderClean ==
  ASSUME Control, Clean, NEW o \in Orders, ReconcileRemote(o) \/ ReconcileOrder(o)
  PROVE  Clean'
<1>1. ReconOrder(o)
  BY RemoteProposes, OrderProposes
<1>2. /\ orders' = orders /\ recon'.pc = recon.pc /\ recon'.snapshot = recon.snapshot /\ recon'.local = recon.local
      /\ recon'.todo = recon.todo \ {o} /\ (recon.blocked => recon'.blocked) /\ recon.events = <<>>
  BY <1>1 DEF ReconOrder, ReconFrame, storeVars
<1>3. Listed' = Listed /\ Listed \subseteq Orders
  BY <1>2 DEF Listed
<1>4. \A x : (Caught(x) => Caught(x)') /\ ~Pending(x)
  BY <1>2 DEF Caught, Pending
<1>5. \A x \in Orders : recon'.local[x].filled <= orders'[x].filled
  BY <1>2 DEF Clean
<1>6. ASSUME recon.pc = "remote", ~recon'.blocked, NEW x \in Listed
      PROVE  Settled(x)' \/ recon'.local[x] # NoOrder \/ (x \in recon'.todo /\ orders'[x].state = "CANCELLED")
  <2>1. Caught(x) \/ recon.local[x] # NoOrder \/ (x \in recon.todo /\ orders[x].state = "CANCELLED")
    BY <1>2, <1>4, <1>6 DEF Clean, Settled
  <2>2. CASE x # o
    BY <1>2, <1>4, <2>1, <2>2 DEF Settled
  <2>3. CASE x = o
    <3>1. ReconcileRemote(o)
      BY <1>6, OrderProposes
    <3>2. Pending(o)' \/ orders[o].state # "CANCELLED" \/ Caught(o)
      BY <1>6, <3>1, RemoteProposes
    <3> QED BY <1>2, <1>4, <2>1, <2>3, <3>2 DEF Settled
  <2> QED BY <2>2, <2>3
<1>7. ASSUME recon.pc = "orders", ~recon'.blocked, NEW x \in Listed
      PROVE  Settled(x)' \/ x \in recon'.todo
  <2>1. Caught(x) \/ x \in recon.todo
    BY <1>2, <1>4, <1>7 DEF Clean, Settled
  <2>2. CASE x # o
    BY <1>2, <1>4, <2>1, <2>2 DEF Settled
  <2>3. CASE x = o
    <3>1. ReconcileOrder(o)
      BY <1>7, RemoteProposes
    <3>2. Pending(o)' \/ recon.local[o].filled >= recon.snapshot[o].cum
      BY <1>7, <2>3, <3>1, OrderProposes
    <3>3. recon.local[o].filled >= recon.snapshot[o].cum => Caught(o)
      <4>1. recon.local[o].filled <= orders[o].filled
        BY DEF Clean
      <4> QED BY <4>1, Numbers DEF Caught
    <3> QED BY <1>4, <2>3, <3>2, <3>3 DEF Settled
  <2> QED BY <2>2, <2>3
<1> QED BY <1>2, <1>3, <1>5, <1>6, <1>7 DEF Clean

LEMMA CleanKept ==
  ASSUME Control, Control', Grounds, Accounted, Follows, Counted, Commits, \A o \in Orders : Advances(o), [Next]_vars, Clean
  PROVE  Clean'
<1>1. ASSUME recon'.local = recon.local PROVE \A o \in Orders : recon'.local[o].filled <= orders'[o].filled
  <2>1. ASSUME NEW o \in Orders PROVE recon.local[o].filled <= orders'[o].filled
    <3>1. orders'[o].filled \in Nat
      BY DEF Control, StoreTyped, OrderRecords
    <3>2. recon.local[o].filled <= orders[o].filled /\ orders[o].filled <= orders'[o].filled
      BY DEF Clean, Advances
    <3>3. orders[o].filled \in Nat /\ recon.local[o].filled \in Nat
      BY Numbers
    <3> QED BY <3>1, <3>2, <3>3
  <2> QED BY <1>1, <2>1
<1>2. CASE ReconFails
  BY <1>1, <1>2 DEF ReconFails, ReconFrame, Clean
<1>3. CASE ReconBegins
  <2>1. NoOrder.filled = 0
    BY DEF NoOrder, NewOrder
  <2>2. \A o \in Orders : recon'.local[o].filled = 0
    BY <1>3, <2>1 DEF ReconBegins, NoOrders
  <2>3. \A o \in Orders : orders'[o].filled \in Nat
    BY DEF Control, StoreTyped, OrderRecords
  <2>4. \A o \in Orders : recon'.local[o].filled <= orders'[o].filled
    BY <2>2, <2>3
  <2> QED BY <1>3, <2>4 DEF ReconBegins, Clean
<1>4. CASE ReconLists
  BY <1>4, ListsClean
<1>5. CASE \E o \in Orders : ReconcileRemote(o) \/ ReconcileOrder(o)
  BY <1>5, OrderClean
<1>6. CASE ReconPasses
  <2>1. /\ recon.pc = "remote" /\ recon.todo = {} /\ recon'.pc = "orders"
        /\ recon'.todo = {o \in Orders : recon.local[o] # NoOrder}
        /\ recon'.snapshot = recon.snapshot /\ recon'.local = recon.local /\ recon'.events = recon.events
        /\ recon'.blocked = recon.blocked /\ orders' = orders
    BY <1>6 DEF ReconPasses, storeVars
  <2>2. Listed' = Listed /\ Listed \subseteq Orders
    BY <2>1 DEF Listed
  <2>3. \A o : Settled(o) => Settled(o)'
    BY <2>1 DEF Settled, Caught, Pending
  <2>4. ASSUME ~recon'.blocked, NEW o \in Listed PROVE Settled(o)' \/ o \in recon'.todo
    BY <2>1, <2>2, <2>3, <2>4 DEF Clean
  <2> QED BY <1>1, <2>1, <2>2, <2>4 DEF Clean
<1>7. CASE ReconKeeps \/ ReconRepaired
  <2>1. /\ recon'.pc = recon.pc /\ recon'.snapshot = recon.snapshot /\ recon'.local = recon.local
        /\ recon'.todo = recon.todo /\ recon'.blocked = recon.blocked
    BY <1>7 DEF ReconKeeps, ReconRepaired, ReconFrame
  <2>2. Listed' = Listed /\ Listed \subseteq Orders
    BY <2>1 DEF Listed
  <2>3. ASSUME NEW o \in Orders, Settled(o) PROVE Settled(o)'
    <3>1. Caught(o) => Caught(o)'
      BY <2>1, CaughtKept
    <3>2. CASE ReconKeeps
      BY <2>1, <2>3, <3>1, <3>2 DEF ReconKeeps, Settled, Pending
    <3>3. CASE ReconRepaired
      BY <2>3, <3>1, <3>3, PendingRepaired DEF Settled
    <3> QED BY <1>7, <3>2, <3>3
  <2>4. ASSUME NEW o \in Orders, orders[o].state = "CANCELLED" PROVE orders'[o].state = "CANCELLED" \/ Settled(o)'
    BY <2>4, CancelledOpen DEF Settled
  <2>5. ASSUME recon.pc = "remote", ~recon.blocked, NEW o \in Listed
        PROVE  Settled(o)' \/ recon'.local[o] # NoOrder \/ (o \in recon'.todo /\ orders'[o].state = "CANCELLED")
    BY <2>1, <2>2, <2>3, <2>4, <2>5 DEF Clean
  <2>6. ASSUME recon.pc = "orders", ~recon.blocked, NEW o \in Listed PROVE Settled(o)' \/ o \in recon'.todo
    BY <2>1, <2>2, <2>3, <2>6 DEF Clean
  <2> QED BY <1>1, <2>1, <2>2, <2>5, <2>6 DEF Clean
<1> QED BY <1>2, <1>3, <1>4, <1>5, <1>6, <1>7, ReconSteps

Upkeep == InTurn /\ Statuses /\ SnapshotCounts /\ Counted /\ Clean

LEMMA UpkeepInvariant == Spec => []Upkeep
<1>1. Init => Statuses /\ SnapshotCounts /\ Counted /\ Clean
  <2>1. SUFFICES ASSUME Init PROVE Statuses /\ SnapshotCounts /\ Counted /\ Clean
    OBVIOUS
  <2>2. recon = IdleRecon /\ orders = [o \in Orders |-> NewOrder(Quantity[o])]
    BY <2>1 DEF Init
  <2>3. \A o \in Orders : recon.snapshot[o].state = "none" /\ recon.local[o] = NoOrder
    BY <2>2 DEF IdleRecon, NotPlaced, NoOrders
  <2>4. recon.events = <<>> /\ recon.pc = "idle"
    BY <2>2 DEF IdleRecon
  <2>5. \A o \in Orders : orders[o].state = "CREATED" /\ orders[o].filled = 0
    BY <2>2 DEF NewOrder
  <2>6. NoOrder.filled = 0
    BY DEF NoOrder, NewOrder
  <2> QED BY <2>3, <2>4, <2>5, <2>6 DEF Statuses, SnapshotCounts, Counted, Clean
<1>2. Control /\ Serial /\ Grounds /\ Accounted /\ Follows /\ InTurn /\ InTurn' /\ Statuses /\ SnapshotCounts /\ Counted
        /\ Clean /\ [Next]_vars
      => Statuses' /\ SnapshotCounts' /\ Counted' /\ Clean'
  <2>1. SUFFICES ASSUME Control, Serial, Grounds, Accounted, Follows, InTurn, InTurn', Statuses, SnapshotCounts, Counted,
                        Clean, [Next]_vars
                 PROVE  Statuses' /\ SnapshotCounts' /\ Counted' /\ Clean'
    OBVIOUS
  <2>2. Control' /\ Grows /\ Commits
    BY <2>1, ControlStep, GroundsStep
  <2>3. \A o \in Orders : Advances(o)
    BY <2>1, <2>2, CommitsAdvance DEF Control
  <2>4. Statuses'
    BY <2>1, StatusesKept
  <2>5. SnapshotCounts'
    BY <2>1, <2>2, SnapshotCountsKept
  <2>6. Counted'
    BY <2>1, <2>2, CountedKept
  <2>7. Clean'
    BY <2>1, <2>2, <2>3, CleanKept
  <2> QED BY <2>4, <2>5, <2>6, <2>7
<1> QED BY <1>1, <1>2, ControlInvariant, SerialInvariant, GroundsInvariant, AccountedInvariant, FollowsInvariant,
           InTurnInvariant, PTL DEF Spec, Upkeep

\* A reconciliation that ends without an issue leaves no execution of its snapshot
\* unbooked, whatever workers, drains and cancellations did to the store meanwhile
\* (reconciliation.Reconcile), for every number of orders, plans and workers.
THEOREM ReconciliationIsComplete == Spec => []CleanReconciliation
<1>1. Upkeep => CleanReconciliation
  BY DEF Upkeep, Clean, Settled, Pending, Caught, CleanReconciliation, Reconciled, Listed
<1> QED BY <1>1, UpkeepInvariant, PTL

=============================================================================
