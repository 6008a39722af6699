--------------------------- MODULE TradingRuntime ---------------------------
(***************************************************************************)
(* The trading runtime (internal/tradingruntime/runtime.go): one Start,    *)
(* one caller of Refresh, concurrent calls of Process and one Shutdown,    *)
(* which may overtake Start.                                               *)
(*                                                                         *)
(* A step ends where the code leaves a lock or returns from a stage.  The  *)
(* stages (strategy, risk, execution, accounting) answer in any way their  *)
(* interfaces allow; a cancelled context makes an error likely but does    *)
(* not force one, because AfterFunc cancels from its own goroutine.        *)
(* Notifications are best effort and left out.                             *)
(***************************************************************************)
EXTENDS Integers, Sequences, FiniteSets

(***************************************************************************)
(* The session and strategy state machines of internal/tradingruntime      *)
(* (session.go, strategy.go) as operators.  A moment of the trading day is *)
(* the phase the exchange calendar gives it: BEFORE the first open, AFTER  *)
(* the last close, BREAK between two sessions, HOLIDAY, or a regime.       *)
(***************************************************************************)

Regimes == {"NORMAL", "PRE_CAS", "CAS_ACTIVE", "POST_CAS"}

Phases == Regimes \cup {"BEFORE", "AFTER", "BREAK", "HOLIDAY"}

SessionStates ==
  {"STARTING", "PRE_MARKET", "WARMING_UP", "READY", "NORMAL_TRADING", "PRE_CAS", "CAS_ACTIVE",
   "POST_CAS", "CLOSING", "CLOSED", "DEGRADED", "HALTED", "DRAINING", "STOPPED"}

\* The table of legalSessionTransition, without its three general rules.
allowed ==
  [STARTING       |-> {"PRE_MARKET", "WARMING_UP", "READY", "CLOSED"},
   PRE_MARKET     |-> {"WARMING_UP", "READY", "CLOSED"},
   WARMING_UP     |-> {"READY", "CLOSING"},
   READY          |-> {"NORMAL_TRADING", "PRE_CAS", "CAS_ACTIVE", "POST_CAS", "CLOSING"},
   NORMAL_TRADING |-> {"PRE_CAS", "CLOSING", "WARMING_UP"},
   PRE_CAS        |-> {"CAS_ACTIVE", "CLOSING", "WARMING_UP"},
   CAS_ACTIVE     |-> {"POST_CAS", "CLOSING", "WARMING_UP"},
   POST_CAS       |-> {"CLOSING", "WARMING_UP"},
   CLOSING        |-> {"CLOSED"},
   CLOSED         |-> {"STOPPED"},
   DEGRADED       |-> {"READY", "WARMING_UP", "CLOSING", "CLOSED"},
   HALTED         |-> {"WARMING_UP", "READY"},
   DRAINING       |-> {"STOPPED"},
   STOPPED        |-> {}]

legalSessionTransition(from, to) ==
  CASE to = "DRAINING" -> from # "STOPPED"
    [] to \in {"HALTED", "DEGRADED"} -> from \notin {"DRAINING", "STOPPED"}
    [] OTHER -> to \in allowed[from]

\* transitionLocked: an illegal transition leaves the session as it is.
transitionLocked(session, to, regime) ==
  IF session.state = to \/ legalSessionTransition(session.state, to)
  THEN [state |-> to, regime |-> regime] ELSE session

\* classifySession: where the calendar and readiness want the session.
classifySession(phase, ready, current) ==
  CASE phase = "HOLIDAY" -> [state |-> "CLOSED", regime |-> "none"]
    [] phase = "BEFORE" -> [state |-> "PRE_MARKET", regime |-> "none"]
    [] phase = "AFTER" ->
         [state |-> IF current \in {"CLOSING", "CLOSED"} THEN "CLOSED" ELSE "CLOSING", regime |-> "none"]
    [] phase = "BREAK" -> [state |-> "DEGRADED", regime |-> "none"]
    [] OTHER ->
         [state  |-> IF ~ready THEN "WARMING_UP"
                     ELSE IF current \in {"STARTING", "PRE_MARKET", "WARMING_UP", "DEGRADED"} THEN "READY"
                     ELSE IF phase = "NORMAL" THEN "NORMAL_TRADING" ELSE phase,
          regime |-> phase]

\* What the calendar answers Advance: the day, nothing, or the context was cancelled.
Replies == {"day", "unavailable", "cancelled"}

\* Advance: a calendar that cannot answer halts the session.
Advance(session, phase, ready, reply) ==
  LET desired == classifySession(phase, ready, session.state) IN
  CASE reply = "day" -> transitionLocked(session, desired.state, desired.regime)
    [] reply = "unavailable" -> transitionLocked(session, "HALTED", "none")
    [] reply = "cancelled" -> session

\* Degrade, Halt, Drain and Stop keep the regime.
Degrade(session) == transitionLocked(session, "DEGRADED", session.regime)
Halt(session) == transitionLocked(session, "HALTED", session.regime)
Drain(session) == transitionLocked(session, "DRAINING", session.regime)
Stop(session) == transitionLocked(session, "STOPPED", session.regime)

-----------------------------------------------------------------------------
StrategyStates ==
  {"REGISTERED", "DISABLED", "WARMING_UP", "ACTIVE", "SESSION_RESTRICTED", "RISK_RESTRICTED",
   "HALTED", "STOPPING"}

Policies == {"CAS_SAFE", "CAS_RESTRICTED", "CAS_DISABLED"}

\* eligibleState: what a strategy may do under the session, readiness and controls.
eligibleState(policy, session, ready, blocked) ==
  CASE blocked -> "HALTED"
    [] ~blocked /\ ~ready -> "RISK_RESTRICTED"
    [] ~blocked /\ ready /\ session.state \in {"WARMING_UP", "READY"} -> "WARMING_UP"
    [] ~blocked /\ ready /\ session.state \in {"NORMAL_TRADING", "PRE_CAS", "CAS_ACTIVE", "POST_CAS"} ->
         IF session.regime = "CAS_ACTIVE" /\ policy # "CAS_SAFE" THEN "SESSION_RESTRICTED" ELSE "ACTIVE"
    [] OTHER -> "SESSION_RESTRICTED"

\* Mutant of Held: Reconcile takes a halted strategy up again.
HeldUnlessHalted == {"DISABLED", "STOPPING"}

\* The states Reconcile leaves alone.
Held == {"DISABLED", "HALTED", "STOPPING"}

\* strategyAllows.
strategyAllows(state, policy, effect, regime) ==
  \/ state = "ACTIVE"
  \/ /\ effect = "REDUCE" /\ state = "SESSION_RESTRICTED"
     /\ regime = "CAS_ACTIVE" /\ policy # "CAS_DISABLED"

-----------------------------------------------------------------------------
CONSTANTS
  Strategies,
  Policy,          \* strategy -> its CAS policy
  Day,             \* the phases of the trading day, in order
  Events,          \* calls of Process
  Proposals,       \* what a strategy stage may return: sequences of [strategy, effect]
  ControlValues,   \* what the control source may return: see NoControls
  AdmissionLimit,
  MaxRefreshes     \* bound on Refresh calls

ASSUME RuntimeAssumption ==
  /\ Policy \in [Strategies -> Policies]
  /\ Day \in Seq(Phases) /\ Day # <<>>
  /\ AdmissionLimit \in 1..1024
  /\ MaxRefreshes \in Nat

VARIABLES
  state, restored, ready, controls,   \* Runtime, under mu
  session, strategies,                \* SessionCoordinator and StrategyManager
  slots,                              \* taken places of the semaphore
  inFlight,                           \* Runtime.inFlight and the WaitGroup's counter
  cancelled,                          \* Runtime.ctx
  clock,                              \* the current phase, an index of Day
  start, refresh, process, shutdown,  \* the calls in progress
  refreshes                           \* how many Refresh calls were made

runtimeVars == <<state, restored, ready, controls>>
vars == <<state, restored, ready, controls, session, strategies, slots, inFlight, cancelled, clock,
          start, refresh, process, shutdown, refreshes>>

\* ControlSnapshot: the kill switch, the block on new exposure, a block on the
\* portfolio of the decision, and the blocked strategies.
NoControls == [global |-> FALSE, exposure |-> FALSE, portfolio |-> FALSE, strategies |-> {}]

IdleRefresh == [pc |-> "idle", ready |-> FALSE, controls |-> NoControls,
                session |-> [state |-> "STARTING", regime |-> "none"]]

\* `overtaken' is a history: Shutdown had assigned STOPPED when Start assigned the state.
IdleStart == [pc |-> "idle", ready |-> FALSE, controls |-> NoControls,
              session |-> [state |-> "STARTING", regime |-> "none"], overtaken |-> FALSE]

IdleProcess == [pc |-> "idle", seen |-> <<>>, left |-> <<>>]

Init ==
  /\ state = "STARTING" /\ restored = FALSE /\ ready = FALSE /\ controls = NoControls
  /\ session = [state |-> "STARTING", regime |-> "none"]
  /\ strategies \in [Strategies -> {"REGISTERED", "DISABLED"}]
  /\ slots = 0 /\ inFlight = 0 /\ cancelled = FALSE
  /\ clock \in DOMAIN Day
  /\ start = IdleStart /\ refresh = IdleRefresh
  /\ process = [e \in Events |-> IdleProcess]
  /\ shutdown = [pc |-> "idle", clean |-> TRUE]
  /\ refreshes = 0

Phase == Day[clock]

\* fail: a draining runtime does not change its state any more.
fail(to) == state' = IF state \in {"DRAINING", "STOPPED"} THEN state ELSE to

\* Reconcile every strategy that is not held.
Reconciled(current, seen, isReady, control) ==
  [s \in Strategies |->
     IF current[s] \in Held THEN current[s]
     ELSE eligibleState(Policy[s], seen, isReady, control.global \/ s \in control.strategies)]

\* Time passes, with or without a Refresh in each phase.
Tick ==
  /\ clock < Len(Day)
  /\ clock' = clock + 1
  /\ UNCHANGED <<runtimeVars, session, strategies, slots, inFlight, cancelled, start, refresh, process, shutdown, refreshes>>

-----------------------------------------------------------------------------
(* Start is called once, by the composition that has just published the    *)
(* runtime to the operator's end of day: a Shutdown may overtake it at any *)
(* step.  Refresh and Process wait until it has returned.                  *)

StartGoto(pc) == start' = [start EXCEPT !.pc = pc]

\* The manifest, the restoration or the control source fails.
StartFails ==
  /\ start.pc = "idle"
  /\ fail("HALTED")
  /\ StartGoto("done")
  /\ UNCHANGED <<restored, ready, controls, session, strategies, slots, inFlight, cancelled, clock, refresh, process, shutdown, refreshes>>

\* Checkpoint, control source and dependencies are read without the lock.
Start(isReady, control) ==
  /\ start.pc = "idle"
  /\ start' = [start EXCEPT !.pc = "assign", !.ready = isReady, !.controls = control]
  /\ UNCHANGED <<runtimeVars, session, strategies, slots, inFlight, cancelled, clock, refresh, process, shutdown, refreshes>>

\* Whatever the state has become meanwhile, a shutdown's included.
StartAssign ==
  /\ start.pc = "assign"
  /\ restored' = TRUE /\ controls' = start.controls /\ ready' = start.ready
  /\ state' = IF start.ready THEN "RUNNING" ELSE "DEGRADED"
  /\ start' = [start EXCEPT !.pc = "session", !.overtaken = shutdown.pc \in {"session stop", "done"}]
  /\ UNCHANGED <<session, strategies, slots, inFlight, cancelled, clock, refresh, process, shutdown, refreshes>>

StartSession(reply) ==
  /\ start.pc = "session"
  /\ session' = IF start.ready THEN Advance(session, Phase, TRUE, reply) ELSE Degrade(session)
  /\ StartGoto("snapshot")
  /\ UNCHANGED <<runtimeVars, strategies, slots, inFlight, cancelled, clock, refresh, process, shutdown, refreshes>>

\* The argument of Reconcile is evaluated before its lock is taken.
StartSnapshot ==
  /\ start.pc = "snapshot"
  /\ start' = [start EXCEPT !.pc = "reconcile", !.session = session]
  /\ UNCHANGED <<runtimeVars, session, strategies, slots, inFlight, cancelled, clock, refresh, process, shutdown, refreshes>>

StartReconcile ==
  /\ start.pc = "reconcile"
  /\ strategies' = Reconciled(strategies, start.session, start.ready, start.controls)
  /\ start' = [IdleStart EXCEPT !.pc = "done", !.overtaken = start.overtaken]
  /\ UNCHANGED <<runtimeVars, session, slots, inFlight, cancelled, clock, refresh, process, shutdown, refreshes>>

-----------------------------------------------------------------------------
(* Refresh.                                                                *)

\* The control source and the dependencies are asked without the lock.  A source
\* that fails counts as a global block, and a global block as lost readiness.
Refresh(isReady, control) ==
  /\ start.pc = "done" /\ restored
  /\ refresh.pc = "idle" /\ refreshes < MaxRefreshes
  /\ refreshes' = refreshes + 1
  /\ refresh' = [IdleRefresh EXCEPT !.pc = "assign", !.ready = isReady /\ ~control.global,
                                    !.controls = control]
  /\ UNCHANGED <<runtimeVars, session, strategies, slots, inFlight, cancelled, clock, start, process, shutdown>>

\* Mutant of Refreshed: the state follows readiness whatever the runtime is doing.
RefreshedAlways == IF refresh.ready THEN "RUNNING" ELSE "DEGRADED"

Refreshed ==
  IF state \in {"DRAINING", "STOPPED", "HALTED"} THEN state
  ELSE IF refresh.ready THEN "RUNNING" ELSE "DEGRADED"

RefreshAssign ==
  /\ refresh.pc = "assign"
  /\ controls' = refresh.controls /\ ready' = refresh.ready
  /\ state' = Refreshed
  /\ refresh' = [refresh EXCEPT !.pc = "session"]
  /\ UNCHANGED <<restored, session, strategies, slots, inFlight, cancelled, clock, start, process, shutdown, refreshes>>

RefreshSession(reply) ==
  /\ refresh.pc = "session"
  /\ session' = IF refresh.ready THEN Advance(session, Phase, TRUE, reply) ELSE Degrade(session)
  /\ refresh' = [refresh EXCEPT !.pc = "snapshot"]
  /\ UNCHANGED <<runtimeVars, strategies, slots, inFlight, cancelled, clock, start, process, shutdown, refreshes>>

\* The argument of Reconcile is evaluated before its lock is taken.
RefreshSnapshot ==
  /\ refresh.pc = "snapshot"
  /\ refresh' = [refresh EXCEPT !.pc = "reconcile", !.session = session]
  /\ UNCHANGED <<runtimeVars, session, strategies, slots, inFlight, cancelled, clock, start, process, shutdown, refreshes>>

Reconcile ==
  /\ refresh.pc = "reconcile"
  /\ strategies' = Reconciled(strategies, refresh.session, refresh.ready, refresh.controls)
  /\ refresh' = IdleRefresh
  /\ UNCHANGED <<runtimeVars, session, slots, inFlight, cancelled, clock, start, process, shutdown, refreshes>>

\* The operator's changes to one strategy.
Disable(s) ==
  /\ strategies[s] \notin {"STOPPING", "DISABLED"}
  /\ strategies' = [strategies EXCEPT ![s] = "DISABLED"]
  /\ UNCHANGED <<runtimeVars, session, slots, inFlight, cancelled, clock, start, refresh, process, shutdown, refreshes>>

Recover(s) ==
  /\ strategies[s] = "HALTED"
  /\ strategies' = [strategies EXCEPT ![s] = "REGISTERED"]
  /\ UNCHANGED <<runtimeVars, session, slots, inFlight, cancelled, clock, start, refresh, process, shutdown, refreshes>>

-----------------------------------------------------------------------------
(* Process.                                                                *)

At(e, pc) == process[e].pc = pc
Goto(e, pc) == process' = [process EXCEPT ![e].pc = pc]
Done(e) == process' = [process EXCEPT ![e] = [IdleProcess EXCEPT !.pc = "done"]]
Head1(e) == Head(process[e].left)

\* The checks under the lock; a refused event returns at once.
Process(e) ==
  /\ At(e, "idle") /\ start.pc = "done"
  /\ restored /\ state = "RUNNING" /\ ready
  /\ Goto(e, "admit")
  /\ UNCHANGED <<runtimeVars, session, strategies, slots, inFlight, cancelled, clock, start, refresh, shutdown, refreshes>>

\* The select: a ready case is chosen, any one of them if there are several.
Admit(e) ==
  /\ At(e, "admit")
  /\ slots < AdmissionLimit
  /\ slots' = slots + 1
  /\ Goto(e, "enter")
  /\ UNCHANGED <<runtimeVars, session, strategies, inFlight, cancelled, clock, start, refresh, shutdown, refreshes>>

\* The caller's context is done, at any time, or the runtime's.
AdmitCancelled(e) ==
  /\ At(e, "admit")
  /\ Done(e)
  /\ UNCHANGED <<runtimeVars, session, strategies, slots, inFlight, cancelled, clock, start, refresh, shutdown, refreshes>>

\* No place and no shutdown: the default case.
Backpressure(e) ==
  /\ At(e, "admit")
  /\ slots = AdmissionLimit /\ ~cancelled
  /\ fail("DEGRADED")
  /\ Goto(e, "degrade")
  /\ UNCHANGED <<restored, ready, controls, session, strategies, slots, inFlight, cancelled, clock, start, refresh, shutdown, refreshes>>

BackpressureSession(e) ==
  /\ At(e, "degrade")
  /\ session' = Degrade(session)
  /\ Done(e)
  /\ UNCHANGED <<runtimeVars, strategies, slots, inFlight, cancelled, clock, start, refresh, shutdown, refreshes>>

Enter(e) ==
  /\ At(e, "enter")
  /\ inFlight' = inFlight + 1
  /\ Goto(e, "evaluate")
  /\ UNCHANGED <<runtimeVars, session, strategies, slots, cancelled, clock, start, refresh, shutdown, refreshes>>

\* A stage returned an error: the runtime degrades and the call returns.
StageFails(e) ==
  /\ process[e].pc \in {"evaluate", "decide", "execute", "feedback"}
  /\ fail("DEGRADED")
  /\ Goto(e, "release")
  /\ UNCHANGED <<restored, ready, controls, session, strategies, slots, inFlight, cancelled, clock, start, refresh, shutdown, refreshes>>

\* Strategy.Evaluate answered; the strategies are looked up once for all proposals.
Evaluate(e, proposals) ==
  /\ At(e, "evaluate")
  /\ process' = [process EXCEPT ![e] = [pc |-> IF proposals = <<>> THEN "release" ELSE "gate",
                                        seen |-> strategies, left |-> proposals]]
  /\ UNCHANGED <<runtimeVars, session, strategies, slots, inFlight, cancelled, clock, start, refresh, shutdown, refreshes>>

NextProposal(e) ==
  process' = [process EXCEPT ![e] = [pc |-> IF Len(@.left) = 1 THEN "release" ELSE "gate",
                                     seen |-> @.seen, left |-> Tail(@.left)]]

Allowed(e) ==
  LET proposal == Head1(e) IN
  /\ proposal.strategy \in Strategies
  /\ strategyAllows(process[e].seen[proposal.strategy], Policy[proposal.strategy], proposal.effect, session.regime)

Increases(e) == Head1(e).effect = "INCREASE"

\* A restricted proposal is skipped, a blocked one ends the call.
Gate(e) ==
  /\ At(e, "gate")
  /\ CASE ~Allowed(e) -> NextProposal(e)
       [] Allowed(e) /\ Increases(e) /\ (controls.global \/ controls.exposure) -> Goto(e, "release")
       [] OTHER -> Goto(e, "decide")
  /\ UNCHANGED <<runtimeVars, session, strategies, slots, inFlight, cancelled, clock, start, refresh, shutdown, refreshes>>

Reject(e) ==
  /\ At(e, "decide")
  /\ NextProposal(e)
  /\ UNCHANGED <<runtimeVars, session, strategies, slots, inFlight, cancelled, clock, start, refresh, shutdown, refreshes>>

\* The controls the check after the risk decision looks at.
Blocked(control) == control.exposure \/ control.portfolio

\* Risk approved: the controls are read again before the order is sent.
Approve(e) ==
  /\ At(e, "decide")
  /\ IF Increases(e) /\ Blocked(controls) THEN Goto(e, "release")
     ELSE Goto(e, "execute")
  /\ UNCHANGED <<runtimeVars, session, strategies, slots, inFlight, cancelled, clock, start, refresh, shutdown, refreshes>>

Execute(e) ==
  /\ At(e, "execute")
  /\ NextProposal(e) \/ Goto(e, "ingest")     \* without or with fills
  /\ UNCHANGED <<runtimeVars, session, strategies, slots, inFlight, cancelled, clock, start, refresh, shutdown, refreshes>>

Ingest(e) ==
  /\ At(e, "ingest")
  /\ Goto(e, "feedback")
  /\ UNCHANGED <<runtimeVars, session, strategies, slots, inFlight, cancelled, clock, start, refresh, shutdown, refreshes>>

\* Accounting did not take the fills: the runtime halts, then the session.
IngestFails(e) ==
  /\ At(e, "ingest")
  /\ fail("HALTED")
  /\ Goto(e, "halt")
  /\ UNCHANGED <<restored, ready, controls, session, strategies, slots, inFlight, cancelled, clock, start, refresh, shutdown, refreshes>>

HaltSession(e) ==
  /\ At(e, "halt")
  /\ session' = Halt(session)
  /\ Goto(e, "release")
  /\ UNCHANGED <<runtimeVars, strategies, slots, inFlight, cancelled, clock, start, refresh, shutdown, refreshes>>

Feedback(e) ==
  /\ At(e, "feedback")
  /\ NextProposal(e)
  /\ UNCHANGED <<runtimeVars, session, strategies, slots, inFlight, cancelled, clock, start, refresh, shutdown, refreshes>>

\* Mutant of Release: the place in the semaphore is not given back.
ReleaseLeaks(e) ==
  /\ At(e, "release")
  /\ Goto(e, "leave")
  /\ UNCHANGED <<runtimeVars, session, strategies, slots, inFlight, cancelled, clock, start, refresh, shutdown, refreshes>>

\* Mutant of Release: the deferred function waits for a free place instead of giving one.
ReleaseStuck(e) ==
  /\ At(e, "release")
  /\ slots < AdmissionLimit
  /\ slots' = slots + 1
  /\ Goto(e, "leave")
  /\ UNCHANGED <<runtimeVars, session, strategies, inFlight, cancelled, clock, start, refresh, shutdown, refreshes>>

\* The deferred function: first the semaphore, then the counters.
Release(e) ==
  /\ At(e, "release")
  /\ slots' = slots - 1
  /\ Goto(e, "leave")
  /\ UNCHANGED <<runtimeVars, session, strategies, inFlight, cancelled, clock, start, refresh, shutdown, refreshes>>

Leave(e) ==
  /\ At(e, "leave")
  /\ inFlight' = inFlight - 1
  /\ Done(e)
  /\ UNCHANGED <<runtimeVars, session, strategies, slots, cancelled, clock, start, refresh, shutdown, refreshes>>

-----------------------------------------------------------------------------
(* Shutdown.                                                               *)

ShutdownGoto(pc) == shutdown' = [shutdown EXCEPT !.pc = pc]

Shutdown ==
  /\ shutdown.pc = "idle"
  /\ state' = "DRAINING"
  /\ ShutdownGoto("session")
  /\ UNCHANGED <<restored, ready, controls, session, strategies, slots, inFlight, cancelled, clock, start, refresh, process, refreshes>>

DrainSession ==
  /\ shutdown.pc = "session"
  /\ session' = Drain(session)
  /\ ShutdownGoto("strategies")
  /\ UNCHANGED <<runtimeVars, strategies, slots, inFlight, cancelled, clock, start, refresh, process, refreshes>>

StopStrategies ==
  /\ shutdown.pc = "strategies"
  /\ strategies' = [s \in Strategies |-> IF strategies[s] = "DISABLED" THEN "DISABLED" ELSE "STOPPING"]
  /\ ShutdownGoto("cancel")
  /\ UNCHANGED <<runtimeVars, session, slots, inFlight, cancelled, clock, start, refresh, process, refreshes>>

Cancel ==
  /\ shutdown.pc = "cancel"
  /\ cancelled' = TRUE
  /\ ShutdownGoto("wait")
  /\ UNCHANGED <<runtimeVars, session, strategies, slots, inFlight, clock, start, refresh, process, refreshes>>

\* The work in flight has left, or (whether or not it has) the deadline has passed.
Waited ==
  /\ shutdown.pc = "wait"
  /\ inFlight = 0
  /\ ShutdownGoto("checkpoint")
  /\ UNCHANGED <<runtimeVars, session, strategies, slots, inFlight, cancelled, clock, start, refresh, process, refreshes>>

\* Mutant of WaitTimedOut: the deadline ends the call at once.
WaitAbandoned ==
  /\ shutdown.pc = "wait"
  /\ shutdown' = [pc |-> "done", clean |-> FALSE]
  /\ UNCHANGED <<runtimeVars, session, strategies, slots, inFlight, cancelled, clock, start, refresh, process, refreshes>>

WaitTimedOut ==
  /\ shutdown.pc = "wait"
  /\ shutdown' = [pc |-> "stop", clean |-> FALSE]
  /\ UNCHANGED <<runtimeVars, session, strategies, slots, inFlight, cancelled, clock, start, refresh, process, refreshes>>

\* Drainer, Checkpointer and Shutdowner, any of which may fail.
Checkpoint(ok) ==
  /\ shutdown.pc = "checkpoint"
  /\ shutdown' = [pc |-> "stop", clean |-> ok]
  /\ UNCHANGED <<runtimeVars, session, strategies, slots, inFlight, cancelled, clock, start, refresh, process, refreshes>>

Stopped ==
  /\ shutdown.pc = "stop"
  /\ state' = "STOPPED"
  /\ ShutdownGoto("session stop")
  /\ UNCHANGED <<restored, ready, controls, session, strategies, slots, inFlight, cancelled, clock, start, refresh, process, refreshes>>

StopSession ==
  /\ shutdown.pc = "session stop"
  /\ session' = Stop(session)
  /\ ShutdownGoto("done")
  /\ UNCHANGED <<runtimeVars, strategies, slots, inFlight, cancelled, clock, start, refresh, process, refreshes>>

-----------------------------------------------------------------------------
ProcessStep(e) ==
  \/ Admit(e) \/ AdmitCancelled(e) \/ Backpressure(e) \/ BackpressureSession(e) \/ Enter(e)
  \/ StageFails(e) \/ (\E proposals \in Proposals : Evaluate(e, proposals)) \/ Gate(e) \/ Reject(e)
  \/ Approve(e) \/ Execute(e) \/ Ingest(e) \/ IngestFails(e) \/ HaltSession(e) \/ Feedback(e)
  \/ Release(e) \/ Leave(e)

StartStep == StartAssign \/ (\E reply \in Replies : StartSession(reply)) \/ StartSnapshot \/ StartReconcile

RefreshStep == RefreshAssign \/ (\E reply \in Replies : RefreshSession(reply)) \/ RefreshSnapshot \/ Reconcile

ShutdownStep ==
  \/ DrainSession \/ StopStrategies \/ Cancel \/ Waited \/ WaitTimedOut
  \/ (\E ok \in BOOLEAN : Checkpoint(ok)) \/ Stopped \/ StopSession

Next ==
  \/ Tick
  \/ StartFails
  \/ \E isReady \in BOOLEAN, control \in ControlValues : Start(isReady, control)
  \/ StartStep
  \/ \E isReady \in BOOLEAN, control \in ControlValues : Refresh(isReady, control)
  \/ RefreshStep
  \/ \E s \in Strategies : Disable(s) \/ Recover(s)
  \/ \E e \in Events : Process(e) \/ ProcessStep(e)
  \/ Shutdown
  \/ ShutdownStep

Spec == Init /\ [][Next]_vars

\* Goroutines run, and every stage returns by its deadline.
Fairness ==
  /\ \A e \in Events : WF_vars(ProcessStep(e))
  /\ WF_vars(StartStep)
  /\ WF_vars(RefreshStep)
  /\ WF_vars(ShutdownStep)

FairSpec == Spec /\ Fairness

-----------------------------------------------------------------------------
(* Properties.                                                             *)

RuntimeStates == {"STARTING", "RUNNING", "DEGRADED", "HALTED", "DRAINING", "STOPPED"}

Working == {"evaluate", "gate", "decide", "execute", "ingest", "halt", "feedback", "release"}

\* Types, and the semaphore and the counters against the calls that hold them.
TypeOK ==
  /\ state \in RuntimeStates
  /\ session.state \in SessionStates /\ session.regime \in Regimes \cup {"none"}
  /\ strategies \in [Strategies -> StrategyStates]
  /\ slots = Cardinality({e \in Events : process[e].pc \in Working \cup {"enter"}})
  /\ inFlight = Cardinality({e \in Events : process[e].pc \in Working \cup {"leave"}})
  /\ slots \in 0..AdmissionLimit

\* Draining is final: whatever a Start, a Refresh, a failing event or an operator does in
\* the meantime, session and strategies never come back from a shutdown, and nothing but
\* the assignment of a Start that the shutdown overtook takes the runtime out of
\* DRAINING or STOPPED (runtime.go:86-92).
DrainIsFinal ==
  [][/\ start.pc # "assign" \/ start'.pc = "assign" =>
          /\ state = "DRAINING" => state' \in {"DRAINING", "STOPPED"}
          /\ state = "STOPPED" => state' = "STOPPED"
     /\ session.state = "DRAINING" => session'.state \in {"DRAINING", "STOPPED"}
     /\ session.state = "STOPPED" => session'.state = "STOPPED"
     /\ \A s \in Strategies : strategies[s] = "STOPPING" => strategies'[s] = "STOPPING"]_vars

\* A killed or disabled strategy does not trade again by itself: only Recover returns
\* it, and only to REGISTERED, although every Refresh reconciles all strategies.
StrategiesStayHeld ==
  [][\A s \in Strategies :
       /\ strategies[s] = "HALTED" => strategies'[s] \in {"HALTED", "REGISTERED", "DISABLED", "STOPPING"}
       /\ strategies[s] = "DISABLED" => strategies'[s] = "DISABLED"]_vars

\* After the close no session starts: READY and trading states are left, never entered.
NoTradingAfterClose ==
  [][Phase = "AFTER" /\ session'.state # session.state =>
       session'.state \notin {"READY", "WARMING_UP", "NORMAL_TRADING", "PRE_CAS", "CAS_ACTIVE", "POST_CAS"}]_vars

\* Both hold over the whole of a day (StrategyManager.Reconcile, SessionCoordinator.Advance).
DayIsKept == StrategiesStayHeld /\ NoTradingAfterClose

\* Every event that was let in leaves, whatever its stages answer.
EventsLeave == \A e \in Events : process[e].pc \notin {"idle", "done"} ~> process[e].pc = "done"

\* A shutdown stops session, strategies and runtime in the end and for good, also when
\* the drain times out or the checkpoint fails, and whatever a Start or a Refresh does
\* meanwhile; only a Start that assigns after STOPPED was assigned brings back the
\* runtime's state, and then still no strategy may propose.
ShutdownStops ==
  shutdown.pc # "idle" ~>
    [](/\ session.state = "STOPPED"
       /\ \A s \in Strategies : strategies[s] \in {"DISABLED", "STOPPING"}
       /\ state = "STOPPED" \/ start.overtaken)

\* The code does not keep this: a Start that assigns after STOPPED was assigned leaves the
\* runtime RUNNING or DEGRADED behind a shutdown that has ended (runtime.go:86-92).
StoppedIsFinal == shutdown.pc = "done" => state = "STOPPED"
=============================================================================
