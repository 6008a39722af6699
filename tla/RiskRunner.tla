----------------------------- MODULE RiskRunner -----------------------------
(***************************************************************************)
(* The portfolio-risk runner (risk/runner) over the runtime repository     *)
(* (adapters/riskruntime/memory): goroutines decide proposals against one  *)
(* portfolio.  A call names the revision it expects; the snapshot of that  *)
(* revision is read before the portfolio is reserved, and the decision is  *)
(* published with the capital it reserves and the next snapshot in one     *)
(* step, if the revision is still the current one.                         *)
(***************************************************************************)
EXTENDS Integers, Sequences, FiniteSets, SequencesExt, FiniteSetsExt

(***************************************************************************)
(* The pure part of a portfolio decision: the portfolio snapshot           *)
(* (portfolio/model), the allocation engine (portfolio/allocation), the    *)
(* ten production rules (risk/rules) and the decision with the snapshot it *)
(* leads to (risk/model, risk/runner/helpers.go).  Money is in units of    *)
(* one currency, a proposal has one leg, and amounts stay far below the    *)
(* width at which the checked arithmetic of the code gives up.             *)
(***************************************************************************)

CONSTANTS Instruments,   \* instruments a proposal may name
          Instrument,    \* [proposal -> its leg's instrument]
          Sizing,        \* [proposal -> SizingIntent.ValueBPS]
          PackageCost,   \* reference price * ratio * lot size
          LotSize        \* units in a lot

Absent == -1             \* a limit the configuration leaves out
Unknown == -1            \* a measured amount that is UNKNOWN or UNAVAILABLE
-----------------------------------------------------------------------------
(* Portfolio configuration: newConfiguration's bounds. *)
WholeBPS == 10000        \* basis points of a whole
ValidConfiguration(c) ==
    /\ \A limit \in {c.strategy, c.instrument, c.underlying, c.group} : limit \in 1..c.total
    /\ c.reserveBPS \in 0..WholeBPS /\ c.emergencyBPS \in 0..WholeBPS
    /\ c.reserveBPS + c.emergencyBPS <= WholeBPS

ProductionCatalog ==
    <<"PORTFOLIO_CAPITAL_LIMIT", "STRATEGY_ALLOCATION_LIMIT", "DAILY_LOSS_LIMIT",
      "DRAWDOWN_LIMIT", "INSTRUMENT_EXPOSURE_LIMIT", "UNDERLYING_EXPOSURE_LIMIT",
      "MAXIMUM_OPEN_EXPOSURE", "RESERVE_CAPITAL", "KILL_SWITCH", "CIRCUIT_BREAKER">>

(* validateRuleLimit: each rule has its own kind of limit and no other. *)
Present(rule) == {k \in {"money", "loss", "bps", "threshold"} : rule[k] # Absent}
ValidRuleLimit(rule) ==
    /\ rule.loss # 0 /\ rule.threshold # 0 /\ rule.bps <= 10000
    /\ CASE rule.id = "DAILY_LOSS_LIMIT" -> Present(rule) = {"loss"}
         [] rule.id = "DRAWDOWN_LIMIT" -> Present(rule) # {} /\ Present(rule) \subseteq {"loss", "bps"}
         [] rule.id = "RESERVE_CAPITAL" -> Present(rule) = {"bps"}
         [] rule.id \in {"KILL_SWITCH", "CIRCUIT_BREAKER"} -> Present(rule) = {"threshold"}
         [] OTHER -> Present(rule) = {"money"}

(* The policy of a configuration: rules in the order of their number, none twice. *)
NewRiskPolicy(rules) == /\ rules # <<>> /\ \A k \in DOMAIN rules : ValidRuleLimit(rules[k])
                        /\ IsInjective([k \in DOMAIN rules |-> rules[k].id])
ValidateProductionPolicy(rules) == [k \in DOMAIN rules |-> rules[k].id] = ProductionCatalog
-----------------------------------------------------------------------------
(* Snapshots. *)
NewCapitalState(c) == /\ c.available >= 0 /\ c.reserved >= 0 /\ c.deployed >= 0
                      /\ c.available + c.reserved + c.deployed = c.total
NewStrategyAllocation(a) ==
    /\ a.remaining >= 0 /\ a.reserved >= 0 /\ a.deployed >= 0
    /\ a.deployed + a.reserved + a.remaining = a.limit
    /\ a.state = "EXHAUSTED" => a.remaining = 0
NewPortfolioSnapshot(s) == /\ s.revision > 0 /\ NewCapitalState(s.capital)
                           /\ NewStrategyAllocation(s.allocation)

(* Mutant of KillSwitchBlocks: recovery pending is taken for recovered. *)
OnlyActiveBlocks(state) == state = "ACTIVE"
KillSwitchBlocks(state) == state \in {"ACTIVE", "RECOVERY_PENDING"}
CircuitBreakerBlocks(state) == state \in {"OPEN", "HALF_OPEN"}
(* A control's scope covers everything, or the instrument of the proposal. *)
ControlApplies(scope, p) == scope = "GLOBAL" \/ scope = Instrument[p]
Applicable(controls, p) == {scope \in DOMAIN controls : ControlApplies(scope, p)}

(* The subjects a proposal adds exposure to, and an addition that keeps the unknown. *)
SubjectsOf(p) == {Instrument[p], "UNDERLYING", "PORTFOLIO_WIDE"}
AddMeasured(a, b) == IF a = Unknown \/ b = Unknown THEN Unknown ELSE a + b
ProjectExposure(gross, p, amount) ==
    [x \in SubjectsOf(p) |-> AddMeasured(gross[x], amount)]
-----------------------------------------------------------------------------
(* allocation.Engine.Evaluate: the largest whole number of packages below the
   requested size, the strategy's remaining capital, what the reserve leaves, and the
   configured maxima. *)
BPS(amount, bps) == (amount * bps) \div 10000
AllocationBound(s, c, p) ==
    Min({BPS(s.allocation.limit, Sizing[p]), s.allocation.remaining,
         Max({0, s.capital.available - BPS(c.total, c.reserveBPS + c.emergencyBPS)}),
         c.strategy, c.instrument, c.underlying, c.group})
Packages(s, c, p) == AllocationBound(s, c, p) \div PackageCost
Allocatable(s, c, p) == /\ c.enabled /\ s.state = "ENABLED" /\ s.allocation.state = "ENABLED"
                        /\ Packages(s, c, p) > 0
AllocationCandidate(s, c, p) ==
    LET amount == Packages(s, c, p) * PackageCost
    IN [capital |-> amount, units |-> Packages(s, c, p) * LotSize,
        projected |-> ProjectExposure(s.gross, p, amount)]
-----------------------------------------------------------------------------
(* Rule results. *)
Result(status, effect) == [status |-> status, effect |-> effect, capital |-> 0, units |-> 0]
Pass == Result("PASS", "NONE")
failClosed == Result("DEFER", "DEFER")
Violation(rule) == Result("VIOLATION", IF rule.effect \in {"TRIP_CIRCUIT_BREAKER", "ACTIVATE_KILL_SWITCH"}
                                       THEN rule.effect ELSE "REJECT")

(* modification: the units scaled to the capital and rounded down to whole lots. *)
Scaled(cand, maximum) == LET units == (cand.units * maximum) \div cand.capital
                         IN units - (units % LotSize)
Modifiable(cand, maximum) == maximum > 0 /\ Scaled(cand, maximum) \in 1..(cand.units - 1)
Modification(cand, maximum) ==
    [status |-> "MODIFICATION_REQUIRED", effect |-> "MODIFY",
     capital |-> maximum, units |-> Scaled(cand, maximum)]

ReduceOrReject(rule, cand, headroom) ==
    IF headroom > 0 /\ headroom < cand.capital /\ Modifiable(cand, headroom)
    THEN Modification(cand, headroom) ELSE Violation(rule)
boundedMoney(rule, cand, observed, projected, limit) ==
    IF projected <= limit THEN Pass ELSE ReduceOrReject(rule, cand, limit - observed)
boundedAvailable(rule, cand, available, required) ==
    IF available - cand.capital >= required THEN Pass
    ELSE ReduceOrReject(rule, cand, available - required)

portfolioCapital(rule, s, cand) ==
    LET used == s.capital.deployed + s.capital.reserved
    IN IF rule.money = Absent THEN failClosed
       ELSE boundedMoney(rule, cand, used, used + cand.capital, rule.money)
strategyAllocation(rule, s, cand) ==
    LET used == s.allocation.deployed + s.allocation.reserved
        limit == IF rule.money = Absent THEN s.allocation.limit
                 ELSE Min({rule.money, s.allocation.limit})
    IN boundedMoney(rule, cand, used, used + cand.capital, limit)
dailyLoss(rule, s) == IF rule.loss = Absent THEN failClosed
                      ELSE IF s.loss >= rule.loss THEN Violation(rule) ELSE Pass
drawdown(rule, s) ==
    IF rule.loss = Absent /\ rule.bps = Absent THEN failClosed
    ELSE IF \/ rule.loss # Absent /\ s.drawdown >= rule.loss
            \/ rule.bps # Absent /\ s.drawdownBPS >= rule.bps
         THEN Violation(rule) ELSE Pass
(* The exposure the portfolio already has is part of the projection but is not passed
   on as the observed amount: the headroom is the whole limit. *)
exposure(rule, subject, cand) ==
    IF rule.money = Absent \/ cand.projected[subject] = Unknown THEN failClosed
    ELSE boundedMoney(rule, cand, 0, cand.projected[subject], rule.money)
(* The overflow check divides by the limit before it asks whether it is zero. *)
reserveCapital(rule, s, cand) ==
    IF rule.bps = Absent THEN failClosed
    ELSE IF rule.bps = 0 THEN Result("PANIC", "NONE")
    ELSE boundedAvailable(rule, cand, s.capital.available,
                          (s.capital.total * rule.bps + 9999) \div 10000)
(* No control that applies is missing evidence, not a free pass. *)
control(rule, applicable, blocking) ==
    IF applicable = {} THEN failClosed
    ELSE IF blocking # {} THEN Violation(rule) ELSE Pass
killSwitch(rule, s, p) ==
    LET applicable == Applicable(s.kill, p)
    IN control(rule, applicable, {c \in applicable : KillSwitchBlocks(s.kill[c])})
circuitBreaker(rule, s, p) ==
    LET applicable == Applicable(s.circuit, p)
    IN control(rule, applicable, {c \in applicable : CircuitBreakerBlocks(s.circuit[c])})

EvaluateRule(rule, s, cand, p) ==
    CASE rule.id = "PORTFOLIO_CAPITAL_LIMIT" -> portfolioCapital(rule, s, cand)
      [] rule.id = "STRATEGY_ALLOCATION_LIMIT" -> strategyAllocation(rule, s, cand)
      [] rule.id = "DAILY_LOSS_LIMIT" -> dailyLoss(rule, s)
      [] rule.id = "DRAWDOWN_LIMIT" -> drawdown(rule, s)
      [] rule.id = "INSTRUMENT_EXPOSURE_LIMIT" -> exposure(rule, Instrument[p], cand)
      [] rule.id = "UNDERLYING_EXPOSURE_LIMIT" -> exposure(rule, "UNDERLYING", cand)
      [] rule.id = "MAXIMUM_OPEN_EXPOSURE" -> exposure(rule, "PORTFOLIO_WIDE", cand)
      [] rule.id = "RESERVE_CAPITAL" -> reserveCapital(rule, s, cand)
      [] rule.id = "KILL_SWITCH" -> killSwitch(rule, s, p)
      [] OTHER -> circuitBreaker(rule, s, p)

RuleResults(rules, s, cand, p) ==
    [k \in DOMAIN rules |-> EvaluateRule(rules[k], s, cand, p)]
-----------------------------------------------------------------------------
(* buildDecision: the results folded in policy order. *)
Outcome(outcome, capital, units) == [outcome |-> outcome, capital |-> capital, units |-> units]

(* intersectAdjustment refuses a later adjustment that allows more than an earlier. *)
intersectAdjustment(d, r) ==
    IF r.units > d.units THEN Outcome("INVALID", 0, 0)
    ELSE Outcome("MODIFIED", Min({d.capital, r.capital}), r.units)
AddResult(d, r) ==
    CASE d.outcome = "INVALID" -> d
      [] d.outcome # "INVALID" /\ r.status \in {"ERROR", "DEFER"} -> Outcome("DEFERRED", 0, 0)
      [] r.status = "VIOLATION" /\ d.outcome \notin {"DEFERRED", "INVALID"} -> Outcome("REJECTED", 0, 0)
      [] r.status = "MODIFICATION_REQUIRED" /\ d.outcome \in {"APPROVED", "MODIFIED"} ->
           intersectAdjustment(d, r)
      [] OTHER -> d
buildDecision(results, cand) ==
    LET d[k \in 0..Len(results)] ==
          IF k = 0 THEN Outcome("APPROVED", cand.capital, cand.units)
          ELSE AddResult(d[k - 1], results[k])
    IN d[Len(results)]

Statuses(results) == {results[k].status : k \in DOMAIN results}
evaluationSupportsOutcome(results, outcome) ==
    LET defers == Statuses(results) \cap {"DEFER", "ERROR"} # {}
        violates == "VIOLATION" \in Statuses(results)
        modifies == "MODIFICATION_REQUIRED" \in Statuses(results)
    IN CASE outcome = "APPROVED" -> ~modifies /\ ~violates /\ ~defers
         [] outcome = "MODIFIED" -> modifies /\ ~violates /\ ~defers
         [] outcome = "REJECTED" -> violates /\ ~defers
         [] outcome = "DEFERRED" -> defers
         [] OTHER -> FALSE
approvedBoundsWithinCandidate(d, cand) == d.capital <= cand.capital /\ d.units <= cand.units
NewPortfolioRiskDecision(d, results, cand) ==
    /\ evaluationSupportsOutcome(results, d.outcome)
    /\ approvedBoundsWithinCandidate(d, cand)
    /\ d.outcome = "APPROVED" => d.capital = cand.capital /\ d.units = cand.units
    /\ d.outcome = "MODIFIED" => d.capital < cand.capital \/ d.units < cand.units
Approves(d) == d.outcome \in {"APPROVED", "MODIFIED"}
-----------------------------------------------------------------------------
(* nextCheckpoint and applyControlEffects. *)
Effects(results) == {results[k].effect : k \in DOMAIN results}
Touched(controls, p, disabled) ==
    {scope \in Applicable(controls, p) : controls[scope] # disabled}
SetControls(controls, p, disabled, state) ==
    [scope \in DOMAIN controls |->
        IF scope \in Touched(controls, p, disabled) THEN state ELSE controls[scope]]
(* An effect that finds no control to act on makes the whole decision fail. *)
EffectsApply(s, p, results) ==
    /\ "ACTIVATE_KILL_SWITCH" \in Effects(results)
         => Touched(s.kill, p, "DISABLED_BY_CONFIGURATION") # {}
    /\ "TRIP_CIRCUIT_BREAKER" \in Effects(results) => Touched(s.circuit, p, "DISABLED") # {}
applyControlEffects(s, p, results) ==
    [kill |-> IF "ACTIVATE_KILL_SWITCH" \in Effects(results)
              THEN SetControls(s.kill, p, "DISABLED_BY_CONFIGURATION", "ACTIVE") ELSE s.kill,
     circuit |-> IF "TRIP_CIRCUIT_BREAKER" \in Effects(results)
                 THEN SetControls(s.circuit, p, "DISABLED", "OPEN") ELSE s.circuit]

ReserveCapital(c, amount) ==
    [total |-> c.total, available |-> c.available - amount, reserved |-> c.reserved + amount,
     deployed |-> c.deployed]
ReserveAllocation(a, amount) ==
    [state |-> IF a.remaining = amount THEN "EXHAUSTED" ELSE a.state, limit |-> a.limit,
     remaining |-> a.remaining - amount, reserved |-> a.reserved + amount, deployed |-> a.deployed]
mergeExposures(gross, projected) ==
    [x \in DOMAIN gross |-> IF x \in DOMAIN projected THEN projected[x] ELSE gross[x]]
(* A modified decision merges the exposure of the whole candidate. *)
NextSnapshot(s, p, cand, d, results) ==
    LET controls == applyControlEffects(s, p, results)
    IN [revision |-> s.revision + 1, state |-> s.state,
        capital |-> IF Approves(d) THEN ReserveCapital(s.capital, d.capital) ELSE s.capital,
        allocation |-> IF Approves(d) THEN ReserveAllocation(s.allocation, d.capital) ELSE s.allocation,
        loss |-> s.loss, drawdown |-> s.drawdown, drawdownBPS |-> s.drawdownBPS,
        gross |-> IF Approves(d) THEN mergeExposures(s.gross, cand.projected) ELSE s.gross,
        kill |-> controls.kill, circuit |-> controls.circuit]

-----------------------------------------------------------------------------
CONSTANTS Deciders,            \* goroutines inside EvaluateProposal
          RiskProposals,           \* proposals the strategies published
          Times,               \* logical times of the requests
          Configurations,      \* portfolio configuration documents
          RiskPolicies,            \* risk policy documents
          Genesis,             \* snapshots a portfolio starts from
          MaxDeciding,         \* Config.MaxConcurrency
          MaxPublications,     \* Limits.Publications of the store
          MaxRestarts,         \* bound: process restarts
          Nobody

(* Amounts, limits and basis points are integers that the constructors then validate;
   the size of a proposal is unsigned; a package and a lot are not empty; a gross
   exposure is unknown or not negative. *)
Subjects == Instruments \cup {"UNDERLYING", "PORTFOLIO_WIDE"}
Capitals == [total : Int, available : Int, reserved : Int, deployed : Int]
AllocationStates == {"ENABLED", "DISABLED", "EXHAUSTED", "EXPIRED"}
Allocations ==
    [state : AllocationStates, limit : Int, remaining : Int, reserved : Int, deployed : Int]
ASSUME RiskAssumption ==
    /\ PackageCost \in Nat \ {0} /\ LotSize \in Nat \ {0}
    /\ Sizing \in [RiskProposals -> Nat]
    /\ Configurations \subseteq
         [enabled : BOOLEAN, total : Int, strategy : Int, instrument : Int, underlying : Int,
          group : Int, reserveBPS : Int, emergencyBPS : Int]
    /\ RiskPolicies \subseteq Seq([id : STRING, money : Int, loss : Int, bps : Int,
                               threshold : Int, effect : STRING])
    /\ Instrument \in [RiskProposals -> Instruments \ {"UNDERLYING", "PORTFOLIO_WIDE"}]
    /\ \A s \in Genesis :
         /\ s.capital \in Capitals /\ s.allocation \in Allocations
         /\ s.loss \in Int /\ s.drawdown \in Int /\ s.drawdownBPS \in Int
         /\ s.gross \in [Subjects -> Nat \cup {Unknown}]
    /\ Nobody \notin Deciders

VARIABLES configuration,   \* registered portfolio configuration, <<>> before
          policy,          \* registered risk policy, <<>> before
          checkpoints,     \* [revision -> snapshot] kept by the store
          publications,    \* committed decisions, by trigger
          decision,        \* the calls in progress
          deciding,        \* the call that holds the portfolio
          riskSlots,           \* calls holding the semaphore
          riskClosed, riskStopped,
          archive,         \* checkpoints the store ever had: what a restart can bring back
          history,         \* decisions committed since the first start
          receipts,        \* calls told that theirs was committed, since the last start
          restarts

riskVars == <<configuration, policy, checkpoints, publications, decision,
              deciding, riskSlots, riskClosed, riskStopped, archive, history, receipts, restarts>>
repository == <<configuration, policy, checkpoints, publications>>
runner == <<deciding, riskSlots, riskClosed, riskStopped>>
log == <<archive, history, receipts, restarts>>
-----------------------------------------------------------------------------
NoRequest == [pc |-> "idle", proposal |-> CHOOSE p \in RiskProposals : TRUE, revision |-> 0,
              time |-> 0, outcome |-> Outcome("NONE", 0, 0)]
Initialized == DOMAIN checkpoints # {}
CurrentRevision == Max(DOMAIN checkpoints)
Snapshot(d) == checkpoints[decision[d].revision]
NewDecisionTriggerID(d) == <<decision[d].proposal, decision[d].revision, decision[d].time>>
Committed(trigger) == \E x \in publications : x.trigger = trigger

RiskInit ==
    /\ configuration = <<>> /\ policy = <<>> /\ checkpoints = <<>> /\ publications = {}
    /\ decision = [d \in Deciders |-> NoRequest]
    /\ deciding = Nobody /\ riskSlots = {} /\ riskClosed = FALSE /\ riskStopped = FALSE
    /\ archive = {} /\ history = {} /\ receipts = 0 /\ restarts = 0
-----------------------------------------------------------------------------
RegisterConfiguration(c) ==
    /\ configuration = <<>> /\ ValidConfiguration(c)
    /\ configuration' = <<c>>
    /\ UNCHANGED <<policy, checkpoints, publications, decision, runner, log>>

RegisterPolicy(rules) ==
    /\ policy = <<>> /\ NewRiskPolicy(rules) /\ ValidateProductionPolicy(rules)
    /\ policy' = rules
    /\ UNCHANGED <<configuration, checkpoints, publications, decision, runner, log>>

InitializePortfolio(s) ==
    /\ ~Initialized /\ NewPortfolioSnapshot(s) /\ s.revision = 1
    /\ checkpoints' = <<s>>
    /\ archive' = archive \cup {s}
    /\ UNCHANGED <<configuration, policy, publications, decision, runner, history, receipts, restarts>>

(* A new process brings a checkpoint that somebody kept into an empty store.  Any that
   was ever current is accepted, the newest or an older one: the store has nothing to
   compare it with.  The publications and the other checkpoints are gone, and so are
   the calls. *)
RestorePortfolioCheckpoint(s) ==
    /\ restarts < MaxRestarts
    /\ checkpoints' = [r \in {s.revision} |-> s]
    /\ publications' = {} /\ receipts' = 0
    /\ decision' = [d \in Deciders |-> NoRequest]
    /\ deciding' = Nobody /\ riskSlots' = {} /\ riskClosed' = FALSE /\ riskStopped' = FALSE
    /\ restarts' = restarts + 1
    /\ UNCHANGED <<configuration, policy, archive, history>>
-----------------------------------------------------------------------------
(* EvaluateProposal. *)
GoTo(d, pc) == decision' = [decision EXCEPT ![d].pc = pc]
Return(d) == decision' = [decision EXCEPT ![d] = NoRequest]
Unwind(d) == decision' = [decision EXCEPT ![d] = [NoRequest EXCEPT !.pc = "leave"]]

(* A request whose revision, policy or configuration is not there is refused and
   leaves no trace. *)
EvaluateProposal(d, p, revision, time) ==
    /\ decision[d].pc = "idle"
    /\ configuration # <<>> /\ policy # <<>> /\ revision \in DOMAIN checkpoints
    /\ decision' = [decision EXCEPT ![d] =
         [pc |-> "lookup", proposal |-> p, revision |-> revision, time |-> time,
          outcome |-> NoRequest.outcome]]
    /\ UNCHANGED <<repository, runner, log>>

(* A committed trigger is answered from the store, a revision that is no longer the
   current one is a conflict. *)
Lookup(d) ==
    /\ decision[d].pc = "lookup"
    /\ IF ~Committed(NewDecisionTriggerID(d)) /\ decision[d].revision = CurrentRevision
       THEN GoTo(d, "reserve") ELSE Return(d)
    /\ UNCHANGED <<repository, runner, log>>

ReserveRefused(d) ==
    /\ decision[d].pc = "reserve" /\ (riskClosed \/ deciding # Nobody)
    /\ Return(d)
    /\ UNCHANGED <<repository, runner, log>>

reserve(d) ==
    /\ decision[d].pc = "reserve" /\ ~riskClosed /\ deciding = Nobody
    /\ deciding' = d
    /\ GoTo(d, "slot")
    /\ UNCHANGED <<repository, riskSlots, riskClosed, riskStopped, log>>

TakeSlot(d) ==
    /\ decision[d].pc = "slot" /\ Cardinality(riskSlots) < MaxDeciding
    /\ riskSlots' = riskSlots \cup {d}
    /\ GoTo(d, "evaluate")
    /\ UNCHANGED <<repository, deciding, riskClosed, riskStopped, log>>

(* The caller gives up, or the runner is shut down. *)
AbandonSlot(d) ==
    /\ decision[d].pc = "slot"
    /\ Unwind(d)
    /\ UNCHANGED <<repository, runner, log>>

Candidate(d) == AllocationCandidate(Snapshot(d), configuration[1], decision[d].proposal)
Results(d) == RuleResults(policy, Snapshot(d), Candidate(d), decision[d].proposal)
Decision(d) == buildDecision(Results(d), Candidate(d))
Evaluable(d) ==
    /\ Allocatable(Snapshot(d), configuration[1], decision[d].proposal)
    /\ "PANIC" \notin Statuses(Results(d))
    /\ NewPortfolioRiskDecision(Decision(d), Results(d), Candidate(d))
    /\ EffectsApply(Snapshot(d), decision[d].proposal, Results(d))

(* The allocation and the rules over the snapshot read at the start. *)
EvaluateCandidate(d) ==
    /\ decision[d].pc = "evaluate" /\ Evaluable(d)
    /\ decision' = [decision EXCEPT ![d] =
         [pc |-> "publish", proposal |-> decision[d].proposal, revision |-> decision[d].revision,
          time |-> decision[d].time, outcome |-> Decision(d)]]
    /\ UNCHANGED <<repository, runner, log>>

(* A panic, a failed allocation, an invalid output, a timeout: nothing is published. *)
EvaluateFails(d) ==
    /\ decision[d].pc = "evaluate"
    /\ Unwind(d)
    /\ UNCHANGED <<repository, runner, log>>

(* What is written down of a publication: the decision and, if it approves, the
   reservation of its capital. *)
Publication(d) ==
    [trigger |-> NewDecisionTriggerID(d), revision |-> decision[d].revision + 1,
     outcome |-> decision[d].outcome.outcome, capital |-> decision[d].outcome.capital,
     proposal |-> decision[d].proposal, snapshot |-> Snapshot(d)]
(* NewPortfolioDecisionPublication and nextCheckpoint's last check. *)
NextCheckpoint(d) == NextSnapshot(Snapshot(d), decision[d].proposal, Candidate(d), decision[d].outcome, Results(d))
ValidPublication(d) == NewPortfolioSnapshot(NextCheckpoint(d)) /\ NextCheckpoint(d).revision = decision[d].revision + 1

(* Mutant of IsCurrent: the revision is there. *)
IsStored(d) == decision[d].revision \in DOMAIN checkpoints
IsCurrent(d) == decision[d].revision = CurrentRevision
Publishable(d) ==
    /\ ValidPublication(d)
    /\ ~Committed(NewDecisionTriggerID(d)) /\ IsCurrent(d)
    /\ Cardinality(publications) < MaxPublications

PublishPortfolioDecision(d) ==
    /\ decision[d].pc = "publish" /\ Publishable(d)
    /\ checkpoints' = [r \in DOMAIN checkpoints \cup {decision[d].revision + 1} |->
                          IF r = decision[d].revision + 1 THEN NextCheckpoint(d) ELSE checkpoints[r]]
    /\ publications' = publications \cup {Publication(d)}
    /\ archive' = archive \cup {NextCheckpoint(d)}
    /\ history' = history \cup {Publication(d)} /\ receipts' = receipts + 1
    /\ Unwind(d)
    /\ UNCHANGED <<configuration, policy, runner, restarts>>

(* The publication is refused, the repository fails, or the context ends: a shutdown
   does not end an evaluation, the caller and the timeout do, at any moment. *)
PublicationRefused(d) ==
    /\ decision[d].pc = "publish"
    /\ Unwind(d)
    /\ UNCHANGED <<repository, runner, log>>

release(d) ==
    /\ decision[d].pc = "leave"
    /\ riskSlots' = riskSlots \ {d} /\ deciding' = Nobody
    /\ Return(d)
    /\ UNCHANGED <<repository, riskClosed, riskStopped, log>>

RiskShutdown ==
    /\ ~riskClosed /\ riskClosed' = TRUE
    /\ UNCHANGED <<repository, decision, deciding, riskSlots, riskStopped, log>>

ShutdownDone ==
    /\ riskClosed /\ ~riskStopped /\ deciding = Nobody
    /\ riskStopped' = TRUE
    /\ UNCHANGED <<repository, decision, deciding, riskSlots, riskClosed, log>>
-----------------------------------------------------------------------------
DecisionStep(d) ==
    \/ Lookup(d) \/ ReserveRefused(d) \/ reserve(d) \/ TakeSlot(d) \/ AbandonSlot(d)
    \/ EvaluateCandidate(d) \/ EvaluateFails(d) \/ PublishPortfolioDecision(d)
    \/ PublicationRefused(d) \/ release(d)

RiskNext ==
    \/ \E c \in Configurations : RegisterConfiguration(c)
    \/ \E rules \in RiskPolicies : RegisterPolicy(rules)
    \/ \E s \in Genesis : InitializePortfolio(s)
    \/ \E s \in archive : RestorePortfolioCheckpoint(s)
    \/ \E d \in Deciders :
         \/ \E p \in RiskProposals, r \in DOMAIN checkpoints, t \in Times : EvaluateProposal(d, p, r, t)
         \/ DecisionStep(d)
    \/ RiskShutdown \/ ShutdownDone

RiskSpec == RiskInit /\ [][RiskNext]_riskVars
-----------------------------------------------------------------------------
RiskTypeOK ==
    /\ deciding \in Deciders \cup {Nobody} /\ riskSlots \subseteq Deciders
    /\ \A r \in DOMAIN checkpoints : NewPortfolioSnapshot(checkpoints[r]) /\ checkpoints[r].revision = r

(* Every unit of capital is somewhere: what this process's committed decisions reserved
   is exactly what the current snapshot holds beyond the checkpoint the process began
   with, and every decision made one revision, so none was made twice and no revision
   was overwritten.  (A restart from an older checkpoint forgets what was reserved after
   it: the count begins again.) *)
CapitalAccounted ==
    Initialized =>
      \E first \in DOMAIN checkpoints :
        LET began == checkpoints[first].capital
            now == checkpoints[CurrentRevision].capital IN
        /\ \A r \in DOMAIN checkpoints : first <= r
        /\ receipts = CurrentRevision - first /\ Cardinality(publications) = receipts
        /\ now.reserved = began.reserved + SumFunction([x \in publications |-> x.capital])
        /\ now.total = began.total

(* An approved or modified decision keeps within every limit of the policy it was made
   under, measured on the snapshot it was made on: portfolio capital, the strategy's
   allocation and its rule's own limit, reserve, daily loss, drawdown, the exposure of
   the instrument, the underlying and the portfolio; and no applicable control blocked.
   What a decision modifies the exposure rule down to is measured without the exposure
   that is already there (ExposureWithinLimit). *)
RuleOf(id) == policy[CHOOSE k \in DOMAIN policy : policy[k].id = id]
WithinLossLimits(s) ==
    LET fall == RuleOf("DRAWDOWN_LIMIT") IN
    /\ s.loss < RuleOf("DAILY_LOSS_LIMIT").loss
    /\ fall.loss # Absent => s.drawdown < fall.loss
    /\ fall.bps # Absent => s.drawdownBPS < fall.bps
ExposureLimitID(x) == CASE x = "UNDERLYING" -> "UNDERLYING_EXPOSURE_LIMIT"
                        [] x = "PORTFOLIO_WIDE" -> "MAXIMUM_OPEN_EXPOSURE"
                        [] OTHER -> "INSTRUMENT_EXPOSURE_LIMIT"
WithinExposure(s, p, capital, modified) ==
    \A x \in SubjectsOf(p) :
      LET limit == RuleOf(ExposureLimitID(x)).money IN
      /\ s.gross[x] # Unknown /\ capital <= limit
      /\ ~modified => s.gross[x] + capital <= limit
ApprovedWithinLimits ==
    \A x \in history : x.outcome \in {"APPROVED", "MODIFIED"} =>
      LET s == x.snapshot
          held == s.allocation.deployed + s.allocation.reserved
          own == RuleOf("STRATEGY_ALLOCATION_LIMIT").money IN
      /\ s.capital.deployed + s.capital.reserved + x.capital <= RuleOf("PORTFOLIO_CAPITAL_LIMIT").money
      /\ held + x.capital <= s.allocation.limit /\ (own # Absent => held + x.capital <= own)
      /\ (s.capital.available - x.capital) * 10000 >= s.capital.total * RuleOf("RESERVE_CAPITAL").bps
      /\ WithinLossLimits(s)
      /\ WithinExposure(s, x.proposal, x.capital, x.outcome = "MODIFIED")
      /\ \A scope \in Applicable(s.kill, x.proposal) : ~KillSwitchBlocks(s.kill[scope])
      /\ \A scope \in Applicable(s.circuit, x.proposal) : ~CircuitBreakerBlocks(s.circuit[scope])

(* The semaphore, the reservation and the program counters agree. *)
PortfolioReserved ==
    \A d \in Deciders : decision[d].pc \in {"slot", "evaluate", "publish", "leave"} <=> deciding = d

RiskInv == RiskTypeOK /\ CapitalAccounted /\ ApprovedWithinLimits /\ PortfolioReserved

(* Controls latch: as long as a process runs, no decision clears a kill switch or closes
   a circuit breaker, and while a control that applies to everything blocks no capital is
   reserved.  (A restart takes the controls of the checkpoint it restores, as they were.) *)
Latched(k) == k \in {"ACTIVE", "RECOVERY_PENDING"}
LatchStep ==
    Initialized /\ restarts' = restarts =>
      LET old == checkpoints[CurrentRevision]
          new == checkpoints'[CurrentRevision']
      IN /\ \A scope \in DOMAIN old.kill : Latched(old.kill[scope]) => Latched(new.kill[scope])
         /\ \A scope \in DOMAIN old.circuit :
              old.circuit[scope] = "OPEN" => new.circuit[scope] = "OPEN"
         /\ "GLOBAL" \in DOMAIN old.kill /\ Latched(old.kill["GLOBAL"])
              => new.capital.reserved = old.capital.reserved
ControlsLatch == [][LatchStep]_riskVars

(* "risk rule reduced candidate to deterministic safe headroom" (production.go): what an
   instrument already carries and what a decision adds stay within the instrument's limit. *)
ExposureWithinLimit ==
    \A x \in history : x.outcome \in {"APPROVED", "MODIFIED"} =>
        x.snapshot.gross[Instrument[x.proposal]] + x.capital
            <= RuleOf("INSTRUMENT_EXPOSURE_LIMIT").money
=============================================================================
