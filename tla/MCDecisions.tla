----------------------------- MODULE MCDecisions -----------------------------
(* The three components that decide whether to trade, side by side: the strategy
   runner (two callers offer two frames to one instance that is replaced once), the
   portfolio risk runner, and the trading runtime.  In a behaviour one of
   them moves, `part' says which, and the others stay where they begin.  A run takes
   some of the parts (Parts) and gives the runtime its day. *)
EXTENDS StrategyRunner, RiskRunner, TradingRuntime

CONSTANT Parts

VARIABLE part

-----------------------------------------------------------------------------
(* Two proposals for two instruments, on portfolios that begin free, in use, at a loss *)
(* limit, at a drawdown limit, with an unknown exposure, or with a recovering control. *)

MCProposals == {"p1", "p2"}
Rule(id, money, loss, bps, threshold, effect) ==
  [id |-> id, money |-> money, loss |-> loss, bps |-> bps, threshold |-> threshold, effect |-> effect]
MoneyRule(id, limit) == Rule(id, limit, Absent, Absent, Absent, "REJECT")
MCPolicy(money, bps) ==
  <<MoneyRule("PORTFOLIO_CAPITAL_LIMIT", money), MoneyRule("STRATEGY_ALLOCATION_LIMIT", 10),
    Rule("DAILY_LOSS_LIMIT", Absent, 3, Absent, Absent, "ACTIVATE_KILL_SWITCH"),
    Rule("DRAWDOWN_LIMIT", Absent, 5, 4000, Absent, "TRIP_CIRCUIT_BREAKER"),
    MoneyRule("INSTRUMENT_EXPOSURE_LIMIT", 5), MoneyRule("UNDERLYING_EXPOSURE_LIMIT", 12),
    MoneyRule("MAXIMUM_OPEN_EXPOSURE", 12), Rule("RESERVE_CAPITAL", Absent, Absent, bps, Absent, "REJECT"),
    Rule("KILL_SWITCH", Absent, Absent, Absent, 1, "REJECT"),
    Rule("CIRCUIT_BREAKER", Absent, Absent, Absent, 1, "REJECT")>>

Portfolio(held, lost, fall, other) ==
  [revision |-> 1, state |-> "ENABLED",
   capital |-> [total |-> 10, available |-> 10 - held, reserved |-> held, deployed |-> 0],
   allocation |-> [state |-> "ENABLED", limit |-> 10, remaining |-> 10 - held, reserved |-> held, deployed |-> 0],
   loss |-> lost, drawdown |-> fall, drawdownBPS |-> fall * 1000,
   gross |-> [x \in {"i1", "i2", "UNDERLYING", "PORTFOLIO_WIDE"} |-> IF x = "i2" THEN other ELSE held],
   kill |-> [scope \in {"GLOBAL", "i1"} |-> "INACTIVE"], circuit |-> [scope \in {"i1"} |-> "CLOSED"]]

MCInstrument == [p \in MCProposals |-> IF p = "p1" THEN "i1" ELSE "i2"]
MCSizing == [p \in MCProposals |-> IF p = "p1" THEN 6000 ELSE 5000]
MCConfigurations ==
  {[enabled |-> TRUE, total |-> 10, strategy |-> 10, instrument |-> 8, underlying |-> 9,
   group |-> 10, reserveBPS |-> 1000, emergencyBPS |-> 0]}
MCPolicies == {MCPolicy(8, 3000), MCPolicy(9, 0)}
MCGenesis ==
  {Portfolio(0, 0, 0, 0), Portfolio(2, 0, 0, 0), Portfolio(0, 3, 0, 0), Portfolio(0, 0, 5, 0),
   Portfolio(0, 0, 0, Absent), [Portfolio(0, 0, 0, 0) EXCEPT !.kill["GLOBAL"] = "RECOVERY_PENDING"]}

-----------------------------------------------------------------------------
(* The runtime: a day with a break between its two sessions, kill switches and one     *)
(* event (part "runtime"); two events that compete for the one place while a shutdown  *)
(* arrives (part "load"); one event without proposals at the close of the day while    *)
(* the control source halts the strategy and the operator recovers it (part "close").  *)

OnePolicy == [restricted |-> "CAS_RESTRICTED"]

BlockStrategy == [NoControls EXCEPT !.strategies = {"restricted"}]
Buy == [strategy |-> "restricted", effect |-> "INCREASE"]
Sell == [strategy |-> "restricted", effect |-> "REDUCE"]

WholeDay == <<"BEFORE", "NORMAL", "BREAK", "PRE_CAS", "CAS_ACTIVE", "POST_CAS", "AFTER">>
OneBuy == {<<Buy>>}
AllControls == {NoControls, [NoControls EXCEPT !.global = TRUE], BlockStrategy}

CloseOfDay == <<"NORMAL", "AFTER">>
NothingOrBoth == {<<>>, <<Sell, Buy>>}
SomeControls == {NoControls, BlockStrategy}

-----------------------------------------------------------------------------
\* Under load, and where it does not move, a runtime begins in the first phase with its
\* strategy registered.
PartInit ==
  /\ part \in Parts
  /\ StrategyInit /\ RiskInit /\ Init
  /\ part \notin {"runtime", "close"} => clock = 1 /\ strategies["restricted"] = "REGISTERED"

\* Under load nobody but the shutdown interferes, and the start finds everything ready.
Undisturbed ==
  /\ clock' = 1 /\ controls' = NoControls /\ refresh'.controls = NoControls
  /\ start'.pc \in {"assign", "session", "snapshot", "reconcile"} => start'.ready
  /\ strategies'["restricted"] # "DISABLED"

\* After a restart one caller asks for decisions.  Over the day the runtime refreshes
\* twice, or once while an event is on its way.
PartNext ==
  \/ part = "strategy" /\ StrategyNext /\ UNCHANGED <<part, riskVars, vars>>
  \/ /\ part = "risk" /\ RiskNext
     /\ restarts' = 1 => decision'["d2"].pc = "idle"
     /\ UNCHANGED <<part, strategyVars, vars>>
  \/ /\ part \in {"runtime", "load", "close"} /\ Next
     /\ part = "runtime" /\ refreshes' = 2 => process'["e1"].pc = "idle"
     /\ part = "load" => Undisturbed
     /\ part \in {"load", "close"} => start'.controls = NoControls
     /\ part = "close" => process'["e1"].left = <<>> /\ process'["e2"].pc = "idle"
     /\ UNCHANGED <<part, strategyVars, riskVars>>

PartSpec == PartInit /\ [][PartNext]_<<part, strategyVars, riskVars, vars>>
FairPartSpec == PartSpec /\ Fairness
==============================================================================
