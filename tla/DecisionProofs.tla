--------------------------- MODULE DecisionProofs ---------------------------
(* Proofs about what decides whether to trade.  The risk runner: whatever       *)
(* portfolios, policies and proposals it is given, capital is accounted for,    *)
(* what is approved keeps the limits, and controls latch.  The strategy runner: *)
(* a frame counts once, whoever races, and an old revision or a stopped runner  *)
(* stores nothing.  The trading runtime: its semaphore and its counter count    *)
(* the calls that hold them, draining is final, a held strategy stays held and  *)
(* no session starts after the close.                                           *)
EXTENDS StrategyRunner, RiskRunner, TradingRuntime, SumLemmas, SequenceTheorems

(* A rule's result. *)
ResultTyped(r) ==
  /\ r.status \in {"PASS", "DEFER", "VIOLATION", "MODIFICATION_REQUIRED", "PANIC"}
  /\ r.capital \in Nat /\ r.units \in Int

RuleTyped(rule) ==
  /\ rule.id \in STRING
  /\ rule.money \in Int /\ rule.loss \in Int /\ rule.bps \in Int

SnapshotTyped(s) ==
  /\ s.capital \in Capitals /\ s.allocation \in Allocations
  /\ s.loss \in Int /\ s.drawdown \in Int /\ s.drawdownBPS \in Int
  /\ s.gross \in [Subjects -> Nat \cup {Unknown}]

CandidateTyped(cand) == cand.capital \in Nat /\ cand.units \in Int

\* A candidate's projection is what it adds to the exposure of snapshot s.
Projects(s, p, cand) == cand.projected = ProjectExposure(s.gross, p, cand.capital)

\* amount is what a decision reserves of the candidate after the rule's result r: no
\* more than the candidate, and no more than the result allows.
Allows(r, cand, amount) ==
  /\ amount \in Nat /\ amount <= cand.capital
  /\ \/ r.status = "PASS"
     \/ r.status = "MODIFICATION_REQUIRED" /\ amount <= r.capital

-----------------------------------------------------------------------------
(* The rules one by one: a result is well-formed, and what it allows keeps the limit. *)

LEMMA FixedResults ==
  /\ ResultTyped(Pass) /\ ResultTyped(failClosed) /\ failClosed.status = "DEFER"
  /\ ResultTyped(Result("PANIC", "NONE")) /\ Result("PANIC", "NONE").status = "PANIC"
  /\ \A rule : ResultTyped(Violation(rule)) /\ Violation(rule).status = "VIOLATION"
BY DEF ResultTyped, Pass, failClosed, Result, Violation

\* What a rule leaves of a candidate it does not pass is its headroom.
LEMMA Reduces ==
  ASSUME NEW rule, NEW cand, CandidateTyped(cand), NEW headroom \in Int
  PROVE  /\ ResultTyped(ReduceOrReject(rule, cand, headroom))
         /\ ReduceOrReject(rule, cand, headroom).status # "PASS"
         /\ \A amount : Allows(ReduceOrReject(rule, cand, headroom), cand, amount) => amount <= headroom
<1>1. CASE headroom > 0 /\ headroom < cand.capital /\ Modifiable(cand, headroom)
  <2>1. Scaled(cand, headroom) \in Int
    BY <1>1 DEF Modifiable, CandidateTyped
  <2> DEFINE units == Scaled(cand, headroom)
  <2>2. ReduceOrReject(rule, cand, headroom) =
          [status |-> "MODIFICATION_REQUIRED", effect |-> "MODIFY", capital |-> headroom, units |-> units]
    BY <1>1 DEF ReduceOrReject, Modification
  <2> HIDE DEF units
  <2> QED BY <1>1, <2>1, <2>2 DEF ResultTyped, Allows, units
<1>2. CASE ~(headroom > 0 /\ headroom < cand.capital /\ Modifiable(cand, headroom))
  <2>1. ReduceOrReject(rule, cand, headroom) = Violation(rule)
    BY <1>2 DEF ReduceOrReject
  <2> QED BY <2>1, FixedResults DEF Allows
<1> QED BY <1>1, <1>2

LEMMA BoundedMoney ==
  ASSUME NEW rule, NEW cand, CandidateTyped(cand), NEW observed \in Int, NEW projected, NEW limit \in Int
  PROVE  /\ ResultTyped(boundedMoney(rule, cand, observed, projected, limit))
         /\ \A amount : Allows(boundedMoney(rule, cand, observed, projected, limit), cand, amount)
              => projected <= limit \/ observed + amount <= limit
         /\ boundedMoney(rule, cand, observed, projected, limit).status = "PASS" => projected <= limit
<1>1. limit - observed \in Int
  OBVIOUS
<1>2. /\ ResultTyped(ReduceOrReject(rule, cand, limit - observed))
      /\ ReduceOrReject(rule, cand, limit - observed).status # "PASS"
      /\ \A amount : Allows(ReduceOrReject(rule, cand, limit - observed), cand, amount)
                       => amount <= limit - observed
  BY <1>1, Reduces
<1>3. CASE projected <= limit
  BY <1>3, FixedResults DEF boundedMoney
<1>4. CASE ~(projected <= limit)
  <2>1. boundedMoney(rule, cand, observed, projected, limit) = ReduceOrReject(rule, cand, limit - observed)
    BY <1>4 DEF boundedMoney
  <2>2. ASSUME NEW amount, amount \in Nat, amount <= limit - observed PROVE observed + amount <= limit
    BY <2>2
  <2> QED BY <1>2, <2>1, <2>2 DEF Allows
<1> QED BY <1>3, <1>4

LEMMA BoundedAvailable ==
  ASSUME NEW rule, NEW cand, CandidateTyped(cand), NEW available \in Int, NEW required \in Int
  PROVE  /\ ResultTyped(boundedAvailable(rule, cand, available, required))
         /\ \A amount : Allows(boundedAvailable(rule, cand, available, required), cand, amount)
              => available - amount >= required
<1>1. available - required \in Int
  OBVIOUS
<1>2. /\ ResultTyped(ReduceOrReject(rule, cand, available - required))
      /\ \A amount : Allows(ReduceOrReject(rule, cand, available - required), cand, amount)
                       => amount <= available - required
  BY <1>1, Reduces
<1>3. CASE available - cand.capital >= required
  BY <1>3, FixedResults DEF boundedAvailable, Allows, CandidateTyped
<1>4. CASE ~(available - cand.capital >= required)
  <2>1. boundedAvailable(rule, cand, available, required) = ReduceOrReject(rule, cand, available - required)
    BY <1>4 DEF boundedAvailable
  <2>2. ASSUME NEW amount, amount \in Nat, amount <= available - required PROVE available - amount >= required
    BY <2>2
  <2> QED BY <1>2, <2>1, <2>2 DEF Allows
<1> QED BY <1>3, <1>4

\* PORTFOLIO_CAPITAL_LIMIT.
LEMMA CapitalRule ==
  ASSUME NEW rule, RuleTyped(rule), NEW s, SnapshotTyped(s), NEW cand, CandidateTyped(cand)
  PROVE  /\ ResultTyped(portfolioCapital(rule, s, cand))
         /\ \A amount : Allows(portfolioCapital(rule, s, cand), cand, amount)
              => s.capital.deployed + s.capital.reserved + amount <= rule.money
<1> DEFINE used == s.capital.deployed + s.capital.reserved
           r == boundedMoney(rule, cand, used, used + cand.capital, rule.money)
<1>1. used \in Int /\ rule.money \in Int
  BY DEF SnapshotTyped, Capitals, RuleTyped
<1>2. portfolioCapital(rule, s, cand) = IF rule.money = Absent THEN failClosed ELSE r
  BY DEF portfolioCapital
<1> HIDE DEF used
<1>3. /\ ResultTyped(r)
      /\ \A amount : Allows(r, cand, amount) =>
           used + cand.capital <= rule.money \/ used + amount <= rule.money
  BY <1>1, BoundedMoney
<1>4. ASSUME NEW amount, Allows(r, cand, amount) PROVE used + amount <= rule.money
  BY <1>1, <1>3, <1>4 DEF Allows, CandidateTyped
<1> HIDE DEF r
<1>5. \A amount : Allows(portfolioCapital(rule, s, cand), cand, amount) => used + amount <= rule.money
  BY <1>2, <1>4, FixedResults DEF Allows
<1> QED BY <1>2, <1>3, <1>5, FixedResults DEF used

\* STRATEGY_ALLOCATION_LIMIT.
LEMMA AllocationRule ==
  ASSUME NEW rule, RuleTyped(rule), NEW s, SnapshotTyped(s), NEW cand, CandidateTyped(cand)
  PROVE  /\ ResultTyped(strategyAllocation(rule, s, cand))
         /\ \A amount : Allows(strategyAllocation(rule, s, cand), cand, amount)
              => LET held == s.allocation.deployed + s.allocation.reserved IN
                 /\ held + amount <= s.allocation.limit
                 /\ rule.money # Absent => held + amount <= rule.money
<1> DEFINE used == s.allocation.deployed + s.allocation.reserved
           limit == IF rule.money = Absent THEN s.allocation.limit ELSE Min({rule.money, s.allocation.limit})
           r == boundedMoney(rule, cand, used, used + cand.capital, limit)
<1>1. used \in Int /\ rule.money \in Int /\ s.allocation.limit \in Int
  BY DEF SnapshotTyped, Allocations, RuleTyped
<1>2. strategyAllocation(rule, s, cand) = r
  BY DEF strategyAllocation
<1>3. \E x \in {rule.money, s.allocation.limit} : \A y \in {rule.money, s.allocation.limit} : x <= y
  BY <1>1
<1>4. limit \in Int /\ limit <= s.allocation.limit /\ (rule.money # Absent => limit <= rule.money)
  BY <1>1, <1>3 DEF Min
<1> HIDE DEF used, limit
<1>5. /\ ResultTyped(r)
      /\ \A amount : Allows(r, cand, amount) => used + cand.capital <= limit \/ used + amount <= limit
  BY <1>1, <1>4, BoundedMoney
<1>6. ASSUME NEW amount, Allows(r, cand, amount)
      PROVE  used + amount <= s.allocation.limit /\ (rule.money # Absent => used + amount <= rule.money)
  <2>1. used + cand.capital <= limit \/ used + amount <= limit
    BY <1>5, <1>6
  <2>2. amount \in Nat /\ amount <= cand.capital
    BY <1>6 DEF Allows
  <2> QED BY <1>1, <1>4, <2>1, <2>2 DEF CandidateTyped
<1> QED BY <1>2, <1>5, <1>6 DEF used

\* DAILY_LOSS_LIMIT.
LEMMA LossRule ==
  ASSUME NEW rule, RuleTyped(rule), NEW s, SnapshotTyped(s), NEW cand
  PROVE  /\ ResultTyped(dailyLoss(rule, s))
         /\ \A amount : Allows(dailyLoss(rule, s), cand, amount) => s.loss < rule.loss
<1>1. CASE rule.loss = Absent
  BY <1>1, FixedResults DEF dailyLoss, Allows
<1>2. CASE rule.loss # Absent /\ s.loss >= rule.loss
  BY <1>2, FixedResults DEF dailyLoss, Allows
<1>3. CASE rule.loss # Absent /\ ~(s.loss >= rule.loss)
  BY <1>3, FixedResults DEF dailyLoss, Allows, RuleTyped, SnapshotTyped
<1> QED BY <1>1, <1>2, <1>3

\* DRAWDOWN_LIMIT: in money, in basis points, or both.
BelowFall(rule, s) == /\ rule.loss # Absent => s.drawdown < rule.loss
                      /\ rule.bps # Absent => s.drawdownBPS < rule.bps
LEMMA DrawdownRule ==
  ASSUME NEW rule, RuleTyped(rule), NEW s, SnapshotTyped(s), NEW cand
  PROVE  /\ ResultTyped(drawdown(rule, s))
         /\ \A amount : Allows(drawdown(rule, s), cand, amount) => BelowFall(rule, s)
<1> DEFINE reached == \/ rule.loss # Absent /\ s.drawdown >= rule.loss
                      \/ rule.bps # Absent /\ s.drawdownBPS >= rule.bps
<1>1. CASE rule.loss = Absent /\ rule.bps = Absent
  BY <1>1, FixedResults DEF drawdown, Allows
<1>2. CASE ~(rule.loss = Absent /\ rule.bps = Absent) /\ reached
  BY <1>2, FixedResults DEF drawdown, Allows
<1>3. CASE ~(rule.loss = Absent /\ rule.bps = Absent) /\ ~reached
  <2>1. BelowFall(rule, s)
    BY <1>3 DEF RuleTyped, SnapshotTyped, BelowFall
  <2> QED BY <1>3, <2>1, FixedResults DEF drawdown
<1> QED BY <1>1, <1>2, <1>3

\* The three exposure limits.
LEMMA ExposureRule ==
  ASSUME NEW rule, RuleTyped(rule), NEW subject, NEW cand, CandidateTyped(cand)
  PROVE  ResultTyped(exposure(rule, subject, cand))
<1> DEFINE projected == cand.projected[subject]
           r == boundedMoney(rule, cand, 0, projected, rule.money)
<1>0. 0 \in Int /\ rule.money \in Int
  BY DEF RuleTyped
<1> HIDE DEF projected
<1>1. ResultTyped(r)
  BY <1>0, BoundedMoney
<1> HIDE DEF r
<1> QED BY <1>1, FixedResults DEF exposure, r, projected

\* What an exposure rule allows: the exposure that is there is known, the amount is within
\* the limit, and with the exposure that is there if the rule passes the whole candidate.
LEMMA ExposureKeeps ==
  ASSUME NEW rule, RuleTyped(rule), NEW subject, NEW cand, CandidateTyped(cand),
         NEW gross \in Nat \cup {Unknown}, cand.projected[subject] = AddMeasured(gross, cand.capital)
  PROVE  /\ \A amount : Allows(exposure(rule, subject, cand), cand, amount)
              => gross # Unknown /\ amount <= rule.money
         /\ exposure(rule, subject, cand).status = "PASS" => gross + cand.capital <= rule.money
<1> DEFINE projected == cand.projected[subject]
           r == boundedMoney(rule, cand, 0, projected, rule.money)
<1>1. 0 \in Int /\ rule.money \in Int /\ cand.capital \in Nat /\ Unknown = -1
  BY DEF RuleTyped, CandidateTyped, Unknown
<1>2. exposure(rule, subject, cand) =
        IF rule.money = Absent \/ projected = Unknown THEN failClosed ELSE r
  BY DEF exposure
<1>3. projected # Unknown => gross \in Nat /\ gross # Unknown /\ projected = gross + cand.capital
  BY <1>1 DEF AddMeasured
<1> HIDE DEF projected
<1>4. /\ \A amount : Allows(r, cand, amount) => projected <= rule.money \/ 0 + amount <= rule.money
      /\ r.status = "PASS" => projected <= rule.money
  BY <1>1, BoundedMoney
<1> HIDE DEF r
<1>5. ASSUME NEW amount, Allows(r, cand, amount), projected # Unknown PROVE amount <= rule.money
  <2>1. amount \in Nat /\ amount <= cand.capital
    BY <1>5 DEF Allows
  <2>2. projected <= rule.money \/ 0 + amount <= rule.money
    BY <1>4, <1>5
  <2> QED BY <1>1, <1>3, <1>5, <2>1, <2>2
<1>6. CASE rule.money = Absent \/ projected = Unknown
  BY <1>2, <1>6, FixedResults DEF Allows
<1>7. CASE ~(rule.money = Absent \/ projected = Unknown)
  <2>1. exposure(rule, subject, cand) = r
    BY <1>2, <1>7
  <2> QED BY <1>3, <1>4, <1>5, <1>7, <2>1
<1> QED BY <1>6, <1>7

\* RESERVE_CAPITAL: what is required is rounded up.
LEMMA ReserveRule ==
  ASSUME NEW rule, RuleTyped(rule), NEW s, SnapshotTyped(s), NEW cand, CandidateTyped(cand)
  PROVE  /\ ResultTyped(reserveCapital(rule, s, cand))
         /\ \A amount : Allows(reserveCapital(rule, s, cand), cand, amount)
              => (s.capital.available - amount) * 10000 >= s.capital.total * rule.bps
<1> DEFINE share == s.capital.total * rule.bps
           required == (share + 9999) \div 10000
           available == s.capital.available
           r == boundedAvailable(rule, cand, available, required)
<1>1. share \in Int /\ available \in Int
  BY DEF SnapshotTyped, Capitals, RuleTyped
<1>2. reserveCapital(rule, s, cand) =
        IF rule.bps = Absent THEN failClosed ELSE IF rule.bps = 0 THEN Result("PANIC", "NONE") ELSE r
  BY DEF reserveCapital
<1> HIDE DEF share
<1>3. required \in Int
  BY <1>1
<1>4. required * 10000 >= share
  BY <1>1
<1> HIDE DEF required, available
<1>5. /\ ResultTyped(r)
      /\ \A amount : Allows(r, cand, amount) => available - amount >= required
  BY <1>1, <1>3, BoundedAvailable
<1>6. ASSUME NEW amount, Allows(r, cand, amount) PROVE (available - amount) * 10000 >= share
  <2>1. amount \in Nat /\ available - amount >= required
    BY <1>5, <1>6 DEF Allows
  <2> QED BY <1>1, <1>3, <1>4, <2>1
<1> HIDE DEF r
<1>7. \A amount : Allows(reserveCapital(rule, s, cand), cand, amount)
                    => (available - amount) * 10000 >= share
  BY <1>2, <1>6, FixedResults DEF Allows
<1> QED BY <1>2, <1>5, <1>7, FixedResults DEF share, available

\* KILL_SWITCH and CIRCUIT_BREAKER: no control that applies blocks.
LEMMA ControlRule ==
  ASSUME NEW rule, NEW applicable, NEW blocking, NEW cand
  PROVE  /\ ResultTyped(control(rule, applicable, blocking))
         /\ \A amount : Allows(control(rule, applicable, blocking), cand, amount) => blocking = {}
BY FixedResults DEF control, Allows

LEMMA KillSwitchRule ==
  ASSUME NEW rule, NEW s, NEW cand, NEW p
  PROVE  /\ ResultTyped(killSwitch(rule, s, p))
         /\ \A amount : Allows(killSwitch(rule, s, p), cand, amount)
              => \A scope \in Applicable(s.kill, p) : ~KillSwitchBlocks(s.kill[scope])
<1> DEFINE applicable == Applicable(s.kill, p)
           blocking == {c \in applicable : KillSwitchBlocks(s.kill[c])}
<1>1. killSwitch(rule, s, p) = control(rule, applicable, blocking)
  BY DEF killSwitch
<1>2. blocking = {} => \A scope \in applicable : ~KillSwitchBlocks(s.kill[scope])
  OBVIOUS
<1> HIDE DEF applicable, blocking
<1> QED BY <1>1, <1>2, ControlRule DEF applicable

LEMMA CircuitBreakerRule ==
  ASSUME NEW rule, NEW s, NEW cand, NEW p
  PROVE  /\ ResultTyped(circuitBreaker(rule, s, p))
         /\ \A amount : Allows(circuitBreaker(rule, s, p), cand, amount)
              => \A scope \in Applicable(s.circuit, p) : ~CircuitBreakerBlocks(s.circuit[scope])
<1> DEFINE applicable == Applicable(s.circuit, p)
           blocking == {c \in applicable : CircuitBreakerBlocks(s.circuit[c])}
<1>1. circuitBreaker(rule, s, p) = control(rule, applicable, blocking)
  BY DEF circuitBreaker
<1>2. blocking = {} => \A scope \in applicable : ~CircuitBreakerBlocks(s.circuit[scope])
  OBVIOUS
<1> HIDE DEF applicable, blocking
<1> QED BY <1>1, <1>2, ControlRule DEF applicable

\* Every rule gives a well-formed result.
LEMMA RuleResultTyped ==
  ASSUME NEW rule, RuleTyped(rule), NEW s, SnapshotTyped(s), NEW cand, CandidateTyped(cand), NEW p
  PROVE  ResultTyped(EvaluateRule(rule, s, cand, p))
<1>1. \A subject : ResultTyped(exposure(rule, subject, cand))
  BY ExposureRule
<1>2. /\ ResultTyped(portfolioCapital(rule, s, cand)) /\ ResultTyped(strategyAllocation(rule, s, cand))
      /\ ResultTyped(dailyLoss(rule, s)) /\ ResultTyped(drawdown(rule, s))
      /\ ResultTyped(reserveCapital(rule, s, cand))
      /\ ResultTyped(killSwitch(rule, s, p)) /\ ResultTyped(circuitBreaker(rule, s, p))
  BY CapitalRule, AllocationRule, LossRule, DrawdownRule, ReserveRule, KillSwitchRule, CircuitBreakerRule
<1> QED BY <1>1, <1>2 DEF EvaluateRule

-----------------------------------------------------------------------------
(* The fold of a decision. *)

Outcomes == {"NONE", "APPROVED", "MODIFIED", "REJECTED", "DEFERRED", "INVALID"}
DecisionTyped(d) ==
  /\ d.outcome \in Outcomes /\ d.capital \in Nat /\ d.units \in Int
  /\ ~Approves(d) => d.capital = 0
FoldState == {d \in [outcome : Outcomes, capital : Nat, units : Int] : DecisionTyped(d)}

\* What holds of a decision after a rule's result stays true of it: it approves no more
\* than before, and no more than the result allows.
Tightens(d, r, e) ==
  Approves(e) => /\ Approves(d) /\ e.capital <= d.capital
                 /\ r.status = "MODIFICATION_REQUIRED" => e.capital <= r.capital

LEMMA OutcomeInFold ==
  /\ \A outcome \in Outcomes : Outcome(outcome, 0, 0) \in FoldState
  /\ \A outcome \in {"APPROVED", "MODIFIED"}, capital \in Nat, units \in Int :
       Outcome(outcome, capital, units) \in FoldState
BY DEF Outcome, FoldState, DecisionTyped, Outcomes, Approves

LEMMA AddResultTyped ==
  ASSUME NEW d \in FoldState, NEW r, ResultTyped(r)
  PROVE  AddResult(d, r) \in FoldState /\ Tightens(d, r, AddResult(d, r))
<1>1. d.capital \in Nat /\ d.units \in Int /\ d.outcome \in Outcomes /\ (~Approves(d) => d.capital = 0)
  BY DEF FoldState, DecisionTyped
<1>2. r.capital \in Nat /\ r.units \in Int
  BY DEF ResultTyped
<1>3. \A outcome \in {"DEFERRED", "REJECTED", "INVALID"} :
         Outcome(outcome, 0, 0) \in FoldState /\ ~Approves(Outcome(outcome, 0, 0))
  BY OutcomeInFold DEF Outcomes, Approves, Outcome
<1>4. CASE AddResult(d, r) = d /\ ~(Approves(d) /\ r.status = "MODIFICATION_REQUIRED")
  BY <1>1, <1>4 DEF Tightens
<1>5. CASE \E outcome \in {"DEFERRED", "REJECTED", "INVALID"} : AddResult(d, r) = Outcome(outcome, 0, 0)
  BY <1>3, <1>5 DEF Tightens
<1>6. CASE AddResult(d, r) = intersectAdjustment(d, r) /\ Approves(d)
  <2>1. CASE r.units > d.units
    <3>1. AddResult(d, r) = Outcome("INVALID", 0, 0)
      BY <1>6, <2>1 DEF intersectAdjustment
    <3> QED BY <3>1, <1>5
  <2>2. CASE ~(r.units > d.units)
    <3> DEFINE least == Min({d.capital, r.capital})
    <3>1. \E x \in {d.capital, r.capital} : \A y \in {d.capital, r.capital} : x <= y
      BY <1>1, <1>2
    <3>2. least \in {d.capital, r.capital} /\ least <= d.capital /\ least <= r.capital
      BY <3>1 DEF Min
    <3>3. least \in Nat
      BY <1>1, <1>2, <3>2
    <3>4. AddResult(d, r) = Outcome("MODIFIED", least, r.units)
      BY <1>6, <2>2 DEF intersectAdjustment
    <3> HIDE DEF least
    <3>5. Outcome("MODIFIED", least, r.units) \in FoldState
      BY <1>2, <3>3, OutcomeInFold
    <3>6. Tightens(d, r, Outcome("MODIFIED", least, r.units))
      BY <1>6, <3>2 DEF Tightens, Outcome
    <3> QED BY <3>4, <3>5, <3>6
  <2> QED BY <2>1, <2>2
<1>7. \/ AddResult(d, r) = d /\ ~(Approves(d) /\ r.status = "MODIFICATION_REQUIRED")
      \/ \E outcome \in {"DEFERRED", "REJECTED", "INVALID"} : AddResult(d, r) = Outcome(outcome, 0, 0)
      \/ AddResult(d, r) = intersectAdjustment(d, r) /\ Approves(d)
  <2> DEFINE defers == d.outcome # "INVALID" /\ r.status \in {"ERROR", "DEFER"}
             violates == r.status = "VIOLATION" /\ d.outcome \notin {"DEFERRED", "INVALID"}
             modifies == r.status = "MODIFICATION_REQUIRED" /\ d.outcome \in {"APPROVED", "MODIFIED"}
  <2>1. CASE d.outcome = "INVALID"
    BY <2>1 DEF AddResult, Approves
  <2>2. CASE d.outcome # "INVALID" /\ defers
    BY <2>2 DEF AddResult
  <2>3. CASE d.outcome # "INVALID" /\ ~defers /\ violates
    BY <2>3 DEF AddResult
  <2>4. CASE d.outcome # "INVALID" /\ ~defers /\ ~violates /\ modifies
    BY <2>4 DEF AddResult, Approves
  <2>5. CASE d.outcome # "INVALID" /\ ~defers /\ ~violates /\ ~modifies
    BY <2>5 DEF AddResult, Approves
  <2> QED BY <2>1, <2>2, <2>3, <2>4, <2>5
<1> QED BY <1>4, <1>5, <1>6, <1>7

\* The decision over N well-formed results is well-formed; if it approves, it reserves no
\* more than the candidate and no more than every result that asks for a modification.
LEMMA BuildDecision ==
  ASSUME NEW results, Len(results) \in Nat, \A k \in 1..Len(results) : ResultTyped(results[k]),
         NEW cand, CandidateTyped(cand)
  PROVE  /\ buildDecision(results, cand) \in FoldState
         /\ buildDecision(results, cand).outcome # "NONE"
         /\ Approves(buildDecision(results, cand)) =>
              /\ buildDecision(results, cand).capital <= cand.capital
              /\ \A k \in 1..Len(results) : results[k].status = "MODIFICATION_REQUIRED" =>
                   buildDecision(results, cand).capital <= results[k].capital
<1> DEFINE N == Len(results)
           T == {d \in FoldState : d.outcome # "NONE"}
           base == Outcome("APPROVED", cand.capital, cand.units)
           step == [x \in T \X (1..N) |-> AddResult(x[1], results[x[2]])]
           Folds(f) == f = [k \in 0..N |-> IF k = 0 THEN base ELSE AddResult(f[k - 1], results[k])]
           d == CHOOSE f : Folds(f)
<1>1. base \in T
  BY OutcomeInFold DEF CandidateTyped, Outcome
<1>2. ASSUME NEW x \in T, NEW k \in 1..N
      PROVE  AddResult(x, results[k]) \in T /\ Tightens(x, results[k], AddResult(x, results[k]))
  <2>1. AddResult(x, results[k]) \in FoldState /\ Tightens(x, results[k], AddResult(x, results[k]))
    BY AddResultTyped
  <2>2. AddResult(x, results[k]).outcome # "NONE"
    BY DEF AddResult, intersectAdjustment, Outcome
  <2> QED BY <2>1, <2>2
<1>3. step \in [T \X (1..N) -> T]
  BY <1>2
<1>4. ASSUME NEW x \in T, NEW k \in 1..N PROVE step[<<x, k>>] = AddResult(x, results[k])
  OBVIOUS
<1> HIDE DEF N, T, base, step
<1>0. N \in Nat
  BY DEF N
<1>5. PICK f : Loops(f, N, T, base, step)
  BY <1>0, <1>1, <1>3, LoopExists DEF Rounds
<1>6. ASSUME NEW k \in 0..N
      PROVE  f[k] = IF k = 0 THEN base ELSE AddResult(f[k - 1], results[k])
  <2>1. CASE k = 0
    BY <1>5, <2>1 DEF Loops
  <2>2. CASE k # 0
    <3>1. k \in 1..N /\ k - 1 \in 0..N
      BY <1>0, <2>2
    <3> QED BY <1>4, <1>5, <2>2, <3>1 DEF Loops
  <2> QED BY <2>1, <2>2
<1>7. Folds(f)
  BY <1>5, <1>6 DEF Loops
<1>8. Folds(d)
  BY <1>7
<1> HIDE DEF d
<1>9. /\ d[0] = base
      /\ \A k \in 1..N : k \in 0..N /\ k - 1 \in 0..N /\ d[k] = AddResult(d[k - 1], results[k])
  BY <1>0, <1>8
<1> HIDE DEF Folds
<1> DEFINE Bounded(k) ==
             /\ d[k] \in T
             /\ Approves(d[k]) =>
                  /\ d[k].capital <= cand.capital
                  /\ \A j \in 1..k : results[j].status = "MODIFICATION_REQUIRED" => d[k].capital <= results[j].capital
           G == {k \in 0..N : Bounded(k)}
<1>10. 0 \in G
  BY <1>0, <1>1, <1>9 DEF base, Outcome, CandidateTyped
<1>11. ASSUME NEW k \in 0..(N - 1), k \in G PROVE k + 1 \in G
  <2>1. k + 1 \in 1..N /\ k + 1 \in 0..N /\ (k + 1) - 1 = k
    BY <1>0
  <2>2. d[k + 1] = AddResult(d[k], results[k + 1]) /\ d[k] \in T
    BY <1>9, <1>11, <2>1
  <2>3. d[k + 1] \in T /\ Tightens(d[k], results[k + 1], d[k + 1])
    BY <1>2, <2>1, <2>2
  <2>4. d[k].capital \in Nat /\ d[k + 1].capital \in Nat
    BY <2>2, <2>3 DEF T, FoldState
  <2>5. /\ cand.capital \in Nat
        /\ \A j \in 1..N : results[j].capital \in Nat
    BY DEF CandidateTyped, ResultTyped, N
  <2>6. ASSUME Approves(d[k + 1])
        PROVE  /\ d[k + 1].capital <= cand.capital
               /\ \A j \in 1..(k + 1) : results[j].status = "MODIFICATION_REQUIRED" => d[k + 1].capital <= results[j].capital
    <3>1. /\ Approves(d[k]) /\ d[k + 1].capital <= d[k].capital
          /\ results[k + 1].status = "MODIFICATION_REQUIRED" => d[k + 1].capital <= results[k + 1].capital
      BY <2>3, <2>6 DEF Tightens
    <3>2. /\ d[k].capital <= cand.capital
          /\ \A j \in 1..k : results[j].status = "MODIFICATION_REQUIRED" => d[k].capital <= results[j].capital
      BY <1>11, <3>1
    <3>3. \A j \in 1..(k + 1) : j \in 1..N /\ (j \in 1..k \/ j = k + 1)
      BY <1>0
    <3> QED BY <2>4, <2>5, <3>1, <3>2, <3>3
  <2> QED BY <2>1, <2>3, <2>6
<1> HIDE DEF G, Bounded
<1>12. \A k \in 0..(N - 1) : k \in G => k + 1 \in G
  BY <1>11
<1>13. \A k \in 0..N : k \in G
  BY <1>0, <1>10, <1>12, Induction
<1>14. N \in G
  BY <1>0, <1>13
<1>15. buildDecision(results, cand) = d[N]
  BY DEF buildDecision, d, N, base, Folds
<1> QED BY <1>14, <1>15 DEF G, Bounded, T, FoldState, N

-----------------------------------------------------------------------------
(* What an approval rests on. *)

PolicyTyped == policy \in RiskPolicies /\ ValidateProductionPolicy(policy)

\* The limits an approved amount keeps on snapshot s.
KeepsAllocation(s, amount) ==
  LET held == s.allocation.deployed + s.allocation.reserved
      own == RuleOf("STRATEGY_ALLOCATION_LIMIT").money
  IN held + amount <= s.allocation.limit /\ (own # Absent => held + amount <= own)
KeepsLimits(s, p, amount, modified) ==
  /\ s.capital.deployed + s.capital.reserved + amount <= RuleOf("PORTFOLIO_CAPITAL_LIMIT").money
  /\ KeepsAllocation(s, amount)
  /\ (s.capital.available - amount) * 10000 >= s.capital.total * RuleOf("RESERVE_CAPITAL").bps
  /\ WithinLossLimits(s)
  /\ WithinExposure(s, p, amount, modified)
  /\ \A scope \in Applicable(s.kill, p) : ~KillSwitchBlocks(s.kill[scope])
  /\ \A scope \in Applicable(s.circuit, p) : ~CircuitBreakerBlocks(s.circuit[scope])

LEMMA PolicyRules ==
  ASSUME PolicyTyped
  PROVE  /\ Len(policy) = 10 /\ DOMAIN policy = 1..10
         /\ \A k \in 1..10 : RuleTyped(policy[k])
         /\ \A k \in 1..10 : policy[k].id = ProductionCatalog[k]
<1> DEFINE Rules == [id : STRING, money : Int, loss : Int, bps : Int, threshold : Int, effect : STRING]
<1>1. policy \in Seq(Rules)
  BY RiskAssumption DEF PolicyTyped
<1>2. \A rule \in Rules : RuleTyped(rule)
  BY DEF RuleTyped
<1> HIDE DEF Rules
<1>3. Len(policy) \in Nat /\ DOMAIN policy = 1..Len(policy)
  BY <1>1, LenProperties
<1>4. \A k \in 1..Len(policy) : RuleTyped(policy[k])
  BY <1>1, <1>2, ElementOfSeq
<1>5. [k \in DOMAIN policy |-> policy[k].id] = ProductionCatalog
  BY DEF PolicyTyped, ValidateProductionPolicy
<1>6. DOMAIN ProductionCatalog = 1..10
  BY DEF ProductionCatalog
<1>7. DOMAIN policy = 1..10
  BY <1>5, <1>6
<1>8. ASSUME NEW n \in Nat, 1..n = 1..10 PROVE n = 10
  <2>1. 10 \in 1..n
    BY <1>8
  <2>2. n \in 1..10
    BY <1>8, <2>1
  <2> QED BY <2>1, <2>2
<1>9. Len(policy) = 10
  BY <1>3, <1>7, <1>8
<1> QED BY <1>4, <1>5, <1>7, <1>9

\* The rule of an identity of the catalog is one of the policy's.
LEMMA RuleOfCatalog ==
  ASSUME PolicyTyped, NEW id, \E k \in 1..10 : ProductionCatalog[k] = id
  PROVE  \E k \in 1..10 : RuleOf(id) = policy[k] /\ policy[k].id = id /\ RuleTyped(policy[k])
<1>1. \E k \in DOMAIN policy : policy[k].id = id
  BY PolicyRules
<1> DEFINE k == CHOOSE k \in DOMAIN policy : policy[k].id = id
<1>2. k \in DOMAIN policy /\ policy[k].id = id
  BY <1>1
<1>3. RuleOf(id) = policy[k]
  BY DEF RuleOf
<1> QED BY <1>2, <1>3, PolicyRules

LEMMA Catalog ==
  \A id \in {"PORTFOLIO_CAPITAL_LIMIT", "STRATEGY_ALLOCATION_LIMIT", "DAILY_LOSS_LIMIT", "DRAWDOWN_LIMIT",
             "INSTRUMENT_EXPOSURE_LIMIT", "UNDERLYING_EXPOSURE_LIMIT", "MAXIMUM_OPEN_EXPOSURE",
             "RESERVE_CAPITAL", "KILL_SWITCH", "CIRCUIT_BREAKER"} :
     \E k \in 1..10 : ProductionCatalog[k] = id
<1>1. /\ ProductionCatalog[1] = "PORTFOLIO_CAPITAL_LIMIT" /\ ProductionCatalog[2] = "STRATEGY_ALLOCATION_LIMIT"
      /\ ProductionCatalog[3] = "DAILY_LOSS_LIMIT" /\ ProductionCatalog[4] = "DRAWDOWN_LIMIT"
      /\ ProductionCatalog[5] = "INSTRUMENT_EXPOSURE_LIMIT" /\ ProductionCatalog[6] = "UNDERLYING_EXPOSURE_LIMIT"
      /\ ProductionCatalog[7] = "MAXIMUM_OPEN_EXPOSURE" /\ ProductionCatalog[8] = "RESERVE_CAPITAL"
      /\ ProductionCatalog[9] = "KILL_SWITCH" /\ ProductionCatalog[10] = "CIRCUIT_BREAKER"
  BY DEF ProductionCatalog
<1>2. {1, 2, 3, 4, 5, 6, 7, 8, 9, 10} \subseteq 1..10
  OBVIOUS
<1> QED BY <1>1, <1>2

\* A rule whose result allows an amount: its identity decides what limit is kept.
LEMMA AllowedKeeps ==
  ASSUME NEW rule, RuleTyped(rule), NEW s, SnapshotTyped(s), NEW cand, CandidateTyped(cand), NEW p,
         NEW amount, Allows(EvaluateRule(rule, s, cand, p), cand, amount)
  PROVE  /\ rule.id = "PORTFOLIO_CAPITAL_LIMIT" =>
              s.capital.deployed + s.capital.reserved + amount <= rule.money
         /\ rule.id = "STRATEGY_ALLOCATION_LIMIT" =>
              LET held == s.allocation.deployed + s.allocation.reserved IN
              held + amount <= s.allocation.limit /\ (rule.money # Absent => held + amount <= rule.money)
         /\ rule.id = "RESERVE_CAPITAL" =>
              (s.capital.available - amount) * 10000 >= s.capital.total * rule.bps
         /\ rule.id = "DAILY_LOSS_LIMIT" => s.loss < rule.loss
         /\ rule.id = "DRAWDOWN_LIMIT" => BelowFall(rule, s)
         /\ rule.id = "KILL_SWITCH" => \A scope \in Applicable(s.kill, p) : ~KillSwitchBlocks(s.kill[scope])
         /\ rule.id = "CIRCUIT_BREAKER" =>
              \A scope \in Applicable(s.circuit, p) : ~CircuitBreakerBlocks(s.circuit[scope])
<1>1. /\ rule.id = "PORTFOLIO_CAPITAL_LIMIT" => EvaluateRule(rule, s, cand, p) = portfolioCapital(rule, s, cand)
      /\ rule.id = "STRATEGY_ALLOCATION_LIMIT" => EvaluateRule(rule, s, cand, p) = strategyAllocation(rule, s, cand)
      /\ rule.id = "RESERVE_CAPITAL" => EvaluateRule(rule, s, cand, p) = reserveCapital(rule, s, cand)
      /\ rule.id = "DAILY_LOSS_LIMIT" => EvaluateRule(rule, s, cand, p) = dailyLoss(rule, s)
      /\ rule.id = "DRAWDOWN_LIMIT" => EvaluateRule(rule, s, cand, p) = drawdown(rule, s)
      /\ rule.id = "KILL_SWITCH" => EvaluateRule(rule, s, cand, p) = killSwitch(rule, s, p)
      /\ rule.id = "CIRCUIT_BREAKER" => EvaluateRule(rule, s, cand, p) = circuitBreaker(rule, s, p)
  BY DEF EvaluateRule
<1>2. rule.id = "PORTFOLIO_CAPITAL_LIMIT" =>
        s.capital.deployed + s.capital.reserved + amount <= rule.money
  BY <1>1, CapitalRule
<1>3. rule.id = "STRATEGY_ALLOCATION_LIMIT" =>
        LET held == s.allocation.deployed + s.allocation.reserved IN
        held + amount <= s.allocation.limit /\ (rule.money # Absent => held + amount <= rule.money)
  BY <1>1, AllocationRule
<1>4. rule.id = "RESERVE_CAPITAL" =>
        (s.capital.available - amount) * 10000 >= s.capital.total * rule.bps
  BY <1>1, ReserveRule
<1>5. rule.id = "DAILY_LOSS_LIMIT" => s.loss < rule.loss
  BY <1>1, LossRule
<1>6. rule.id = "DRAWDOWN_LIMIT" => BelowFall(rule, s)
  BY <1>1, DrawdownRule
<1>7. rule.id = "KILL_SWITCH" => \A scope \in Applicable(s.kill, p) : ~KillSwitchBlocks(s.kill[scope])
  BY <1>1, KillSwitchRule
<1>8. rule.id = "CIRCUIT_BREAKER" =>
        \A scope \in Applicable(s.circuit, p) : ~CircuitBreakerBlocks(s.circuit[scope])
  BY <1>1, CircuitBreakerRule
<1> QED BY <1>2, <1>3, <1>4, <1>5, <1>6, <1>7, <1>8

\* The same for the three exposure rules, each over the subject it limits.
LEMMA AllowedExposure ==
  ASSUME NEW rule, RuleTyped(rule), NEW s, SnapshotTyped(s), NEW cand, CandidateTyped(cand),
         NEW p \in RiskProposals, Projects(s, p, cand),
         NEW x \in SubjectsOf(p), rule.id = ExposureLimitID(x),
         NEW amount, Allows(EvaluateRule(rule, s, cand, p), cand, amount)
  PROVE  /\ s.gross[x] \in Nat /\ s.gross[x] # Unknown /\ amount <= rule.money
         /\ EvaluateRule(rule, s, cand, p).status = "PASS" => s.gross[x] + cand.capital <= rule.money
<1>1. Instrument[p] \in Instruments \ {"UNDERLYING", "PORTFOLIO_WIDE"}
  BY RiskAssumption
<1>2. EvaluateRule(rule, s, cand, p) = exposure(rule, x, cand)
  <2>1. CASE x = "UNDERLYING"
    BY <2>1 DEF ExposureLimitID, EvaluateRule
  <2>2. CASE x = "PORTFOLIO_WIDE"
    BY <2>2 DEF ExposureLimitID, EvaluateRule
  <2>3. CASE x = Instrument[p]
    BY <1>1, <2>3 DEF ExposureLimitID, EvaluateRule
  <2> QED BY <2>1, <2>2, <2>3 DEF SubjectsOf
<1>3. s.gross[x] \in Nat \cup {Unknown}
  BY <1>1 DEF SubjectsOf, Subjects, SnapshotTyped
<1>4. cand.projected[x] = AddMeasured(s.gross[x], cand.capital)
  BY DEF Projects, ProjectExposure
<1> QED BY <1>2, <1>3, <1>4, ExposureKeeps

\* A decision that the rules support is well-formed, and an approval keeps the limits.
LEMMA DecisionKeepsLimits ==
  ASSUME PolicyTyped, NEW s, SnapshotTyped(s), NEW cand, CandidateTyped(cand),
         NEW p \in RiskProposals, Projects(s, p, cand),
         "PANIC" \notin Statuses(RuleResults(policy, s, cand, p)),
         NewPortfolioRiskDecision(buildDecision(RuleResults(policy, s, cand, p), cand),
                                  RuleResults(policy, s, cand, p), cand)
  PROVE  LET d == buildDecision(RuleResults(policy, s, cand, p), cand) IN
         /\ d \in FoldState /\ d.outcome # "NONE"
         /\ Approves(d) => KeepsLimits(s, p, d.capital, d.outcome = "MODIFIED")
<1> DEFINE results == RuleResults(policy, s, cand, p)
           d == buildDecision(results, cand)
<1>1. /\ DOMAIN results = 1..10 /\ Len(results) = 10
      /\ \A k \in 1..10 : results[k] = EvaluateRule(policy[k], s, cand, p)
  <2>1. results = [k \in 1..10 |-> EvaluateRule(policy[k], s, cand, p)]
    BY PolicyRules DEF RuleResults
  <2> HIDE DEF results
  <2> QED BY <2>1
<1>2. \A k \in 1..10 : ResultTyped(results[k])
  BY <1>1, PolicyRules, RuleResultTyped
<1>3. \A k \in 1..10 : results[k].status # "PANIC"
  BY <1>1 DEF Statuses
<1>4. NewPortfolioRiskDecision(d, results, cand)
  OBVIOUS
<1> HIDE DEF results
<1>5. /\ d \in FoldState /\ d.outcome # "NONE"
      /\ Approves(d) => /\ d.capital <= cand.capital
                        /\ \A k \in 1..10 : results[k].status = "MODIFICATION_REQUIRED" =>
                             d.capital <= results[k].capital
  <2>1. Len(results) \in Nat /\ \A k \in 1..Len(results) : ResultTyped(results[k])
    BY <1>1, <1>2
  <2>2. /\ d \in FoldState /\ d.outcome # "NONE"
        /\ Approves(d) => /\ d.capital <= cand.capital
                          /\ \A k \in 1..Len(results) : results[k].status = "MODIFICATION_REQUIRED" =>
                               d.capital <= results[k].capital
    BY <2>1, BuildDecision
  <2> QED BY <1>1, <2>2
<1> HIDE DEF d
<1>6. ASSUME Approves(d) PROVE KeepsLimits(s, p, d.capital, d.outcome = "MODIFIED")
  <2>1. /\ \A k \in 1..10 : results[k].status \notin {"VIOLATION", "DEFER"}
        /\ d.outcome # "MODIFIED" =>
             d.capital = cand.capital /\ \A k \in 1..10 : results[k].status # "MODIFICATION_REQUIRED"
    <3>1. evaluationSupportsOutcome(results, d.outcome) /\ d.outcome \in {"APPROVED", "MODIFIED"}
      BY <1>4, <1>6 DEF NewPortfolioRiskDecision, Approves
    <3>2. "VIOLATION" \notin Statuses(results) /\ Statuses(results) \cap {"DEFER", "ERROR"} = {}
      BY <3>1 DEF evaluationSupportsOutcome
    <3>3. d.outcome # "MODIFIED" => "MODIFICATION_REQUIRED" \notin Statuses(results)
      BY <3>1 DEF evaluationSupportsOutcome
    <3>4. d.outcome # "MODIFIED" => d.capital = cand.capital
      BY <1>4, <3>1 DEF NewPortfolioRiskDecision
    <3> QED BY <1>1, <3>2, <3>3, <3>4 DEF Statuses
  <2>2. ASSUME NEW k \in 1..10 PROVE Allows(EvaluateRule(policy[k], s, cand, p), cand, d.capital)
    <3>1. results[k].status \in {"PASS", "MODIFICATION_REQUIRED"}
      BY <1>2, <1>3, <2>1 DEF ResultTyped
    <3>2. d.capital \in Nat
      BY <1>5 DEF FoldState, DecisionTyped
    <3> QED BY <1>1, <1>5, <1>6, <3>1, <3>2 DEF Allows
  <2>3. \A k \in 1..10 : RuleTyped(policy[k])
    BY PolicyRules
  <2>4. s.capital.deployed + s.capital.reserved + d.capital <= RuleOf("PORTFOLIO_CAPITAL_LIMIT").money
    <3>1. PICK k \in 1..10 : RuleOf("PORTFOLIO_CAPITAL_LIMIT") = policy[k] /\ policy[k].id = "PORTFOLIO_CAPITAL_LIMIT"
      BY Catalog, RuleOfCatalog
    <3> QED BY <2>2, <2>3, <3>1, AllowedKeeps
  <2>5. KeepsAllocation(s, d.capital)
    <3>1. PICK k \in 1..10 : RuleOf("STRATEGY_ALLOCATION_LIMIT") = policy[k] /\ policy[k].id = "STRATEGY_ALLOCATION_LIMIT"
      BY Catalog, RuleOfCatalog
    <3> QED BY <2>2, <2>3, <3>1, AllowedKeeps DEF KeepsAllocation
  <2>6. (s.capital.available - d.capital) * 10000 >= s.capital.total * RuleOf("RESERVE_CAPITAL").bps
    <3>1. PICK k \in 1..10 : RuleOf("RESERVE_CAPITAL") = policy[k] /\ policy[k].id = "RESERVE_CAPITAL"
      BY Catalog, RuleOfCatalog
    <3> QED BY <2>2, <2>3, <3>1, AllowedKeeps
  <2>7. WithinLossLimits(s)
    <3>1. PICK k \in 1..10 : RuleOf("DAILY_LOSS_LIMIT") = policy[k] /\ policy[k].id = "DAILY_LOSS_LIMIT"
      BY Catalog, RuleOfCatalog
    <3>2. PICK n \in 1..10 : RuleOf("DRAWDOWN_LIMIT") = policy[n] /\ policy[n].id = "DRAWDOWN_LIMIT"
      BY Catalog, RuleOfCatalog
    <3>3. s.loss < policy[k].loss
      BY <2>2, <2>3, <3>1, AllowedKeeps
    <3>4. BelowFall(policy[n], s)
      BY <2>2, <2>3, <3>2, AllowedKeeps
    <3> QED BY <3>1, <3>2, <3>3, <3>4 DEF WithinLossLimits, BelowFall
  <2>8. WithinExposure(s, p, d.capital, d.outcome = "MODIFIED")
    <3>1. ASSUME NEW x \in SubjectsOf(p)
          PROVE  LET limit == RuleOf(ExposureLimitID(x)).money IN
                 /\ s.gross[x] # Unknown /\ d.capital <= limit
                 /\ d.outcome # "MODIFIED" => s.gross[x] + d.capital <= limit
      <4>1. PICK k \in 1..10 : RuleOf(ExposureLimitID(x)) = policy[k] /\ policy[k].id = ExposureLimitID(x)
        <5>1. ExposureLimitID(x) \in {"INSTRUMENT_EXPOSURE_LIMIT", "UNDERLYING_EXPOSURE_LIMIT", "MAXIMUM_OPEN_EXPOSURE"}
          BY DEF ExposureLimitID
        <5> QED BY <5>1, Catalog, RuleOfCatalog
      <4>2. /\ s.gross[x] # Unknown /\ d.capital <= policy[k].money
            /\ results[k].status = "PASS" => s.gross[x] + cand.capital <= policy[k].money
        BY <1>1, <2>2, <2>3, <4>1, AllowedExposure
      <4>3. d.outcome # "MODIFIED" => d.capital = cand.capital /\ results[k].status = "PASS"
        BY <1>2, <1>3, <2>1 DEF ResultTyped
      <4> QED BY <4>1, <4>2, <4>3
    <3> QED BY <3>1 DEF WithinExposure
  <2>9. \A scope \in Applicable(s.kill, p) : ~KillSwitchBlocks(s.kill[scope])
    <3>1. PICK k \in 1..10 : policy[k].id = "KILL_SWITCH"
      BY Catalog, RuleOfCatalog
    <3> QED BY <2>2, <2>3, <3>1, AllowedKeeps
  <2>10. \A scope \in Applicable(s.circuit, p) : ~CircuitBreakerBlocks(s.circuit[scope])
    <3>1. PICK k \in 1..10 : policy[k].id = "CIRCUIT_BREAKER"
      BY Catalog, RuleOfCatalog
    <3> QED BY <2>2, <2>3, <3>1, AllowedKeeps
  <2> QED BY <2>4, <2>5, <2>6, <2>7, <2>8, <2>9, <2>10 DEF KeepsLimits
<1> QED BY <1>5, <1>6 DEF d, results

\* The allocation engine offers a whole number of packages.
LEMMA CandidateIsTyped ==
  ASSUME NEW s, SnapshotTyped(s), NewPortfolioSnapshot(s),
         NEW c \in Configurations, ValidConfiguration(c), NEW p \in RiskProposals, Allocatable(s, c, p)
  PROVE  CandidateTyped(AllocationCandidate(s, c, p)) /\ Projects(s, p, AllocationCandidate(s, c, p))
<1> DEFINE requested == BPS(s.allocation.limit, Sizing[p])
           kept == BPS(c.total, c.reserveBPS + c.emergencyBPS)
           free == Max({0, s.capital.available - kept})
           bounds == {requested, s.allocation.remaining, free, c.strategy, c.instrument, c.underlying, c.group}
           least == Min(bounds)
           packages == Packages(s, c, p)
<1>1. \A a, b \in Nat : (a * b) \div 10000 \in Nat
  <2>1. \A x \in Nat : x \div 10000 \in Nat
    OBVIOUS
  <2>2. \A a, b \in Nat : a * b \in Nat
    OBVIOUS
  <2> QED BY <2>1, <2>2
<1>2. s.allocation.limit \in Nat /\ s.allocation.remaining \in Nat
  BY DEF SnapshotTyped, NewPortfolioSnapshot, NewStrategyAllocation, Allocations
<1>3. requested \in Nat
  <2>1. Sizing[p] \in Nat
    BY RiskAssumption
  <2> QED BY <1>1, <1>2, <2>1 DEF BPS
<1>4. /\ c.total \in Nat /\ c.reserveBPS + c.emergencyBPS \in Nat
      /\ c.strategy \in Nat /\ c.instrument \in Nat /\ c.underlying \in Nat /\ c.group \in Nat
  <2>1. c.total \in Int
    <3>1. c \in [enabled : BOOLEAN, total : Int, strategy : Int, instrument : Int, underlying : Int,
                 group : Int, reserveBPS : Int, emergencyBPS : Int]
      BY RiskAssumption
    <3> QED BY <3>1
  <2>2. c.reserveBPS \in 0..WholeBPS /\ c.emergencyBPS \in 0..WholeBPS /\ WholeBPS \in Nat
    <3>1. WholeBPS \in Nat
      BY DEF WholeBPS
    <3> QED BY <3>1 DEF ValidConfiguration
  <2>3. \A limit \in {c.strategy, c.instrument, c.underlying, c.group} : limit \in 1..c.total
    BY DEF ValidConfiguration
  <2>4. ASSUME NEW total \in Int, NEW limit \in 1..total PROVE limit \in Nat /\ total \in Nat
    OBVIOUS
  <2> QED BY <2>1, <2>2, <2>3, <2>4
<1>5. s.capital.available - kept \in Int
  BY <1>1, <1>4 DEF BPS, SnapshotTyped, Capitals
<1>6. free \in Nat
  <2> DEFINE left == s.capital.available - kept
  <2>1. left \in Int
    BY <1>5
  <2> HIDE DEF left
  <2>2. \E x \in {0, left} : \A y \in {0, left} : x >= y
    BY <2>1
  <2>3. Max({0, left}) \in {0, left} /\ Max({0, left}) >= 0
    BY <2>2 DEF Max
  <2>4. Max({0, left}) \in Nat
    BY <2>1, <2>3
  <2> QED BY <2>4 DEF left
<1>7. bounds \subseteq Nat /\ bounds # {}
  BY <1>2, <1>3, <1>4, <1>6
<1> HIDE DEF bounds
<1>8. least \in bounds
  BY <1>7, LeastNatural DEF Min
<1>9. packages = least \div PackageCost
  BY DEF Packages, AllocationBound, bounds
<1> HIDE DEF least
<1>10. packages \in Int /\ packages > 0
  <2>1. least \in Int
    BY <1>7, <1>8
  <2>2. PackageCost \in Nat \ {0}
    BY RiskAssumption
  <2>3. \A a \in Int, b \in Nat \ {0} : a \div b \in Int
    OBVIOUS
  <2>4. packages > 0
    BY DEF Allocatable
  <2> QED BY <1>9, <2>1, <2>2, <2>3, <2>4
<1> HIDE DEF packages
<1>11. packages * PackageCost \in Nat /\ packages * LotSize \in Int
  <2>1. packages \in Nat /\ PackageCost \in Nat /\ LotSize \in Nat
    BY <1>10, RiskAssumption
  <2>2. \A a, b \in Nat : a * b \in Nat
    OBVIOUS
  <2> QED BY <2>1, <2>2
<1> QED BY <1>11 DEF AllocationCandidate, CandidateTyped, Projects, packages

-----------------------------------------------------------------------------
(* The next snapshot. *)

LEMMA NextSnapshotFacts ==
  ASSUME NEW s, SnapshotTyped(s), NEW p, NEW cand, CandidateTyped(cand), Projects(s, p, cand),
         NEW d, DecisionTyped(d), NEW results
  PROVE  LET next == NextSnapshot(s, p, cand, d, results) IN
         /\ SnapshotTyped(next)
         /\ next.capital.total = s.capital.total
         /\ next.capital.reserved = s.capital.reserved + d.capital
<1> DEFINE next == NextSnapshot(s, p, cand, d, results)
<1>1. /\ next.capital = IF Approves(d) THEN ReserveCapital(s.capital, d.capital) ELSE s.capital
      /\ next.allocation = IF Approves(d) THEN ReserveAllocation(s.allocation, d.capital) ELSE s.allocation
      /\ next.loss = s.loss /\ next.drawdown = s.drawdown /\ next.drawdownBPS = s.drawdownBPS
      /\ next.gross = IF Approves(d) THEN mergeExposures(s.gross, cand.projected) ELSE s.gross
  BY DEF NextSnapshot
<1> HIDE DEF next
<1>2. /\ s.capital \in Capitals /\ s.allocation \in Allocations
      /\ s.loss \in Int /\ s.drawdown \in Int /\ s.drawdownBPS \in Int
      /\ s.gross \in [Subjects -> Nat \cup {Unknown}]
      /\ d.capital \in Int /\ (~Approves(d) => d.capital = 0)
  BY DEF SnapshotTyped, DecisionTyped
<1>3. /\ ReserveCapital(s.capital, d.capital) \in Capitals
      /\ ReserveCapital(s.capital, d.capital).total = s.capital.total
      /\ ReserveCapital(s.capital, d.capital).reserved = s.capital.reserved + d.capital
  BY <1>2 DEF ReserveCapital, Capitals
<1>4. ReserveAllocation(s.allocation, d.capital) \in Allocations
  <2>1. /\ s.allocation.state \in AllocationStates /\ s.allocation.limit \in Int
        /\ s.allocation.remaining - d.capital \in Int /\ s.allocation.reserved + d.capital \in Int
        /\ s.allocation.deployed \in Int
    BY <1>2 DEF Allocations
  <2>2. (IF s.allocation.remaining = d.capital THEN "EXHAUSTED" ELSE s.allocation.state) \in AllocationStates
    BY <2>1 DEF AllocationStates
  <2> QED BY <2>1, <2>2 DEF ReserveAllocation, Allocations
<1>5. s.capital.reserved \in Int
  BY <1>2 DEF Capitals
<1>6. next.capital.total = s.capital.total /\ next.capital.reserved = s.capital.reserved + d.capital
  BY <1>1, <1>2, <1>3, <1>5
<1>7. mergeExposures(s.gross, cand.projected) \in [Subjects -> Nat \cup {Unknown}]
  <2>1. ASSUME NEW x \in Subjects
        PROVE  (IF x \in DOMAIN cand.projected THEN cand.projected[x] ELSE s.gross[x]) \in Nat \cup {Unknown}
    <3>1. s.gross[x] \in Nat \cup {Unknown} /\ cand.capital \in Nat
      BY <1>2 DEF CandidateTyped
    <3>2. AddMeasured(s.gross[x], cand.capital) \in Nat \cup {Unknown}
      BY <3>1 DEF AddMeasured, Unknown
    <3> QED BY <3>1, <3>2 DEF Projects, ProjectExposure
  <2> QED BY <1>2, <2>1 DEF mergeExposures
<1>8. SnapshotTyped(next)
  BY <1>1, <1>2, <1>3, <1>4, <1>7 DEF SnapshotTyped
<1> QED BY <1>6, <1>8 DEF next

LEMMA ControlsStay ==
  ASSUME NEW s, NEW p, NEW cand, NEW d, NEW results
  PROVE  LET next == NextSnapshot(s, p, cand, d, results) IN
         /\ \A scope \in DOMAIN s.kill : Latched(s.kill[scope]) => Latched(next.kill[scope])
         /\ \A scope \in DOMAIN s.circuit : s.circuit[scope] = "OPEN" => next.circuit[scope] = "OPEN"
<1> DEFINE next == NextSnapshot(s, p, cand, d, results)
<1>1. /\ next.kill = s.kill \/ next.kill = SetControls(s.kill, p, "DISABLED_BY_CONFIGURATION", "ACTIVE")
      /\ next.circuit = s.circuit \/ next.circuit = SetControls(s.circuit, p, "DISABLED", "OPEN")
  BY DEF NextSnapshot, applyControlEffects
<1> HIDE DEF next
<1>2. \A scope \in DOMAIN s.kill :
         SetControls(s.kill, p, "DISABLED_BY_CONFIGURATION", "ACTIVE")[scope] \in {"ACTIVE", s.kill[scope]}
  BY DEF SetControls
<1>3. \A scope \in DOMAIN s.circuit :
         SetControls(s.circuit, p, "DISABLED", "OPEN")[scope] \in {"OPEN", s.circuit[scope]}
  BY DEF SetControls
<1> QED BY <1>1, <1>2, <1>3 DEF Latched, next

-----------------------------------------------------------------------------
(* The inductive invariant.  The books: the registered documents are valid, the newest *)
(* checkpoint is the highest, the publications are what the receipts count.  The calls: who *)
(* holds the portfolio, and what a call that is about to publish rests on.             *)

RegistryOK ==
  /\ configuration = <<>> \/ \E c \in Configurations : ValidConfiguration(c) /\ configuration = <<c>>
  /\ policy = <<>> \/ PolicyTyped

SnapshotSound(s) == SnapshotTyped(s) /\ NewPortfolioSnapshot(s) /\ s.revision \in Nat
CheckpointsOK ==
  /\ DOMAIN checkpoints \subseteq Nat
  /\ Initialized => \E m \in DOMAIN checkpoints : \A r \in DOMAIN checkpoints : m >= r
  /\ \A r \in DOMAIN checkpoints : SnapshotSound(checkpoints[r]) /\ checkpoints[r].revision = r
  /\ \A s \in archive : SnapshotSound(s)

HistoryOK ==
  /\ IsFiniteSet(publications)
  /\ \A x \in publications : x.capital \in Int /\ x.revision \in Nat
  /\ Initialized => \A x \in publications : x.revision <= CurrentRevision
  /\ ~Initialized => publications = {} /\ receipts = 0
  /\ policy = <<>> => history = {}
  /\ restarts \in Nat

Books == RegistryOK /\ CheckpointsOK /\ HistoryOK /\ CapitalAccounted /\ ApprovedWithinLimits

Before == {"lookup", "reserve", "slot", "evaluate", "publish"}
Holding == {"slot", "evaluate", "publish", "leave"}
Calls ==
  [pc : {"idle"} \cup Before \cup Holding, proposal : RiskProposals \cup {NoRequest.proposal},
   revision : Nat, time : Times \cup {0}, outcome : FoldState]

\* The call was judged on the snapshot it names.
Judged(c) ==
  LET s == checkpoints[c.revision]
      cand == AllocationCandidate(s, configuration[1], c.proposal)
      results == RuleResults(policy, s, cand, c.proposal)
  IN /\ Allocatable(s, configuration[1], c.proposal)
     /\ "PANIC" \notin Statuses(results)
     /\ NewPortfolioRiskDecision(buildDecision(results, cand), results, cand)
     /\ c.outcome = buildDecision(results, cand)

CallFine(c) ==
  c.pc \in Before =>
    /\ configuration # <<>> /\ policy # <<>>
    /\ c.revision \in DOMAIN checkpoints /\ c.proposal \in RiskProposals
    /\ c.pc = "publish" => Judged(c)

CallsInv ==
  /\ decision \in [Deciders -> Calls]
  /\ deciding \in Deciders \cup {Nobody} /\ riskSlots \subseteq Deciders
  /\ \A d \in Deciders : CallFine(decision[d])
  /\ \A d \in Deciders : decision[d].pc \in Holding <=> deciding = d

IndInv == Books /\ CallsInv

LEMMA IndInvImplies == IndInv => RiskInv
BY DEF IndInv, Books, CallsInv, RiskInv, RiskTypeOK, CheckpointsOK, SnapshotSound,
       PortfolioReserved, Holding

LEMMA CurrentIsHighest ==
  ASSUME CheckpointsOK, Initialized
  PROVE  /\ CurrentRevision \in DOMAIN checkpoints /\ CurrentRevision \in Nat
         /\ \A r \in DOMAIN checkpoints : r <= CurrentRevision
<1>1. \E m \in DOMAIN checkpoints : \A r \in DOMAIN checkpoints : m >= r
  BY DEF CheckpointsOK
<1>2. CurrentRevision \in DOMAIN checkpoints /\ \A r \in DOMAIN checkpoints : CurrentRevision >= r
  BY <1>1 DEF CurrentRevision, Max
<1> QED BY <1>2 DEF CheckpointsOK

LEMMA HighestIsMax ==
  ASSUME NEW D, D \subseteq Nat, NEW m \in D, \A r \in D : m >= r
  PROVE  Max(D) = m
<1>1. Max(D) \in D /\ \A r \in D : Max(D) >= r
  BY DEF Max
<1>2. Max(D) \in Nat /\ m \in Nat /\ Max(D) >= m /\ m >= Max(D)
  BY <1>1
<1> QED BY <1>2

\* What a judged call rests on: its outcome is well-formed and, if it approves, within limits.
LEMMA JudgedDecision ==
  ASSUME RegistryOK, CheckpointsOK, NEW c, CallFine(c), c.pc = "publish"
  PROVE  /\ c.outcome \in FoldState
         /\ Approves(c.outcome) =>
              KeepsLimits(checkpoints[c.revision], c.proposal, c.outcome.capital, c.outcome.outcome = "MODIFIED")
         /\ LET s == checkpoints[c.revision]
                cand == AllocationCandidate(s, configuration[1], c.proposal)
            IN CandidateTyped(cand) /\ Projects(s, c.proposal, cand)
<1> DEFINE s == checkpoints[c.revision]
           cand == AllocationCandidate(s, configuration[1], c.proposal)
           results == RuleResults(policy, s, cand, c.proposal)
<1>1. /\ configuration # <<>> /\ policy # <<>> /\ c.revision \in DOMAIN checkpoints
      /\ c.proposal \in RiskProposals /\ Judged(c)
  BY DEF CallFine, Before
<1>2. PolicyTyped /\ configuration[1] \in Configurations /\ ValidConfiguration(configuration[1])
  BY <1>1 DEF RegistryOK
<1>3. SnapshotTyped(s) /\ NewPortfolioSnapshot(s)
  BY <1>1 DEF CheckpointsOK, SnapshotSound
<1>4. /\ Allocatable(s, configuration[1], c.proposal)
      /\ "PANIC" \notin Statuses(results)
      /\ NewPortfolioRiskDecision(buildDecision(results, cand), results, cand)
      /\ c.outcome = buildDecision(results, cand)
  BY <1>1 DEF Judged
<1> HIDE DEF s
<1>5. CandidateTyped(cand) /\ Projects(s, c.proposal, cand)
  BY <1>1, <1>2, <1>3, <1>4, CandidateIsTyped
<1> HIDE DEF cand
<1>6. /\ buildDecision(results, cand) \in FoldState
      /\ Approves(buildDecision(results, cand)) =>
           KeepsLimits(s, c.proposal, buildDecision(results, cand).capital,
                       buildDecision(results, cand).outcome = "MODIFIED")
  BY <1>1, <1>2, <1>3, <1>4, <1>5, DecisionKeepsLimits
<1> QED BY <1>4, <1>5, <1>6 DEF s, cand

-----------------------------------------------------------------------------
LEMMA InitialIndInv == RiskInit => IndInv
<1> SUFFICES ASSUME RiskInit PROVE IndInv
  OBVIOUS
<1>1. ~Initialized
  BY DEF RiskInit, Initialized
<1>2. DOMAIN checkpoints = {}
  BY <1>1 DEF Initialized
<1>3. Books
  BY <1>1, <1>2, FS_EmptySet DEF RiskInit, Books, RegistryOK, CheckpointsOK, HistoryOK, CapitalAccounted, ApprovedWithinLimits
<1>4. NoRequest \in Calls
  <2>1. Outcome("NONE", 0, 0) \in FoldState
    BY OutcomeInFold DEF Outcomes
  <2> DEFINE any == CHOOSE p \in RiskProposals : TRUE
  <2> HIDE DEF any
  <2>2. NoRequest = [pc |-> "idle", proposal |-> any, revision |-> 0, time |-> 0, outcome |-> Outcome("NONE", 0, 0)]
    BY DEF NoRequest, any
  <2> QED BY <2>1, <2>2 DEF Calls
<1>5. NoRequest.pc = "idle"
  BY DEF NoRequest
<1>6. CallsInv
  BY <1>4, <1>5, RiskAssumption DEF RiskInit, CallsInv, CallFine, Before, Holding
<1> QED BY <1>3, <1>6 DEF IndInv

LEMMA ApprovalsStay ==
  ASSUME ApprovedWithinLimits, policy' = policy, history' = history
  PROVE  ApprovedWithinLimits'
<1>1. \A id : RuleOf(id)' = RuleOf(id)
  BY DEF RuleOf
<1>2. ASSUME NEW s, NEW p, NEW amount, NEW modified
      PROVE  /\ WithinLossLimits(s)' <=> WithinLossLimits(s)
             /\ WithinExposure(s, p, amount, modified)' <=> WithinExposure(s, p, amount, modified)
  BY <1>1 DEF WithinLossLimits, WithinExposure
<1> QED BY <1>1, <1>2 DEF ApprovedWithinLimits

LEMMA BooksUnchanged ==
  ASSUME Books, UNCHANGED <<configuration, policy, checkpoints, publications, archive, history, receipts, restarts>>
  PROVE  Books'
<1>1. /\ configuration' = configuration /\ policy' = policy /\ checkpoints' = checkpoints
      /\ publications' = publications /\ archive' = archive
      /\ history' = history /\ receipts' = receipts /\ restarts' = restarts
  OBVIOUS
<1>2. (Initialized <=> Initialized') /\ CurrentRevision' = CurrentRevision
  BY <1>1 DEF Initialized, CurrentRevision
<1>3. RegistryOK'
  BY <1>1 DEF Books, RegistryOK, PolicyTyped
<1>4. CheckpointsOK'
  BY <1>1, <1>2 DEF Books, CheckpointsOK
<1>5. HistoryOK'
  BY <1>1, <1>2 DEF Books, HistoryOK
<1>6. CapitalAccounted'
  BY <1>1, <1>2 DEF Books, CapitalAccounted
<1>7. ApprovedWithinLimits'
  BY <1>1, ApprovalsStay DEF Books
<1> QED BY <1>3, <1>4, <1>5, <1>6, <1>7 DEF Books

\* A call that moves on its own: the others stay fine, and its reservation stays counted.
LEMMA OneCall ==
  ASSUME CallsInv, NEW d \in Deciders, NEW new \in Calls,
         UNCHANGED <<configuration, policy, checkpoints>>,
         decision' = [decision EXCEPT ![d] = new],
         CallFine(new)',
         deciding' \in Deciders \cup {Nobody}, riskSlots' \subseteq Deciders,
         new.pc \in Holding <=> deciding' = d,
         \A e \in Deciders : e # d => (deciding' = e <=> deciding = e)
  PROVE  CallsInv'
<1>1. decision' \in [Deciders -> Calls]
  BY DEF CallsInv
<1>2. decision'[d] = new /\ \A e \in Deciders : e # d => decision'[e] = decision[e]
  BY DEF CallsInv
<1>3. ASSUME NEW e \in Deciders PROVE CallFine(decision[e])'
  <2>1. CASE e = d
    BY <1>2, <2>1 DEF CallFine, Judged
  <2>2. CASE e # d
    <3>1. CallFine(decision[e])
      BY DEF CallsInv
    <3> QED BY <1>2, <2>2, <3>1 DEF CallFine, Judged
  <2> QED BY <2>1, <2>2
<1>4. ASSUME NEW e \in Deciders PROVE decision'[e].pc \in Holding <=> deciding' = e
  BY <1>2 DEF CallsInv
<1> QED BY <1>1, <1>3, <1>4 DEF CallsInv

LEMMA GoToCall ==
  ASSUME CallsInv, NEW d \in Deciders, NEW pc \in {"idle"} \cup Before \cup Holding, GoTo(d, pc)
  PROVE  \E new \in Calls :
           /\ decision' = [decision EXCEPT ![d] = new]
           /\ new = [pc |-> pc, proposal |-> decision[d].proposal, revision |-> decision[d].revision,
                     time |-> decision[d].time, outcome |-> decision[d].outcome]
<1> DEFINE new == [pc |-> pc, proposal |-> decision[d].proposal, revision |-> decision[d].revision,
                   time |-> decision[d].time, outcome |-> decision[d].outcome]
<1>1. decision[d] \in Calls
  BY DEF CallsInv
<1>2. new \in Calls /\ [decision[d] EXCEPT !.pc = pc] = new
  BY <1>1 DEF Calls
<1>3. decision' = [decision EXCEPT ![d] = [decision[d] EXCEPT !.pc = pc]]
  BY DEF GoTo, CallsInv
<1> QED BY <1>2, <1>3

\* The two calls without a request: nobody's, and one that has yet to leave.
LEMMA Requestless ==
  /\ NoRequest \in Calls /\ NoRequest.pc = "idle"
  /\ [NoRequest EXCEPT !.pc = "leave"] \in Calls
  /\ [NoRequest EXCEPT !.pc = "leave"].pc = "leave"
  /\ NoRequest.outcome \in FoldState
<1>1. Outcome("NONE", 0, 0) \in FoldState
  BY OutcomeInFold DEF Outcomes
<1> DEFINE any == CHOOSE p \in RiskProposals : TRUE
<1> HIDE DEF any
<1>2. NoRequest = [pc |-> "idle", proposal |-> any, revision |-> 0, time |-> 0, outcome |-> Outcome("NONE", 0, 0)]
  BY DEF NoRequest, any
<1>3. NoRequest.proposal = any
  BY <1>2
<1>4. [NoRequest EXCEPT !.pc = "leave"] =
        [pc |-> "leave", proposal |-> any, revision |-> 0, time |-> 0, outcome |-> Outcome("NONE", 0, 0)]
  BY <1>2
<1> QED BY <1>1, <1>2, <1>3, <1>4 DEF Calls, Holding

-----------------------------------------------------------------------------
(* The calls that leave the books alone. *)

LEMMA EvaluateProposalStep ==
  ASSUME IndInv, NEW d \in Deciders, NEW p \in RiskProposals, NEW r \in DOMAIN checkpoints,
         NEW t \in Times, EvaluateProposal(d, p, r, t)
  PROVE  IndInv'
<1> DEFINE new == [pc |-> "lookup", proposal |-> p, revision |-> r, time |-> t, outcome |-> NoRequest.outcome]
<1>1. Books'
  BY BooksUnchanged DEF IndInv, EvaluateProposal, repository, log
<1>2. r \in Nat
  BY DEF IndInv, Books, CheckpointsOK
<1>3. new \in Calls
  BY <1>2, Requestless DEF Calls, Before
<1>4. /\ decision' = [decision EXCEPT ![d] = new] /\ configuration # <<>> /\ policy # <<>>
      /\ decision[d].pc = "idle"
      /\ UNCHANGED <<configuration, policy, checkpoints, deciding, riskSlots>>
  BY DEF EvaluateProposal, repository, runner
<1>5. CallFine(new)'
  BY <1>4 DEF CallFine, Before
<1>6. new.pc \notin Holding /\ deciding # d
  BY <1>4 DEF IndInv, CallsInv, Holding
<1> HIDE DEF new
<1>7. CallsInv'
  BY <1>3, <1>4, <1>5, <1>6, OneCall DEF IndInv, CallsInv
<1> QED BY <1>1, <1>7 DEF IndInv

\* A call that goes on, or answers, without touching its reservation.
LEMMA CallStepKeeps ==
  ASSUME IndInv, NEW d \in Deciders, NEW new \in Calls,
         decision' = [decision EXCEPT ![d] = new],
         UNCHANGED <<repository, log, deciding>>, riskSlots' \subseteq Deciders,
         CallFine(new)', new.pc \in Holding <=> decision[d].pc \in Holding
  PROVE  IndInv'
<1>1. Books'
  BY BooksUnchanged DEF IndInv, repository, log
<1>2. CallsInv'
  BY OneCall DEF IndInv, CallsInv, repository
<1> QED BY <1>1, <1>2 DEF IndInv

LEMMA LookupStep ==
  ASSUME IndInv, NEW d \in Deciders, Lookup(d)
  PROVE  IndInv'
<1>1. UNCHANGED <<repository, log, deciding>> /\ riskSlots' \subseteq Deciders
  BY DEF Lookup, runner, IndInv, CallsInv
<1>2. decision[d].pc = "lookup" /\ decision[d].pc \notin Holding
  BY DEF Lookup, Holding
<1>3. CASE Return(d)
  <2>1. CallFine(NoRequest)' /\ NoRequest.pc \notin Holding
    BY Requestless DEF CallFine, Before, Holding
  <2> QED BY <1>1, <1>2, <1>3, <2>1, Requestless, CallStepKeeps DEF Return
<1>4. CASE GoTo(d, "reserve")
  <2>1. PICK new \in Calls :
           /\ decision' = [decision EXCEPT ![d] = new]
           /\ new = [pc |-> "reserve", proposal |-> decision[d].proposal, revision |-> decision[d].revision,
                     time |-> decision[d].time, outcome |-> decision[d].outcome]
    BY <1>4, GoToCall DEF IndInv, Before
  <2>2. CallFine(decision[d])
    BY DEF IndInv, CallsInv
  <2>3. CallFine(new)' /\ new.pc \notin Holding
    BY <1>1, <1>2, <2>1, <2>2 DEF CallFine, Before, Holding, repository
  <2> QED BY <1>1, <1>2, <2>1, <2>3, CallStepKeeps
<1> QED BY <1>3, <1>4 DEF Lookup

LEMMA ReserveRefusedStep ==
  ASSUME IndInv, NEW d \in Deciders, ReserveRefused(d)
  PROVE  IndInv'
<1>1. UNCHANGED <<repository, log, deciding>> /\ riskSlots' \subseteq Deciders
  BY DEF ReserveRefused, runner, IndInv, CallsInv
<1>2. decision[d].pc \notin Holding /\ decision' = [decision EXCEPT ![d] = NoRequest]
  BY DEF ReserveRefused, Return, Holding
<1>3. CallFine(NoRequest)' /\ NoRequest.pc \notin Holding
  BY Requestless DEF CallFine, Before, Holding
<1> QED BY <1>1, <1>2, <1>3, Requestless, CallStepKeeps

LEMMA reserveStep ==
  ASSUME IndInv, NEW d \in Deciders, reserve(d)
  PROVE  IndInv'
<1>1. /\ UNCHANGED <<repository, riskSlots, log>> /\ deciding' = d /\ deciding = Nobody
      /\ decision[d].pc = "reserve" /\ GoTo(d, "slot")
  BY DEF reserve
<1>2. Books'
  BY <1>1, BooksUnchanged DEF IndInv, repository, log
<1>3. PICK new \in Calls :
         /\ decision' = [decision EXCEPT ![d] = new]
         /\ new = [pc |-> "slot", proposal |-> decision[d].proposal, revision |-> decision[d].revision,
                   time |-> decision[d].time, outcome |-> decision[d].outcome]
  BY <1>1, GoToCall DEF IndInv, Before
<1>4. CallFine(decision[d])
  BY DEF IndInv, CallsInv
<1>5. CallFine(new)' /\ new.pc \in Holding
  BY <1>1, <1>3, <1>4 DEF CallFine, Before, Holding, repository
<1>6. \A e \in Deciders : e # d => (deciding' = e <=> deciding = e)
  BY <1>1, RiskAssumption
<1>7. UNCHANGED <<configuration, policy, checkpoints>> /\ deciding' \in Deciders \cup {Nobody} /\ riskSlots' \subseteq Deciders
  BY <1>1 DEF repository, IndInv, CallsInv
<1>8. CallsInv'
  BY <1>1, <1>3, <1>5, <1>6, <1>7, OneCall DEF IndInv
<1> QED BY <1>2, <1>8 DEF IndInv

LEMMA TakeSlotStep ==
  ASSUME IndInv, NEW d \in Deciders, TakeSlot(d)
  PROVE  IndInv'
<1>1. UNCHANGED <<repository, log, deciding>> /\ riskSlots' \subseteq Deciders
  BY DEF TakeSlot, IndInv, CallsInv
<1>2. decision[d].pc = "slot" /\ GoTo(d, "evaluate")
  BY DEF TakeSlot
<1>3. PICK new \in Calls :
         /\ decision' = [decision EXCEPT ![d] = new]
         /\ new = [pc |-> "evaluate", proposal |-> decision[d].proposal, revision |-> decision[d].revision,
                   time |-> decision[d].time, outcome |-> decision[d].outcome]
  BY <1>2, GoToCall DEF IndInv, Before
<1>4. CallFine(decision[d])
  BY DEF IndInv, CallsInv
<1>5. CallFine(new)' /\ new.pc \in Holding /\ decision[d].pc \in Holding
  BY <1>1, <1>2, <1>3, <1>4 DEF CallFine, Before, Holding, repository
<1> QED BY <1>1, <1>3, <1>5, CallStepKeeps

\* A call that holds the portfolio and gives up leaves nothing but its reservation.
LEMMA UnwindKeeps ==
  ASSUME IndInv, NEW d \in Deciders, decision[d].pc \in Holding, Unwind(d),
         UNCHANGED <<repository, runner, log>>
  PROVE  IndInv'
<1> DEFINE new == [NoRequest EXCEPT !.pc = "leave"]
<1>1. UNCHANGED <<repository, log, deciding>> /\ riskSlots' \subseteq Deciders
  BY DEF runner, IndInv, CallsInv
<1>2. new \in Calls /\ new.pc = "leave" /\ decision' = [decision EXCEPT ![d] = new]
  BY Requestless DEF Unwind
<1> HIDE DEF new
<1>3. CallFine(new)' /\ new.pc \in Holding
  BY <1>2 DEF CallFine, Before, Holding
<1> QED BY <1>1, <1>2, <1>3, CallStepKeeps

LEMMA GivingUpStep ==
  ASSUME IndInv, NEW d \in Deciders, AbandonSlot(d) \/ EvaluateFails(d) \/ PublicationRefused(d)
  PROVE  IndInv'
<1>1. /\ decision[d].pc \in Holding /\ Unwind(d)
      /\ UNCHANGED <<repository, runner, log>>
  BY DEF AbandonSlot, EvaluateFails, PublicationRefused, Holding
<1> QED BY <1>1, UnwindKeeps

\* The outcome a call carries to its publication is the one its evaluation yielded.
LEMMA EvaluateStep ==
  ASSUME IndInv, NEW d \in Deciders, EvaluateCandidate(d)
  PROVE  IndInv'
<1>1. /\ UNCHANGED <<repository, log, deciding>> /\ riskSlots' \subseteq Deciders
      /\ decision[d].pc = "evaluate" /\ Evaluable(d)
  BY DEF EvaluateCandidate, runner, IndInv, CallsInv
<1>2. /\ configuration # <<>> /\ policy # <<>>
      /\ decision[d].revision \in DOMAIN checkpoints /\ decision[d].proposal \in RiskProposals
      /\ decision[d] \in Calls
  BY <1>1 DEF IndInv, CallsInv, CallFine, Before
<1>3. Decision(d) \in FoldState
  <2>1. PolicyTyped /\ configuration[1] \in Configurations /\ ValidConfiguration(configuration[1])
    BY <1>2 DEF IndInv, Books, RegistryOK
  <2>2. SnapshotTyped(Snapshot(d)) /\ NewPortfolioSnapshot(Snapshot(d))
    BY <1>2 DEF IndInv, Books, CheckpointsOK, SnapshotSound, Snapshot
  <2>3. /\ Allocatable(Snapshot(d), configuration[1], decision[d].proposal)
        /\ "PANIC" \notin Statuses(Results(d))
        /\ NewPortfolioRiskDecision(Decision(d), Results(d), Candidate(d))
    BY <1>1 DEF Evaluable
  <2>4. CandidateTyped(Candidate(d)) /\ Projects(Snapshot(d), decision[d].proposal, Candidate(d))
    BY <1>2, <2>1, <2>2, <2>3, CandidateIsTyped DEF Candidate
  <2> QED BY <1>2, <2>1, <2>2, <2>3, <2>4, DecisionKeepsLimits DEF Decision, Results
<1>4. PICK new \in Calls :
         new = [pc |-> "publish", proposal |-> decision[d].proposal, revision |-> decision[d].revision,
                time |-> decision[d].time, outcome |-> Decision(d)]
  BY <1>2, <1>3 DEF Calls, Before
<1>5. Judged(new)
  BY <1>1, <1>4 DEF Judged, Evaluable, Decision, Results, Candidate, Snapshot
<1>6. /\ decision' = [decision EXCEPT ![d] = new]
      /\ checkpoints' = checkpoints /\ configuration' = configuration /\ policy' = policy
  BY <1>4 DEF EvaluateCandidate, repository
<1>7. CallFine(new)'
  <2>1. Judged(new)'
    BY <1>5, <1>6 DEF Judged
  <2> QED BY <1>2, <1>4, <1>6, <2>1 DEF CallFine
<1>8. new.pc \in Holding /\ decision[d].pc \in Holding
  BY <1>1, <1>4 DEF Holding
<1> QED BY <1>1, <1>6, <1>7, <1>8, CallStepKeeps

LEMMA releaseStep ==
  ASSUME IndInv, NEW d \in Deciders, release(d)
  PROVE  IndInv'
<1>1. /\ UNCHANGED <<repository, log>> /\ deciding' = Nobody /\ riskSlots' \subseteq Deciders
      /\ decision[d].pc = "leave" /\ decision' = [decision EXCEPT ![d] = NoRequest]
  BY DEF release, Return, IndInv, CallsInv
<1>2. Books'
  BY <1>1, BooksUnchanged DEF IndInv, repository, log
<1>3. CallFine(NoRequest)' /\ NoRequest.pc \notin Holding /\ deciding = d
  BY <1>1, Requestless DEF CallFine, Before, Holding, IndInv, CallsInv
<1>4. \A e \in Deciders : e # d => (deciding' = e <=> deciding = e)
  BY <1>1, <1>3, RiskAssumption
<1>5. NoRequest.pc \in Holding <=> deciding' = d
  BY <1>1, <1>3, RiskAssumption
<1>6. CallsInv'
  BY <1>1, <1>3, <1>4, <1>5, Requestless, OneCall DEF IndInv, repository
<1> QED BY <1>2, <1>6 DEF IndInv

-----------------------------------------------------------------------------
(* The registrations, the start and the restart. *)

LEMMA RegisterConfigurationStep ==
  ASSUME IndInv, NEW c \in Configurations, RegisterConfiguration(c)
  PROVE  IndInv'
<1>1. /\ configuration = <<>> /\ ValidConfiguration(c) /\ configuration' = <<c>>
      /\ policy' = policy /\ checkpoints' = checkpoints /\ decision' = decision
      /\ deciding' = deciding /\ riskSlots' = riskSlots /\ history' = history /\ receipts' = receipts
      /\ publications' = publications /\ archive' = archive /\ restarts' = restarts
  BY DEF RegisterConfiguration, runner, log
<1>2. (Initialized <=> Initialized') /\ CurrentRevision' = CurrentRevision
  BY <1>1 DEF Initialized, CurrentRevision
<1>3. Books'
  <2>1. RegistryOK'
    BY <1>1 DEF IndInv, Books, RegistryOK, PolicyTyped
  <2>2. CheckpointsOK'
    BY <1>1, <1>2 DEF IndInv, Books, CheckpointsOK
  <2>3. HistoryOK'
    BY <1>1, <1>2 DEF IndInv, Books, HistoryOK
  <2>4. CapitalAccounted'
    BY <1>1, <1>2 DEF IndInv, Books, CapitalAccounted
  <2>5. ApprovedWithinLimits'
    BY <1>1, ApprovalsStay DEF IndInv, Books
  <2> QED BY <2>1, <2>2, <2>3, <2>4, <2>5 DEF Books
<1>4. \A d \in Deciders : decision[d].pc \notin Before
  BY <1>1 DEF IndInv, CallsInv, CallFine
<1>5. CallsInv'
  BY <1>1, <1>4 DEF IndInv, CallsInv, CallFine
<1> QED BY <1>3, <1>5 DEF IndInv

LEMMA RegisterPolicyStep ==
  ASSUME IndInv, NEW rules \in RiskPolicies, RegisterPolicy(rules)
  PROVE  IndInv'
<1>1. /\ policy = <<>> /\ ValidateProductionPolicy(rules) /\ policy' = rules
      /\ configuration' = configuration /\ checkpoints' = checkpoints /\ decision' = decision
      /\ deciding' = deciding /\ riskSlots' = riskSlots /\ history' = history /\ receipts' = receipts
      /\ publications' = publications /\ archive' = archive /\ restarts' = restarts
  BY DEF RegisterPolicy, runner, log
<1>2. (Initialized <=> Initialized') /\ CurrentRevision' = CurrentRevision /\ history = {}
  BY <1>1 DEF Initialized, CurrentRevision, IndInv, Books, HistoryOK
<1>3. Books'
  <2>1. RegistryOK'
    BY <1>1 DEF IndInv, Books, RegistryOK, PolicyTyped
  <2>2. CheckpointsOK'
    BY <1>1, <1>2 DEF IndInv, Books, CheckpointsOK
  <2>3. HistoryOK'
    BY <1>1, <1>2 DEF IndInv, Books, HistoryOK
  <2>4. CapitalAccounted'
    BY <1>1, <1>2 DEF IndInv, Books, CapitalAccounted
  <2>5. ApprovedWithinLimits'
    BY <1>1, <1>2 DEF ApprovedWithinLimits
  <2> QED BY <2>1, <2>2, <2>3, <2>4, <2>5 DEF Books
<1>4. \A d \in Deciders : decision[d].pc \notin Before
  BY <1>1 DEF IndInv, CallsInv, CallFine
<1>5. CallsInv'
  BY <1>1, <1>4 DEF IndInv, CallsInv, CallFine
<1> QED BY <1>3, <1>5 DEF IndInv

LEMMA InitializePortfolioStep ==
  ASSUME IndInv, NEW s \in Genesis, InitializePortfolio(s)
  PROVE  IndInv'
<1>1. /\ ~Initialized /\ NewPortfolioSnapshot(s) /\ s.revision = 1 /\ checkpoints' = <<s>>
      /\ configuration' = configuration /\ policy' = policy /\ decision' = decision
      /\ deciding' = deciding /\ riskSlots' = riskSlots /\ history' = history /\ receipts' = receipts
      /\ publications' = publications /\ archive' = archive \cup {s} /\ restarts' = restarts
  BY DEF InitializePortfolio, runner, log
<1>2. DOMAIN checkpoints = {} /\ DOMAIN checkpoints' = {1} /\ checkpoints'[1] = s
  <2>1. DOMAIN <<s>> = {1} /\ <<s>>[1] = s
    OBVIOUS
  <2>2. DOMAIN checkpoints = {}
    BY <1>1 DEF Initialized
  <2> QED BY <1>1, <2>1, <2>2
<1>3. Initialized' /\ CurrentRevision' = 1
  <2>1. Max({1}) = 1
    BY HighestIsMax
  <2> QED BY <1>2, <2>1 DEF Initialized, CurrentRevision
<1>4. publications = {} /\ receipts = 0
  BY <1>1 DEF IndInv, Books, HistoryOK
<1>5. SnapshotSound(s)
  BY <1>1, RiskAssumption DEF SnapshotSound, SnapshotTyped
<1>6. Books'
  <2>1. RegistryOK'
    BY <1>1 DEF IndInv, Books, RegistryOK, PolicyTyped
  <2>2. CheckpointsOK'
    BY <1>1, <1>2, <1>3, <1>5 DEF CheckpointsOK, IndInv, Books
  <2>3. HistoryOK'
    BY <1>1, <1>3, <1>4, FS_EmptySet DEF HistoryOK, IndInv, Books
  <2>4. CapitalAccounted'
    <3> DEFINE g == [x \in {} |-> x.capital]
    <3>1. g \in [{} -> Int]
      OBVIOUS
    <3> HIDE DEF g
    <3>2. SumFunction(g) = 0
      BY <3>1, FS_EmptySet, SumType
    <3>3. s.capital.reserved \in Int
      BY <1>5 DEF SnapshotSound, SnapshotTyped, Capitals
    <3>4. [x \in publications' |-> x.capital] = g
      BY <1>1, <1>4 DEF g
    <3>5. receipts' = CurrentRevision' - 1 /\ Cardinality(publications') = receipts'
      BY <1>1, <1>3, <1>4, FS_EmptySet
    <3>6. checkpoints'[CurrentRevision'] = s /\ 1 \in DOMAIN checkpoints' /\ checkpoints'[1] = s
      BY <1>2, <1>3
    <3>7. \A r \in DOMAIN checkpoints' : 1 <= r
      BY <1>2
    <3> QED BY <3>2, <3>3, <3>4, <3>5, <3>6, <3>7 DEF CapitalAccounted
  <2>5. ApprovedWithinLimits'
    BY <1>1, ApprovalsStay DEF IndInv, Books
  <2> QED BY <2>1, <2>2, <2>3, <2>4, <2>5 DEF Books
<1>7. \A d \in Deciders : decision[d].pc \notin Before
  BY <1>2 DEF IndInv, CallsInv, CallFine
<1>8. CallsInv'
  BY <1>1, <1>7 DEF IndInv, CallsInv, CallFine
<1> QED BY <1>6, <1>8 DEF IndInv

LEMMA RestorePortfolioCheckpointStep ==
  ASSUME IndInv, NEW s \in archive, RestorePortfolioCheckpoint(s)
  PROVE  IndInv'
<1> DEFINE n == s.revision
<1>1. /\ decision' = [d \in Deciders |-> NoRequest] /\ deciding' = Nobody /\ riskSlots' = {}
      /\ checkpoints' = [r \in {n} |-> s] /\ publications' = {} /\ receipts' = 0
      /\ configuration' = configuration /\ policy' = policy
      /\ history' = history /\ archive' = archive /\ restarts' = restarts + 1
  BY DEF RestorePortfolioCheckpoint
<1>2. SnapshotSound(s) /\ n \in Nat /\ s.capital.reserved \in Int
  BY DEF IndInv, Books, CheckpointsOK, SnapshotSound, SnapshotTyped, Capitals
<1>3. s.revision = n
  OBVIOUS
<1> HIDE DEF n
<1>4. DOMAIN checkpoints' = {n} /\ checkpoints'[n] = s
  BY <1>1
<1>5. Initialized' /\ CurrentRevision' = n
  <2>1. Max({n}) = n
    BY <1>2, HighestIsMax
  <2> QED BY <1>4, <2>1 DEF Initialized, CurrentRevision
<1>6. Books'
  <2>1. RegistryOK'
    BY <1>1 DEF IndInv, Books, RegistryOK, PolicyTyped
  <2>2. CheckpointsOK'
    BY <1>1, <1>2, <1>3, <1>4 DEF IndInv, Books, CheckpointsOK
  <2>3. HistoryOK'
    BY <1>1, <1>5, FS_EmptySet DEF IndInv, Books, HistoryOK
  <2>4. CapitalAccounted'
    <3> DEFINE g == [x \in {} |-> x.capital]
    <3>1. g \in [{} -> Int]
      OBVIOUS
    <3> HIDE DEF g
    <3>2. SumFunction(g) = 0
      BY <3>1, FS_EmptySet, SumType
    <3>3. [x \in publications' |-> x.capital] = g
      BY <1>1 DEF g
    <3>4. receipts' = CurrentRevision' - n /\ Cardinality(publications') = receipts'
      BY <1>1, <1>2, <1>5, FS_EmptySet
    <3>5. n \in DOMAIN checkpoints' /\ (\A r \in DOMAIN checkpoints' : n <= r)
      BY <1>2, <1>4
    <3> QED BY <1>2, <1>4, <1>5, <3>2, <3>3, <3>4, <3>5 DEF CapitalAccounted
  <2>5. ApprovedWithinLimits'
    BY <1>1, ApprovalsStay DEF IndInv, Books
  <2> QED BY <2>1, <2>2, <2>3, <2>4, <2>5 DEF Books
<1>7. CallsInv'
  BY <1>1, Requestless, RiskAssumption DEF CallsInv, CallFine, Before, Holding
<1> QED BY <1>6, <1>7 DEF IndInv

-----------------------------------------------------------------------------
(* A publication. *)

\* The store after a publication: one more checkpoint, and it is the highest.
LEMMA PublishedCheckpoint ==
  ASSUME IndInv, NEW d \in Deciders, PublishPortfolioDecision(d)
  PROVE  LET r == decision[d].revision IN
         /\ Initialized /\ r = CurrentRevision /\ r \in DOMAIN checkpoints /\ r \in Nat
         /\ \A x \in DOMAIN checkpoints : x # r + 1 /\ checkpoints'[x] = checkpoints[x]
         /\ DOMAIN checkpoints' = DOMAIN checkpoints \cup {r + 1}
         /\ checkpoints'[r + 1] = NextCheckpoint(d)
         /\ Initialized' /\ CurrentRevision' = r + 1
         /\ \A x \in DOMAIN checkpoints' : x <= r + 1
<1> DEFINE r == decision[d].revision
           next == NextCheckpoint(d)
<1>1. r = CurrentRevision /\ r \in DOMAIN checkpoints
  BY DEF PublishPortfolioDecision, Publishable, IsCurrent, IndInv, CallsInv, CallFine, Before
<1>2. Initialized
  BY <1>1 DEF Initialized
<1>3. r \in Nat /\ \A x \in DOMAIN checkpoints : x \in Nat /\ x <= r
  BY <1>1, <1>2, CurrentIsHighest DEF IndInv, Books, CheckpointsOK
<1>4. checkpoints' = [x \in DOMAIN checkpoints \cup {r + 1} |-> IF x = r + 1 THEN next ELSE checkpoints[x]]
  BY DEF PublishPortfolioDecision
<1> HIDE DEF next, r
<1>5. \A x \in DOMAIN checkpoints : x # r + 1
  BY <1>3
<1>6. /\ DOMAIN checkpoints' = DOMAIN checkpoints \cup {r + 1} /\ checkpoints'[r + 1] = next
      /\ \A x \in DOMAIN checkpoints : checkpoints'[x] = checkpoints[x]
  BY <1>4, <1>5
<1>7. \A x \in DOMAIN checkpoints' : x \in Nat /\ x <= r + 1
  BY <1>3, <1>6
<1>8. Max(DOMAIN checkpoints') = r + 1
  <2>1. r + 1 \in DOMAIN checkpoints' /\ DOMAIN checkpoints' \subseteq Nat
    BY <1>6, <1>7
  <2>2. \A x \in DOMAIN checkpoints' : r + 1 >= x
    BY <1>3, <1>7
  <2> QED BY <2>1, <2>2, HighestIsMax
<1>9. Initialized' /\ CurrentRevision' = r + 1
  BY <1>6, <1>8 DEF Initialized, CurrentRevision
<1> QED BY <1>1, <1>2, <1>3, <1>5, <1>6, <1>7, <1>9 DEF r, next

\* What is published: a sound snapshot with the capital moved, and a decision within the limits.
LEMMA PublishedDecision ==
  ASSUME IndInv, NEW d \in Deciders, PublishPortfolioDecision(d)
  PROVE  LET r == decision[d].revision
             new == NextCheckpoint(d)
             x == Publication(d) IN
         /\ SnapshotTyped(new) /\ NewPortfolioSnapshot(new) /\ new.revision = r + 1
         /\ new.capital.total = checkpoints[r].capital.total
         /\ new.capital.reserved = checkpoints[r].capital.reserved + x.capital
         /\ x.capital \in Int /\ x.revision = r + 1
         /\ x.snapshot = checkpoints[r] /\ x.proposal = decision[d].proposal
         /\ IF x.outcome \in {"APPROVED", "MODIFIED"}
            THEN KeepsLimits(checkpoints[r], x.proposal, x.capital, x.outcome = "MODIFIED")
            ELSE x.capital = 0
<1> DEFINE r == decision[d].revision
           c == decision[d]
           s == checkpoints[r]
           new == NextCheckpoint(d)
           x == Publication(d)
<1>1. c.pc = "publish" /\ CallFine(c) /\ r \in DOMAIN checkpoints
  BY DEF PublishPortfolioDecision, IndInv, CallsInv, CallFine, Before
<1>2. /\ c.outcome \in FoldState
      /\ Approves(c.outcome) => KeepsLimits(s, c.proposal, c.outcome.capital, c.outcome.outcome = "MODIFIED")
      /\ CandidateTyped(Candidate(d)) /\ Projects(s, c.proposal, Candidate(d))
  BY <1>1, JudgedDecision DEF IndInv, Books, Candidate, Snapshot
<1>3. DecisionTyped(c.outcome)
  BY <1>2 DEF FoldState
<1>4. SnapshotTyped(s)
  BY <1>1 DEF IndInv, Books, CheckpointsOK, SnapshotSound
<1>5. NewPortfolioSnapshot(new) /\ new.revision = r + 1
  BY DEF PublishPortfolioDecision, Publishable, ValidPublication
<1>6. /\ SnapshotTyped(new) /\ new.capital.total = s.capital.total
      /\ new.capital.reserved = s.capital.reserved + c.outcome.capital
  BY <1>2, <1>3, <1>4, NextSnapshotFacts DEF NextCheckpoint, Snapshot
<1>7. /\ x.capital = c.outcome.capital /\ x.revision = r + 1 /\ x.snapshot = s
      /\ x.proposal = c.proposal /\ x.outcome = c.outcome.outcome
  BY DEF Publication, Snapshot
<1> HIDE DEF new, x, s, c
<1>8. /\ c.outcome.capital \in Int
      /\ ~Approves(c.outcome) => c.outcome.capital = 0
  BY <1>3 DEF DecisionTyped
<1> QED BY <1>2, <1>5, <1>6, <1>7, <1>8 DEF Approves, new, x, s, c

LEMMA PublishedHistory ==
  ASSUME IndInv, NEW d \in Deciders, PublishPortfolioDecision(d)
  PROVE  HistoryOK' /\ CapitalAccounted' /\ ApprovedWithinLimits'
<1> DEFINE r == decision[d].revision
           s == checkpoints[r]
           new == NextCheckpoint(d)
           x == Publication(d)
<1>1. /\ publications' = publications \cup {x} /\ history' = history \cup {x}
      /\ receipts' = receipts + 1 /\ restarts' = restarts /\ policy' = policy /\ policy # <<>>
  BY DEF PublishPortfolioDecision, IndInv, CallsInv, CallFine, Before
<1>2. /\ Initialized /\ r = CurrentRevision /\ r \in Nat
      /\ checkpoints'[r + 1] = new /\ Initialized' /\ CurrentRevision' = r + 1
      /\ DOMAIN checkpoints' = DOMAIN checkpoints \cup {r + 1}
      /\ \A y \in DOMAIN checkpoints : checkpoints'[y] = checkpoints[y]
  BY PublishedCheckpoint
<1>3. /\ new.capital.total = s.capital.total /\ new.capital.reserved = s.capital.reserved + x.capital
      /\ x.capital \in Int /\ x.revision = r + 1 /\ x.snapshot = s
      /\ IF x.outcome \in {"APPROVED", "MODIFIED"}
         THEN KeepsLimits(s, x.proposal, x.capital, x.outcome = "MODIFIED") ELSE x.capital = 0
  BY PublishedDecision
<1>4. /\ IsFiniteSet(publications) /\ restarts \in Nat
      /\ \A y \in publications : y.capital \in Int /\ y.revision \in Nat /\ y.revision <= r
  BY <1>2 DEF IndInv, Books, HistoryOK
<1> HIDE DEF new, x, s, r
<1>5. x \notin publications
  BY <1>2, <1>3, <1>4
<1>6. IsFiniteSet(publications') /\ Cardinality(publications') = Cardinality(publications) + 1
  BY <1>1, <1>4, <1>5, FS_AddElement
<1>7. HistoryOK'
  <2>1. \A y \in publications' : y.capital \in Int /\ y.revision \in Nat /\ y.revision <= r + 1
    BY <1>1, <1>2, <1>3, <1>4
  <2> QED BY <1>1, <1>2, <1>4, <1>6, <2>1 DEF HistoryOK
<1>8. CapitalAccounted'
  <2> DEFINE g == [y \in publications |-> y.capital]
             h == [y \in publications' |-> y.capital]
  <2>1. /\ g \in [publications -> Int] /\ h \in [publications \cup {x} -> Int]
        /\ h[x] = x.capital /\ \A y \in publications : h[y] = g[y]
    BY <1>1, <1>3, <1>4
  <2> HIDE DEF g, h
  <2>2. SumFunction(h) = SumFunction(g) + x.capital
    <3>1. Adds(publications, x, g, h)
      BY <2>1 DEF Adds
    <3>2. SumFunction(h) = SumFunction(g) + h[x]
      BY <1>4, <1>5, <3>1, SumAdds
    <3> QED BY <2>1, <3>2
  <2>3. PICK first \in DOMAIN checkpoints :
           /\ \A y \in DOMAIN checkpoints : first <= y
           /\ receipts = r - first /\ Cardinality(publications) = receipts
           /\ s.capital.reserved = checkpoints[first].capital.reserved + SumFunction(g)
           /\ s.capital.total = checkpoints[first].capital.total
    BY <1>2 DEF IndInv, Books, CapitalAccounted, g, s
  <2>4. first \in Nat /\ r \in DOMAIN checkpoints
    BY <1>2, CurrentIsHighest DEF IndInv, Books, CheckpointsOK
  <2>5. SumFunction(g) \in Int /\ checkpoints[first].capital.reserved \in Int
    BY <1>4, <2>1, SumType DEF IndInv, Books, CheckpointsOK, SnapshotSound, SnapshotTyped, Capitals
  <2>6. new.capital.reserved = checkpoints[first].capital.reserved + SumFunction(h)
    BY <1>3, <2>2, <2>3, <2>5
  <2>7. receipts' = CurrentRevision' - first /\ Cardinality(publications') = receipts'
    BY <1>1, <1>2, <1>6, <2>3, <2>4
  <2>8. /\ checkpoints'[CurrentRevision'] = new
        /\ first \in DOMAIN checkpoints' /\ checkpoints'[first] = checkpoints[first]
    BY <1>2
  <2>9. \A y \in DOMAIN checkpoints' : first <= y
    BY <1>2, <2>3, <2>4
  <2>10. new.capital.total = checkpoints[first].capital.total
    BY <1>3, <2>3
  <2> QED BY <2>6, <2>7, <2>8, <2>9, <2>10 DEF CapitalAccounted, h
<1>9. ApprovedWithinLimits'
  <2>1. \A y \in history : y.outcome \in {"APPROVED", "MODIFIED"}
                            => KeepsLimits(y.snapshot, y.proposal, y.capital, y.outcome = "MODIFIED")
    BY DEF IndInv, Books, ApprovedWithinLimits, KeepsLimits, KeepsAllocation
  <2>2. \A y \in history' : y.outcome \in {"APPROVED", "MODIFIED"}
                            => KeepsLimits(y.snapshot, y.proposal, y.capital, y.outcome = "MODIFIED")
    BY <1>1, <1>3, <2>1
  <2>3. \A id : RuleOf(id)' = RuleOf(id)
    BY <1>1 DEF RuleOf
  <2>4. ASSUME NEW a, NEW b, NEW c, NEW modified, KeepsLimits(a, b, c, modified)
        PROVE  KeepsLimits(a, b, c, modified)'
    <3>1. WithinLossLimits(a)' /\ KeepsAllocation(a, c)'
      BY <2>3, <2>4 DEF KeepsLimits, WithinLossLimits, KeepsAllocation
    <3>2. WithinExposure(a, b, c, modified)'
      BY <2>3, <2>4 DEF KeepsLimits, WithinExposure
    <3> QED BY <2>3, <2>4, <3>1, <3>2 DEF KeepsLimits
  <2>5. \A y \in history' : y.outcome \in {"APPROVED", "MODIFIED"}
                            => KeepsLimits(y.snapshot, y.proposal, y.capital, y.outcome = "MODIFIED")'
    BY <2>2, <2>4
  <2> QED BY <2>5 DEF ApprovedWithinLimits, KeepsLimits, KeepsAllocation
<1> QED BY <1>7, <1>8, <1>9

LEMMA PublishStep ==
  ASSUME IndInv, NEW d \in Deciders, PublishPortfolioDecision(d)
  PROVE  IndInv'
<1> DEFINE r == decision[d].revision
<1>1. /\ decision[d].pc = "publish" /\ Unwind(d)
      /\ configuration' = configuration /\ policy' = policy /\ deciding' = deciding /\ riskSlots' = riskSlots
  BY DEF PublishPortfolioDecision, runner
<1>2. /\ r \in DOMAIN checkpoints /\ r \in Nat
      /\ \A x \in DOMAIN checkpoints : x # r + 1 /\ checkpoints'[x] = checkpoints[x]
      /\ DOMAIN checkpoints' = DOMAIN checkpoints \cup {r + 1}
      /\ checkpoints'[r + 1] = NextCheckpoint(d) /\ Initialized' /\ CurrentRevision' = r + 1
      /\ \A x \in DOMAIN checkpoints' : x <= r + 1
  BY PublishedCheckpoint
<1>3. /\ SnapshotTyped(NextCheckpoint(d)) /\ NewPortfolioSnapshot(NextCheckpoint(d))
      /\ NextCheckpoint(d).revision = r + 1
  BY PublishedDecision
<1> HIDE DEF r
<1>4. Books'
  <2>1. RegistryOK'
    BY <1>1 DEF IndInv, Books, RegistryOK, PolicyTyped
  <2>2. CheckpointsOK'
    <3>1. DOMAIN checkpoints \subseteq Nat /\ r + 1 \in Nat
      BY <1>2 DEF IndInv, Books, CheckpointsOK
    <3>2. DOMAIN checkpoints' \subseteq Nat
      BY <1>2, <3>1
    <3>3. \E m \in DOMAIN checkpoints' : \A x \in DOMAIN checkpoints' : m >= x
      <4>1. r + 1 \in DOMAIN checkpoints'
        BY <1>2
      <4>2. \A x \in DOMAIN checkpoints' : r + 1 >= x
        BY <1>2, <3>2
      <4> QED BY <4>1, <4>2
    <3>4. ASSUME NEW x \in DOMAIN checkpoints'
          PROVE  SnapshotSound(checkpoints'[x]) /\ checkpoints'[x].revision = x
      <4>1. CASE x = r + 1
        BY <1>2, <1>3, <3>1, <4>1 DEF SnapshotSound
      <4>2. CASE x \in DOMAIN checkpoints
        BY <1>2, <4>2 DEF IndInv, Books, CheckpointsOK
      <4> QED BY <1>2, <4>1, <4>2
    <3>5. \A x \in archive' : SnapshotSound(x)
      <4>1. archive' = archive \cup {NextCheckpoint(d)} /\ SnapshotSound(NextCheckpoint(d))
        BY <1>3, <3>1 DEF PublishPortfolioDecision, SnapshotSound
      <4> QED BY <4>1 DEF IndInv, Books, CheckpointsOK
    <3> QED BY <3>2, <3>3, <3>4, <3>5 DEF CheckpointsOK
  <2> QED BY <2>1, <2>2, PublishedHistory DEF Books
<1>5. CallsInv'
  <2> DEFINE new == [NoRequest EXCEPT !.pc = "leave"]
  <2>1. new \in Calls /\ new.pc = "leave" /\ decision' = [decision EXCEPT ![d] = new]
    BY <1>1, Requestless DEF Unwind
  <2> HIDE DEF new
  <2>2. decision \in [Deciders -> Calls]
    BY DEF IndInv, CallsInv
  <2>3. decision' \in [Deciders -> Calls]
    BY <2>1, <2>2
  <2>4. decision'[d] = new /\ \A e \in Deciders : e # d => decision'[e] = decision[e]
    BY <2>1, <2>2
  <2>5. ASSUME NEW e \in Deciders PROVE CallFine(decision[e])'
    <3>1. CASE e = d
      BY <2>1, <2>4, <3>1 DEF CallFine, Before
    <3>2. CASE e # d
      <4>1. CallFine(decision[e])
        BY DEF IndInv, CallsInv
      <4>2. decision'[e] = decision[e]
        BY <2>4, <3>2
      <4>3. decision[e].pc \in Before => checkpoints'[decision[e].revision] = checkpoints[decision[e].revision]
        BY <1>2, <4>1 DEF CallFine
      <4> QED BY <1>1, <1>2, <4>1, <4>2, <4>3 DEF CallFine, Judged, Before
    <3> QED BY <3>1, <3>2
  <2>6. ASSUME NEW e \in Deciders PROVE decision'[e].pc \in Holding <=> deciding' = e
    <3>1. decision[e].pc \in Holding <=> deciding = e
      BY DEF IndInv, CallsInv
    <3>2. CASE e = d
      BY <1>1, <2>1, <2>4, <3>1, <3>2 DEF Holding
    <3>3. CASE e # d
      BY <1>1, <2>4, <3>1, <3>3
    <3> QED BY <3>2, <3>3
  <2>7. deciding' \in Deciders \cup {Nobody} /\ riskSlots' \subseteq Deciders
    BY <1>1 DEF IndInv, CallsInv
  <2> QED BY <2>3, <2>5, <2>6, <2>7 DEF CallsInv
<1> QED BY <1>4, <1>5 DEF IndInv

-----------------------------------------------------------------------------
LEMMA StepKeepsIndInv == IndInv /\ [RiskNext]_riskVars => IndInv'
<1> SUFFICES ASSUME IndInv, [RiskNext]_riskVars PROVE IndInv'
  OBVIOUS
<1>1. CASE \E c \in Configurations : RegisterConfiguration(c)
  BY <1>1, RegisterConfigurationStep
<1>2. CASE \E rules \in RiskPolicies : RegisterPolicy(rules)
  BY <1>2, RegisterPolicyStep
<1>3. CASE \E s \in Genesis : InitializePortfolio(s)
  BY <1>3, InitializePortfolioStep
<1>4. CASE \E s \in archive : RestorePortfolioCheckpoint(s)
  BY <1>4, RestorePortfolioCheckpointStep
<1>5. CASE \E d \in Deciders, p \in RiskProposals, r \in DOMAIN checkpoints, t \in Times : EvaluateProposal(d, p, r, t)
  BY <1>5, EvaluateProposalStep
<1>6. ASSUME NEW d \in Deciders, DecisionStep(d) PROVE IndInv'
  BY <1>6, LookupStep, ReserveRefusedStep, reserveStep, TakeSlotStep, GivingUpStep, EvaluateStep,
     PublishStep, releaseStep DEF DecisionStep
<1>7. CASE RiskShutdown \/ ShutdownDone \/ UNCHANGED riskVars
  <2>1. UNCHANGED <<configuration, policy, checkpoints, publications, archive, history, receipts, restarts,
                    decision, deciding, riskSlots>>
    BY <1>7 DEF RiskShutdown, ShutdownDone, riskVars, repository, log
  <2>2. Books'
    BY <2>1, BooksUnchanged DEF IndInv
  <2>3. CallsInv'
    BY <2>1 DEF IndInv, CallsInv, CallFine, Judged
  <2> QED BY <2>2, <2>3 DEF IndInv
<1> QED BY <1>1, <1>2, <1>3, <1>4, <1>5, <1>6, <1>7 DEF RiskNext

\* Since the checkpoint the store began with, whichever it was, capital is accounted for;
\* approvals keep every limit of the policy; who holds the portfolio is never in doubt.
THEOREM DecisionsKeepLimits == RiskSpec => []RiskInv
<1>1. RiskSpec => []IndInv
  BY InitialIndInv, StepKeepsIndInv, PTL DEF RiskSpec
<1> QED BY <1>1, IndInvImplies, PTL

-----------------------------------------------------------------------------
(* The controls. *)

\* A step that leaves the current snapshot alone.
LEMMA SnapshotStays ==
  ASSUME IndInv, Initialized => checkpoints'[CurrentRevision'] = checkpoints[CurrentRevision]
  PROVE  LatchStep
BY DEF LatchStep

\* A publication is made on the current snapshot: it adds to the controls only, and under
\* a global kill switch no decision approves.
LEMMA PublishLatches ==
  ASSUME IndInv, NEW d \in Deciders, PublishPortfolioDecision(d)
  PROVE  LatchStep
<1> DEFINE r == decision[d].revision
           old == checkpoints[r]
           new == NextCheckpoint(d)
           x == Publication(d)
<1>1. r = CurrentRevision /\ checkpoints'[CurrentRevision'] = new
  BY PublishedCheckpoint
<1>2. /\ \A scope \in DOMAIN old.kill : Latched(old.kill[scope]) => Latched(new.kill[scope])
      /\ \A scope \in DOMAIN old.circuit : old.circuit[scope] = "OPEN" => new.circuit[scope] = "OPEN"
  BY ControlsStay DEF NextCheckpoint, Snapshot
<1>3. /\ new.capital.reserved = old.capital.reserved + x.capital
      /\ IF x.outcome \in {"APPROVED", "MODIFIED"}
         THEN KeepsLimits(old, x.proposal, x.capital, x.outcome = "MODIFIED") ELSE x.capital = 0
  BY PublishedDecision
<1>4. old.capital.reserved \in Int
  BY PublishedCheckpoint DEF IndInv, Books, CheckpointsOK, SnapshotSound, SnapshotTyped, Capitals
<1> HIDE DEF old, new, x, r
<1>5. ASSUME "GLOBAL" \in DOMAIN old.kill, Latched(old.kill["GLOBAL"])
      PROVE  new.capital.reserved = old.capital.reserved
  <2>1. ~KeepsLimits(old, x.proposal, x.capital, x.outcome = "MODIFIED")
    BY <1>5 DEF KeepsLimits, Applicable, ControlApplies, KillSwitchBlocks, Latched
  <2> QED BY <1>3, <1>4, <2>1
<1> QED BY <1>1, <1>2, <1>5 DEF LatchStep, old

LEMMA StepsLatch == IndInv /\ [RiskNext]_riskVars => LatchStep
<1> SUFFICES ASSUME IndInv, [RiskNext]_riskVars PROVE LatchStep
  OBVIOUS
<1>1. CASE \E d \in Deciders : PublishPortfolioDecision(d)
  BY <1>1, PublishLatches
<1>2. CASE checkpoints' = checkpoints
  BY <1>2, SnapshotStays DEF CurrentRevision
<1>3. CASE \E s \in Genesis : InitializePortfolio(s)
  BY <1>3 DEF InitializePortfolio, LatchStep
<1>4. CASE \E s \in archive : RestorePortfolioCheckpoint(s)
  <2>1. restarts' = restarts + 1 /\ restarts \in Nat
    BY <1>4 DEF RestorePortfolioCheckpoint, IndInv, Books, HistoryOK
  <2> QED BY <2>1 DEF LatchStep
<1>5. ASSUME NEW d \in Deciders, DecisionStep(d), ~PublishPortfolioDecision(d) PROVE checkpoints' = checkpoints
  BY <1>5 DEF DecisionStep, Lookup, ReserveRefused, reserve, TakeSlot, AbandonSlot, EvaluateCandidate,
              EvaluateFails, PublicationRefused, release, repository
<1>6. ASSUME NEW d \in Deciders, NEW p, NEW r, NEW t, EvaluateProposal(d, p, r, t) PROVE checkpoints' = checkpoints
  BY <1>6 DEF EvaluateProposal, repository
<1>7. ASSUME \/ \E c \in Configurations : RegisterConfiguration(c)
             \/ \E rules \in RiskPolicies : RegisterPolicy(rules)
             \/ RiskShutdown \/ ShutdownDone \/ UNCHANGED riskVars
      PROVE  checkpoints' = checkpoints
  BY <1>7 DEF RegisterConfiguration, RegisterPolicy, RiskShutdown, ShutdownDone, riskVars, repository
<1> QED BY <1>1, <1>2, <1>3, <1>4, <1>5, <1>6, <1>7 DEF RiskNext

\* As long as a process runs its decisions only ever add to the controls, and while a
\* global kill switch blocks no capital is reserved.
THEOREM ControlsStayLatched == RiskSpec => ControlsLatch
<1>1. RiskSpec => []IndInv
  BY InitialIndInv, StepKeepsIndInv, PTL DEF RiskSpec
<1> QED BY <1>1, StepsLatch, PTL DEF RiskSpec, ControlsLatch

-----------------------------------------------------------------------------
(* The strategy runner. *)

InEvaluation == {"lookup", "reserve", "slot", "load", "invoke", "publish"}
Inside == {"slot", "load", "invoke", "publish", "leave"}

\* A call is a record of exactly these fields.
IsCall(x) ==
  x = [pc |-> x.pc, frame |-> x.frame, generation |-> x.generation, evaluates |-> x.evaluates,
       base |-> x.base, kind |-> x.kind, ctx |-> x.ctx]

\* What a call read of the instance is true of the revision it names, and a call that passed
\* the lookup has an instance that evaluates.
EvaluationFine(x) ==
  /\ IsCall(x)
  /\ x.pc \in {"idle", "leave"} \cup InEvaluation
  /\ x.pc \in InEvaluation =>
       /\ x.generation \in 1..instance.generation
       /\ x.generation = instance.generation => (x.evaluates <=> Evaluates(instance.lifecycle))
  /\ x.pc \in InEvaluation \ {"lookup"} => x.evaluates

EvaluationsInv ==
  /\ call = [c \in Callers |-> call[c]]
  /\ \A c \in Callers : EvaluationFine(call[c])

ChainInv ==
  /\ instance \in [generation : 0..MaxGeneration, lifecycle : LifecycleStates]
  /\ \E S : chain \in Seq(S)
  /\ chain = <<>> => evaluations = {}
  /\ IsFiniteSet(evaluations)
  /\ Len(chain) <= MaxEvaluations + 1
  /\ EvaluatedOnce /\ ReceiptsMatchStore

\* Only a call between reserve and release is in the semaphore, so it holds at most one; a
\* shutdown that has returned left no reservation.
ReservationInv ==
  /\ running \in Callers \cup {NoCall} /\ semaphore \subseteq Callers
  /\ SlotsAccounted
  /\ Cardinality(semaphore) <= MaxConcurrency
  /\ stopped => closed /\ running = NoCall

RunnerInv == EvaluationsInv /\ ChainInv /\ ReservationInv

LEMMA RunnerInvImplies == RunnerInv => StrategyInv
BY DEF RunnerInv, ChainInv, ReservationInv, StrategyInv, StrategyTypeOK

LEMMA StrategyInitial == StrategyInit => RunnerInv
<1> SUFFICES ASSUME StrategyInit PROVE RunnerInv
  OBVIOUS
<1> USE DEF StrategyInit
<1>1. EvaluationsInv
  BY DEF EvaluationsInv, EvaluationFine, IsCall, IdleCall, Blank, InEvaluation
<1>2. ChainInv
  <2>1. IsFiniteSet(evaluations) /\ Cardinality(evaluations) = 0
    BY FS_EmptySet
  <2>2. chain \in Seq({}) /\ Len(chain) = 0 /\ DOMAIN chain = {}
    OBVIOUS
  <2>3. EvaluatedOnce /\ ReceiptsMatchStore
    BY <2>1, <2>2 DEF EvaluatedOnce, ReceiptsMatchStore
  <2>4. instance \in [generation : 0..MaxGeneration, lifecycle : LifecycleStates]
    BY StrategyAssumption DEF LifecycleStates
  <2> QED BY <2>1, <2>2, <2>3, <2>4, StrategyAssumption DEF ChainInv
<1>3. ReservationInv
  <2>1. Cardinality(semaphore) = 0
    BY FS_EmptySet
  <2>2. SlotsAccounted
    BY StrategyAssumption DEF SlotsAccounted, IdleCall, Blank
  <2> QED BY <2>1, <2>2, StrategyAssumption DEF ReservationInv
<1> QED BY <1>1, <1>2, <1>3 DEF RunnerInv

\* A step that leaves the instance, the chain and its records alone.
LEMMA ChainStays ==
  ASSUME ChainInv, UNCHANGED <<instance, chain, evaluations, committed>>
  PROVE  ChainInv'
BY DEF ChainInv, EvaluatedOnce, ReceiptsMatchStore, Restores, VerifyRestoration

\* One call changes, and is fine.
LEMMA OneEvaluation ==
  ASSUME EvaluationsInv, NEW c \in Callers, NEW x, call' = [call EXCEPT ![c] = x],
         EvaluationFine(x), UNCHANGED instance
  PROVE  /\ EvaluationsInv' /\ call'[c] = x
         /\ \A d \in Callers \ {c} : call'[d] = call[d]
BY DEF EvaluationsInv, EvaluationFine, IsCall

LEMMA StepIs ==
  ASSUME EvaluationsInv, NEW c \in Callers, NEW pc
  PROVE  [call EXCEPT ![c].pc = pc] =
           [call EXCEPT ![c] = CallAt(c, pc, call[c].base, call[c].kind)]
<1>1. IsCall(call[c])
  BY DEF EvaluationsInv, EvaluationFine
<1>2. [call[c] EXCEPT !.pc = pc] = CallAt(c, pc, call[c].base, call[c].kind)
  BY <1>1 DEF IsCall, CallAt
<1> QED BY <1>2

LEMMA ContextIs ==
  ASSUME EvaluationsInv, NEW c \in Callers
  PROVE  [call EXCEPT ![c].ctx = "ended"] =
           [call EXCEPT ![c] =
              [pc |-> call[c].pc, frame |-> call[c].frame, generation |-> call[c].generation,
               evaluates |-> call[c].evaluates, base |-> call[c].base, kind |-> call[c].kind,
               ctx |-> "ended"]]
<1>1. IsCall(call[c])
  BY DEF EvaluationsInv, EvaluationFine
<1>2. [call[c] EXCEPT !.ctx = "ended"] =
              [pc |-> call[c].pc, frame |-> call[c].frame, generation |-> call[c].generation,
               evaluates |-> call[c].evaluates, base |-> call[c].base, kind |-> call[c].kind,
               ctx |-> "ended"]
  BY <1>1 DEF IsCall
<1> QED BY <1>2

\* A call in progress that moves on and keeps what it read.
LEMMA MovedIsFine ==
  ASSUME EvaluationsInv, NEW c \in Callers, call[c].pc \in InEvaluation, call[c].evaluates,
         NEW pc \in InEvaluation, NEW base, NEW kind
  PROVE  EvaluationFine(CallAt(c, pc, base, kind))
BY DEF EvaluationsInv, EvaluationFine, IsCall, CallAt, InEvaluation

LEMMA BlankIsFine ==
  ASSUME NEW pc \in {"idle", "leave"}
  PROVE  EvaluationFine(Blank(pc)) /\ Blank(pc).pc = pc
<1>1. IsCall(Blank(pc)) /\ Blank(pc).pc = pc
  BY DEF Blank, IsCall
<1>2. pc \notin InEvaluation
  BY DEF InEvaluation
<1> QED BY <1>1, <1>2 DEF EvaluationFine

\* What the reservations depend on: which calls are inside, and who is in the semaphore.
LEMMA ReservationStays ==
  ASSUME ReservationInv, NEW c \in Callers,
         \A d \in Callers \ {c} : call'[d] = call[d],
         call[c].pc \in Inside <=> call'[c].pc \in Inside,
         call'[c].pc = "slot" => call[c].pc \notin Inside \ {"slot"},
         UNCHANGED runnerVars
  PROVE  ReservationInv'
BY DEF ReservationInv, SlotsAccounted, runnerVars, Inside

LEMMA EvaluationsStay ==
  ASSUME EvaluationsInv, UNCHANGED <<instance, call>>
  PROVE  EvaluationsInv'
BY DEF EvaluationsInv, EvaluationFine, IsCall

\* The other writers of the repository that do not touch the instance or its chain.
LEMMA RepositoryStep ==
  ASSUME RunnerInv,
         \/ RegisterDefinition \/ RegisterVersion \/ Register \/ SetFailureInjector
         \/ CorruptCurrentCheckpointForTest \/ ReadinessChanges
  PROVE  RunnerInv'
<1>1. UNCHANGED <<instance, chain, evaluations, committed, call, runnerVars>>
  BY DEF RegisterDefinition, RegisterVersion, Register, SetFailureInjector,
         CorruptCurrentCheckpointForTest, ReadinessChanges, runnerVars, storeVars
<1>2. ReservationInv'
  BY <1>1 DEF RunnerInv, ReservationInv, SlotsAccounted, runnerVars
<1> QED BY <1>1, <1>2, ChainStays, EvaluationsStay DEF RunnerInv

\* A new revision: what the calls read of older ones stays what it is.
LEMMA PutInstanceStep ==
  ASSUME RunnerInv, NEW lifecycle \in Lifecycles, PutInstance(lifecycle)
  PROVE  RunnerInv'
<1> DEFINE g == instance.generation
<1>1. g \in Nat /\ g < MaxGeneration /\ MaxGeneration \in Nat
  BY StrategyAssumption DEF RunnerInv, ChainInv, PutInstance
<1>2. instance' = [generation |-> g + 1, lifecycle |-> lifecycle]
  BY DEF PutInstance
<1>3. UNCHANGED <<chain, evaluations, call, runnerVars>>
  BY DEF PutInstance
<1> HIDE DEF g
<1>4. instance'.generation = g + 1 /\ instance' \in [generation : 0..MaxGeneration, lifecycle : LifecycleStates]
  BY <1>1, <1>2, StrategyAssumption
<1>5. EvaluationsInv'
  <2>1. ASSUME NEW c \in Callers PROVE EvaluationFine(call[c])'
    <3>1. EvaluationFine(call[c]) /\ call'[c] = call[c]
      BY <1>3 DEF RunnerInv, EvaluationsInv
    <3>2. call[c].generation \in 1..g => call[c].generation \in 1..(g + 1) /\ call[c].generation # g + 1
      BY <1>1
    <3> QED BY <3>1, <3>2, <1>4 DEF EvaluationFine, IsCall, g
  <2> QED BY <1>3, <2>1 DEF RunnerInv, EvaluationsInv
<1>6. ChainInv'
  <2>1. \A k \in DOMAIN chain : Restores(k)'
    <3>1. SUFFICES ASSUME NEW k \in DOMAIN chain PROVE Restores(k)'
      OBVIOUS
    <3>2. Restores(k)
      BY DEF RunnerInv, ChainInv, EvaluatedOnce
    <3>3. chain[k].generation \in 1..g => chain[k].generation \in 1..(g + 1)
      BY <1>1
    <3> QED BY <3>2, <3>3, <1>3, <1>4 DEF Restores, VerifyRestoration, g
  <2>2. EvaluatedOnce'
    BY <1>3, <2>1 DEF RunnerInv, ChainInv, EvaluatedOnce
  <2> QED BY <1>3, <1>4, <2>2 DEF RunnerInv, ChainInv, ReceiptsMatchStore, runnerVars
<1>7. ReservationInv'
  BY <1>3 DEF RunnerInv, ReservationInv, SlotsAccounted, runnerVars
<1> QED BY <1>5, <1>6, <1>7 DEF RunnerInv

LEMMA InitializeCheckpointStep ==
  ASSUME RunnerInv, InitializeCheckpoint
  PROVE  RunnerInv'
<1>1. /\ instance.generation > 0 /\ chain = <<>> /\ evaluations = {}
      /\ chain' = <<GenesisCheckpoint(instance.generation)>>
      /\ UNCHANGED <<instance, evaluations, call, runnerVars>>
  BY DEF RunnerInv, ChainInv, InitializeCheckpoint
<1>2. ReservationInv'
  BY <1>1 DEF RunnerInv, ReservationInv, SlotsAccounted, runnerVars
<1>3. ChainInv'
  <2>1. instance.generation \in Nat
    BY StrategyAssumption DEF RunnerInv, ChainInv
  <2>2. /\ chain' \in Seq({GenesisCheckpoint(instance.generation)})
        /\ Len(chain') = 1 /\ DOMAIN chain' = {1} /\ chain' # <<>>
        /\ chain'[1] = GenesisCheckpoint(instance.generation)
    BY <1>1
  <2>3. Cardinality(evaluations') = 0
    BY <1>1, FS_EmptySet
  <2>4. Restores(1)'
    BY <1>1, <2>1, <2>2 DEF Restores, VerifyRestoration, GenesisCheckpoint
  <2>5. EvaluatedOnce'
    BY <1>1, <2>2, <2>3, <2>4 DEF EvaluatedOnce
  <2>6. ReceiptsMatchStore'
    BY <1>1 DEF RunnerInv, ChainInv, ReceiptsMatchStore, runnerVars
  <2>7. Len(chain') <= MaxEvaluations + 1
    BY <2>2, StrategyAssumption
  <2>8. \E S : chain' \in Seq(S)
    BY <2>2
  <2>9. /\ instance' \in [generation : 0..MaxGeneration, lifecycle : LifecycleStates]
        /\ IsFiniteSet(evaluations')
    BY <1>1 DEF RunnerInv, ChainInv
  <2> QED BY <2>2, <2>5, <2>6, <2>7, <2>8, <2>9 DEF ChainInv
<1> QED BY <1>1, <1>2, <1>3, EvaluationsStay DEF RunnerInv

-----------------------------------------------------------------------------
(* The steps of a call. *)

\* A call that moves on inside or outside its reservation.
LEMMA CallMoves ==
  ASSUME RunnerInv, NEW c \in Callers, NEW x, call' = [call EXCEPT ![c] = x], EvaluationFine(x),
         call[c].pc \in Inside <=> x.pc \in Inside,
         x.pc = "slot" => call[c].pc = "slot",
         UNCHANGED <<storeVars, runnerVars>>
  PROVE  RunnerInv'
<1>1. UNCHANGED <<instance, chain, evaluations, committed>>
  BY DEF storeVars, runnerVars
<1>2. /\ EvaluationsInv' /\ call'[c] = x
      /\ \A d \in Callers \ {c} : call'[d] = call[d]
  BY <1>1, OneEvaluation DEF RunnerInv
<1>3. ReservationInv'
  BY <1>2, ReservationStays DEF RunnerInv, Inside
<1> QED BY <1>1, <1>2, <1>3, ChainStays DEF RunnerInv

LEMMA EvaluateFrameStep ==
  ASSUME RunnerInv, NEW c \in Callers, NEW frame \in Frames, EvaluateFrame(c, frame)
  PROVE  RunnerInv'
<1>1. CASE instance.generation > 0 /\ "implementation" \in catalog
  <2> DEFINE x == [pc |-> "lookup", frame |-> frame, generation |-> instance.generation,
                   evaluates |-> Evaluates(instance.lifecycle), base |-> IdleCall.base,
                   kind |-> IdleCall.kind, ctx |-> IdleCall.ctx]
  <2>1. call' = [call EXCEPT ![c] = x]
    BY <1>1 DEF EvaluateFrame
  <2>2. instance.generation \in 1..instance.generation
    BY <1>1, StrategyAssumption DEF RunnerInv, ChainInv
  <2>3. x.pc = "lookup" /\ x.generation = instance.generation /\ IsCall(x)
    BY DEF IsCall
  <2>4. x.evaluates <=> Evaluates(instance.lifecycle)
    OBVIOUS
  <2> HIDE DEF x
  <2>5. EvaluationFine(x)
    BY <2>2, <2>3, <2>4 DEF EvaluationFine, InEvaluation
  <2> QED BY <2>1, <2>3, <2>5, CallMoves DEF EvaluateFrame, Inside
<1>2. CASE ~(instance.generation > 0 /\ "implementation" \in catalog)
  <2>1. call' = [call EXCEPT ![c] = IdleCall]
    BY <1>2 DEF EvaluateFrame
  <2> QED BY <2>1, BlankIsFine, CallMoves DEF EvaluateFrame, Inside, IdleCall
<1> QED BY <1>1, <1>2

\* An answer outside a reservation, and an end of the work inside one.
LEMMA AnswerMoves ==
  ASSUME RunnerInv, NEW c \in Callers, UNCHANGED <<storeVars, runnerVars>>,
         \/ Answer(c) /\ call[c].pc \notin Inside
         \/ UnwindEvaluation(c) /\ call[c].pc \in Inside
  PROVE  RunnerInv'
BY BlankIsFine, CallMoves DEF Answer, UnwindEvaluation, IdleCall, Inside

LEMMA LookupEvaluationStep ==
  ASSUME RunnerInv, NEW c \in Callers, LookupEvaluation(c)
  PROVE  RunnerInv'
<1>1. call[c].pc = "lookup" /\ UNCHANGED <<storeVars, runnerVars>>
  BY DEF LookupEvaluation
<1>2. CASE Answer(c)
  BY <1>1, <1>2, AnswerMoves DEF Inside
<1>3. CASE Step(c, "reserve") /\ call[c].evaluates
  <2>1. call' = [call EXCEPT ![c] = CallAt(c, "reserve", call[c].base, call[c].kind)]
    BY <1>3, StepIs DEF Step, RunnerInv
  <2>2. EvaluationFine(CallAt(c, "reserve", call[c].base, call[c].kind))
    BY <1>1, <1>3, MovedIsFine DEF RunnerInv, InEvaluation
  <2>3. CallAt(c, "reserve", call[c].base, call[c].kind).pc = "reserve"
    BY DEF CallAt
  <2> QED BY <1>1, <2>1, <2>2, <2>3, CallMoves DEF Inside
<1> QED BY <1>2, <1>3 DEF LookupEvaluation

LEMMA GivingUpEvaluation ==
  ASSUME RunnerInv, NEW c \in Callers,
         ReserveInstanceRefused(c) \/ AbandonEvaluation(c) \/ InvokeFails(c) \/ EvaluationRefused(c)
  PROVE  RunnerInv'
BY AnswerMoves DEF ReserveInstanceRefused, AbandonEvaluation, InvokeFails, EvaluationRefused, Inside

LEMMA CurrentCheckpointStep ==
  ASSUME RunnerInv, NEW c \in Callers, CurrentCheckpoint(c)
  PROVE  RunnerInv'
<1>1. call[c].pc = "load" /\ UNCHANGED <<storeVars, runnerVars>>
  BY DEF CurrentCheckpoint
<1>2. CASE UnwindEvaluation(c)
  BY <1>1, <1>2, AnswerMoves DEF Inside
<1>3. CASE call' = [call EXCEPT ![c] = CallAt(c, "invoke", Current, call[c].kind)]
  <2>1. call[c].evaluates
    BY <1>1 DEF RunnerInv, EvaluationsInv, EvaluationFine, InEvaluation
  <2>2. EvaluationFine(CallAt(c, "invoke", Current, call[c].kind))
    BY <1>1, <2>1, MovedIsFine DEF RunnerInv, InEvaluation
  <2>3. CallAt(c, "invoke", Current, call[c].kind).pc = "invoke"
    BY DEF CallAt
  <2> QED BY <1>1, <1>3, <2>2, <2>3, CallMoves DEF Inside
<1> QED BY <1>2, <1>3 DEF CurrentCheckpoint

LEMMA invokeStrategyStep ==
  ASSUME RunnerInv, NEW c \in Callers, invokeStrategy(c)
  PROVE  RunnerInv'
<1>1. call[c].pc = "invoke" /\ UNCHANGED <<storeVars, runnerVars>>
  BY DEF invokeStrategy
<1>2. PICK kind \in Kinds : call' = [call EXCEPT ![c] = CallAt(c, "publish", call[c].base, kind)]
  BY DEF invokeStrategy
<1>3. call[c].evaluates
  BY <1>1 DEF RunnerInv, EvaluationsInv, EvaluationFine, InEvaluation
<1>4. EvaluationFine(CallAt(c, "publish", call[c].base, kind))
  BY <1>1, <1>3, MovedIsFine DEF RunnerInv, InEvaluation
<1>5. CallAt(c, "publish", call[c].base, kind).pc = "publish"
  BY DEF CallAt
<1> QED BY <1>1, <1>2, <1>4, <1>5, CallMoves DEF Inside

LEMMA ContextEndsStep ==
  ASSUME RunnerInv, NEW c \in Callers, ContextEnds(c)
  PROVE  RunnerInv'
<1> DEFINE x == [pc |-> call[c].pc, frame |-> call[c].frame, generation |-> call[c].generation,
                 evaluates |-> call[c].evaluates, base |-> call[c].base, kind |-> call[c].kind,
                 ctx |-> "ended"]
<1>1. call' = [call EXCEPT ![c] = x]
  BY ContextIs DEF ContextEnds, RunnerInv
<1>2. IsCall(x) /\ x.pc = call[c].pc /\ x.generation = call[c].generation
  BY DEF IsCall
<1>3. x.evaluates <=> call[c].evaluates
  OBVIOUS
<1> HIDE DEF x
<1>4. EvaluationFine(x)
  BY <1>2, <1>3 DEF RunnerInv, EvaluationsInv, EvaluationFine
<1> QED BY <1>1, <1>2, <1>4, CallMoves DEF ContextEnds
-----------------------------------------------------------------------------
(* Reservation, semaphore, publication, release and shutdown. *)

\* A call that changes its place in the reservation and leaves the store alone.
LEMMA CallAndStore ==
  ASSUME RunnerInv, NEW c \in Callers, NEW x, call' = [call EXCEPT ![c] = x], EvaluationFine(x),
         UNCHANGED <<storeVars, committed>>
  PROVE  /\ EvaluationsInv' /\ ChainInv' /\ call'[c] = x
         /\ \A d \in Callers \ {c} : call'[d] = call[d]
<1>1. UNCHANGED <<instance, chain, evaluations, committed>>
  BY DEF storeVars
<1> QED BY <1>1, OneEvaluation, ChainStays DEF RunnerInv

\* A step of one call to pc, which keeps what it read.
LEMMA CallSteps ==
  ASSUME RunnerInv, NEW c \in Callers, call[c].pc \in InEvaluation, call[c].evaluates,
         NEW pc \in InEvaluation, Step(c, pc)
  PROVE  \E x : call' = [call EXCEPT ![c] = x] /\ EvaluationFine(x) /\ x.pc = pc
<1> DEFINE x == CallAt(c, pc, call[c].base, call[c].kind)
<1>1. call' = [call EXCEPT ![c] = x]
  BY StepIs DEF Step, RunnerInv
<1>2. EvaluationFine(x)
  BY MovedIsFine DEF RunnerInv
<1>3. x.pc = pc
  BY DEF CallAt
<1> QED BY <1>1, <1>2, <1>3

LEMMA reserveInstanceStep ==
  ASSUME RunnerInv, NEW c \in Callers, reserveInstance(c)
  PROVE  RunnerInv'
<1>1. /\ call[c].pc = "reserve" /\ ~closed /\ running = NoCall /\ running' = c /\ Step(c, "slot")
      /\ UNCHANGED <<storeVars, semaphore, closed, stopped, committed>>
  BY DEF reserveInstance
<1>2. call[c].evaluates
  BY <1>1 DEF RunnerInv, EvaluationsInv, EvaluationFine, InEvaluation
<1>3. PICK x : call' = [call EXCEPT ![c] = x] /\ EvaluationFine(x) /\ x.pc = "slot"
  BY <1>1, <1>2, CallSteps DEF InEvaluation
<1>4. /\ EvaluationsInv' /\ ChainInv' /\ call'[c] = x
      /\ \A d \in Callers \ {c} : call'[d] = call[d]
  BY <1>1, <1>3, CallAndStore
<1>5. ReservationInv'
  <2>1. \A d \in Callers : call[d].pc \notin Inside /\ d \notin semaphore
    BY <1>1, StrategyAssumption DEF RunnerInv, ReservationInv, SlotsAccounted, Inside
  <2>2. SlotsAccounted'
    BY <1>1, <1>3, <1>4, <2>1 DEF SlotsAccounted, Inside, RunnerInv, ReservationInv
  <2> QED BY <1>1, <2>2 DEF RunnerInv, ReservationInv
<1> QED BY <1>4, <1>5 DEF RunnerInv

LEMMA TakeEvaluationSlotStep ==
  ASSUME RunnerInv, NEW c \in Callers, TakeEvaluationSlot(c)
  PROVE  RunnerInv'
<1>1. /\ call[c].pc = "slot" /\ Cardinality(semaphore) < MaxConcurrency
      /\ semaphore' = semaphore \cup {c} /\ Step(c, "load")
      /\ UNCHANGED <<storeVars, running, closed, stopped, committed>>
  BY DEF TakeEvaluationSlot
<1>2. call[c].evaluates
  BY <1>1 DEF RunnerInv, EvaluationsInv, EvaluationFine, InEvaluation
<1>3. PICK x : call' = [call EXCEPT ![c] = x] /\ EvaluationFine(x) /\ x.pc = "load"
  BY <1>1, <1>2, CallSteps DEF InEvaluation
<1>4. /\ EvaluationsInv' /\ ChainInv' /\ call'[c] = x
      /\ \A d \in Callers \ {c} : call'[d] = call[d]
  BY <1>1, <1>3, CallAndStore
<1>5. ReservationInv'
  <2>1. running = c /\ semaphore = {}
    BY <1>1 DEF RunnerInv, ReservationInv, SlotsAccounted
  <2>2. Cardinality(semaphore') <= MaxConcurrency
    <3>1. Cardinality(semaphore) = 0 /\ Cardinality(semaphore') = 1
      BY <1>1, <2>1, FS_EmptySet, FS_Singleton
    <3> QED BY <1>1, <3>1, StrategyAssumption
  <2>3. SlotsAccounted'
    BY <1>1, <1>3, <1>4, <2>1 DEF SlotsAccounted, RunnerInv, ReservationInv
  <2> QED BY <1>1, <2>2, <2>3 DEF RunnerInv, ReservationInv
<1> QED BY <1>4, <1>5 DEF RunnerInv

LEMMA releaseInstanceStep ==
  ASSUME RunnerInv, NEW c \in Callers, releaseInstance(c)
  PROVE  RunnerInv'
<1>1. /\ call[c].pc = "leave" /\ semaphore' = semaphore \ {c} /\ running' = NoCall
      /\ call' = [call EXCEPT ![c] = IdleCall]
      /\ UNCHANGED <<storeVars, closed, stopped, committed>>
  BY DEF releaseInstance, Answer
<1>2. EvaluationFine(IdleCall) /\ IdleCall.pc = "idle"
  BY BlankIsFine DEF IdleCall
<1>3. /\ EvaluationsInv' /\ ChainInv' /\ call'[c] = IdleCall
      /\ \A d \in Callers \ {c} : call'[d] = call[d]
  BY <1>1, <1>2, CallAndStore
<1>4. ReservationInv'
  <2>1. running = c /\ \A d \in Callers \ {c} : call[d].pc \notin Inside
    BY <1>1 DEF RunnerInv, ReservationInv, SlotsAccounted, Inside
  <2>2. semaphore \subseteq {c} /\ semaphore' = {}
    BY <1>1, <2>1 DEF RunnerInv, ReservationInv, SlotsAccounted, Inside
  <2>3. Cardinality(semaphore') = 0
    BY <2>2, FS_EmptySet
  <2>4. SlotsAccounted'
    BY <1>1, <1>2, <1>3, <2>1, <2>2, StrategyAssumption DEF SlotsAccounted, Inside
  <2> QED BY <1>1, <2>2, <2>3, <2>4, StrategyAssumption DEF RunnerInv, ReservationInv
<1> QED BY <1>3, <1>4 DEF RunnerInv

LEMMA RunnerShutdownStep ==
  ASSUME RunnerInv, StrategyShutdown \/ StrategyShutdownDone
  PROVE  RunnerInv'
<1>1. UNCHANGED <<instance, chain, evaluations, committed, call, running, semaphore>>
  BY DEF StrategyShutdown, StrategyShutdownDone, storeVars
<1>2. stopped' => closed' /\ running' = NoCall
  BY DEF StrategyShutdown, StrategyShutdownDone, RunnerInv, ReservationInv
<1>3. ReservationInv'
  BY <1>1, <1>2 DEF RunnerInv, ReservationInv, SlotsAccounted
<1> QED BY <1>1, <1>3, ChainStays, EvaluationsStay DEF RunnerInv

-----------------------------------------------------------------------------
(* A publication extends the chain by the checkpoint built on its end. *)

LEMMA PublishedChain ==
  ASSUME RunnerInv, NEW c \in Callers, PublishEvaluation(c)
  PROVE  ChainInv'
<1> DEFINE p == EvaluationPublication(c)
           g == instance.generation
           n == Len(chain)
           e == Record(p)
<1>1. /\ call[c].pc = "publish" /\ EvaluationPublishable(p)
      /\ chain' = Append(chain, p.checkpoint)
      /\ evaluations' = evaluations \cup {e} /\ committed' = committed + 1
      /\ UNCHANGED instance
  BY DEF PublishEvaluation
<1>2. /\ p.eval = IDOf(c) /\ p.generation = call[c].generation /\ p.expected = call[c].base.revision
      /\ p.checkpoint = NextRuntimeCheckpoint(call[c].base, call[c].generation, call[c].frame)
  BY DEF EvaluationPublication
<1>3. e.eval = p.eval /\ e.revision = p.checkpoint.revision
  BY DEF Record
<1> HIDE DEF p, e
<1>4. /\ p.checkpoint.eval = p.eval /\ p.checkpoint.generation = p.generation
      /\ p.checkpoint.revision = p.expected + 1
      /\ ~Stored(p.eval) /\ p.generation = g
      /\ chain # <<>> /\ Current.revision = p.expected /\ p.checkpoint.parent = <<Current>>
      /\ Cardinality(evaluations) < MaxEvaluations
  BY <1>1 DEF EvaluationPublishable, validatePublication, Known, IsCurrentRevision, Extends, WithinLimits
<1>5. PICK S : chain \in Seq(S)
  BY DEF RunnerInv, ChainInv
<1>6. /\ n \in Nat \ {0} /\ DOMAIN chain = 1..n
      /\ chain' \in Seq(S \cup {p.checkpoint}) /\ Len(chain') = n + 1 /\ DOMAIN chain' = 1..(n + 1)
      /\ chain'[n + 1] = p.checkpoint /\ \A k \in 1..n : chain'[k] = chain[k]
      /\ chain' # <<>>
  BY <1>1, <1>4, <1>5
<1>7. g \in Nat /\ \A k \in 1..n : Restores(k)
  BY <1>6, StrategyAssumption DEF RunnerInv, ChainInv, EvaluatedOnce
<1>8. Current = chain[n] /\ Current.revision = n - 1 /\ 1 <= g
  <2>1. n \in 1..n
    BY <1>6
  <2>2. Restores(n)
    BY <1>7, <2>1
  <2> QED BY <1>6, <1>7, <2>2 DEF Current, Restores, VerifyRestoration
<1>9. \A k \in 1..(n + 1) : Restores(k)'
  <2>1. ASSUME NEW k \in 1..n PROVE Restores(k)'
    <3>1. Restores(k) /\ chain'[k] = chain[k]
      BY <1>6, <1>7
    <3>2. k > 1 => k - 1 \in 1..n
      BY <1>6
    <3>3. k > 1 => chain'[k - 1] = chain[k - 1]
      BY <1>6, <3>2
    <3> QED BY <1>1, <3>1, <3>3 DEF Restores, VerifyRestoration
  <2>2. ASSUME NEW k, k = n + 1 PROVE Restores(k)'
    <3>1. n \in 1..n /\ k - 1 = n
      BY <1>6, <2>2
    <3>2. chain'[k - 1] = Current
      BY <1>6, <1>8, <3>1
    <3>3. p.checkpoint.revision = n
      BY <1>4, <1>6, <1>8
    <3>4. p.checkpoint.generation \in 1..g
      <4>1. g \in 1..g
        BY <1>7, <1>8
      <4> QED BY <1>4, <4>1
    <3>5. chain'[k] = p.checkpoint
      BY <1>6, <2>2
    <3> QED BY <1>1, <1>4, <3>1, <3>2, <3>3, <3>4, <3>5 DEF Restores, VerifyRestoration
  <2>3. ASSUME NEW m \in Nat PROVE \A k \in 1..(m + 1) : k \in 1..m \/ k = m + 1
    OBVIOUS
  <2>4. \A k \in 1..(n + 1) : k \in 1..n \/ k = n + 1
    BY <1>6, <2>3
  <2> QED BY <2>1, <2>2, <2>4
<1>10. /\ IsFiniteSet(evaluations') /\ Cardinality(evaluations) \in Nat
       /\ Cardinality(evaluations') = Cardinality(evaluations) + 1 /\ e \notin evaluations
  <2>1. IsFiniteSet(evaluations)
    BY DEF RunnerInv, ChainInv
  <2>2. e \notin evaluations
    BY <1>3, <1>4 DEF Stored
  <2> QED BY <1>1, <2>1, <2>2, FS_AddElement, FS_CardinalityType
<1>11. EvaluatedOnce'
  <2>1. Cardinality(evaluations') = Len(chain') - 1
    BY <1>4, <1>6, <1>10 DEF RunnerInv, ChainInv, EvaluatedOnce
  <2>2. ASSUME NEW k \in DOMAIN chain' \ {1}
        PROVE  \E f \in evaluations' : f.eval = chain'[k].eval /\ f.revision = k - 1
    <3>1. CASE k = n + 1
      <4>1. e.eval = chain'[k].eval /\ e.revision = k - 1
        BY <1>3, <1>4, <1>6, <1>8, <3>1
      <4> QED BY <1>1, <4>1
    <3>2. CASE k # n + 1
      <4>1. k \in DOMAIN chain \ {1} /\ chain'[k] = chain[k]
        BY <1>6, <3>2
      <4> QED BY <1>1, <4>1 DEF RunnerInv, ChainInv, EvaluatedOnce
    <3> QED BY <3>1, <3>2
  <2>3. \A f, h \in evaluations' : f.eval = h.eval => f = h
    <3>1. \A f \in evaluations : f.eval # e.eval
      BY <1>3, <1>4 DEF Stored
    <3> QED BY <1>1, <3>1 DEF RunnerInv, ChainInv, EvaluatedOnce
  <2> QED BY <1>6, <1>9, <2>1, <2>2, <2>3 DEF EvaluatedOnce
<1>12. ReceiptsMatchStore'
  BY <1>1, <1>10 DEF RunnerInv, ChainInv, ReceiptsMatchStore
<1>13. Len(chain') <= MaxEvaluations + 1
  BY <1>4, <1>6, <1>10, StrategyAssumption DEF RunnerInv, ChainInv, EvaluatedOnce
<1> QED BY <1>1, <1>6, <1>10, <1>11, <1>12, <1>13 DEF RunnerInv, ChainInv

LEMMA PublishEvaluationStep ==
  ASSUME RunnerInv, NEW c \in Callers, PublishEvaluation(c)
  PROVE  RunnerInv'
<1>1. /\ call[c].pc = "publish" /\ call' = [call EXCEPT ![c] = Blank("leave")]
      /\ UNCHANGED <<instance, running, semaphore, closed, stopped>>
  BY DEF PublishEvaluation, UnwindEvaluation
<1>2. EvaluationFine(Blank("leave")) /\ Blank("leave").pc = "leave"
  BY BlankIsFine
<1>3. /\ EvaluationsInv' /\ call'[c] = Blank("leave")
      /\ \A d \in Callers \ {c} : call'[d] = call[d]
  BY <1>1, <1>2, OneEvaluation DEF RunnerInv
<1>4. ReservationInv'
  BY <1>1, <1>2, <1>3 DEF RunnerInv, ReservationInv, SlotsAccounted
<1> QED BY <1>3, <1>4, PublishedChain DEF RunnerInv

LEMMA RunnerInvKept == RunnerInv /\ [StrategyNext]_strategyVars => RunnerInv'
<1> SUFFICES ASSUME RunnerInv, [StrategyNext]_strategyVars PROVE RunnerInv'
  OBVIOUS
<1>1. CASE UNCHANGED strategyVars
  <2>1. UNCHANGED <<instance, chain, evaluations, committed, call, runnerVars>>
    BY <1>1 DEF strategyVars, runnerVars
  <2>2. ReservationInv'
    BY <2>1 DEF RunnerInv, ReservationInv, SlotsAccounted, runnerVars
  <2> QED BY <2>1, <2>2, ChainStays, EvaluationsStay DEF RunnerInv
<1>2. ASSUME NEW c \in Callers, CallStep(c) PROVE RunnerInv'
  BY <1>2, LookupEvaluationStep, GivingUpEvaluation, reserveInstanceStep, TakeEvaluationSlotStep,
     CurrentCheckpointStep, invokeStrategyStep, PublishEvaluationStep, releaseInstanceStep
  DEF CallStep
<1> QED BY <1>1, <1>2, RepositoryStep, PutInstanceStep, InitializeCheckpointStep, EvaluateFrameStep,
          ContextEndsStep, RunnerShutdownStep
       DEF StrategyNext

(* A frame is evaluated into the instance once, its chain of checkpoints restores, receipts and
   store agree, and reservation, semaphore and calls say the same (Runner.EvaluateFrame,
   Store.PublishEvaluation). *)
THEOREM FramesCountOnce == StrategySpec => []StrategyInv
<1> QED BY StrategyInitial, RunnerInvKept, RunnerInvImplies, PTL DEF StrategySpec

-----------------------------------------------------------------------------
\* What is stored was evaluated by the revision that is still the instance's, and nothing is
\* stored, nor a place taken, behind a shutdown that has returned.
LEMMA StepsAreQuiet ==
  RunnerInv /\ [StrategyNext]_strategyVars => RevisionStep /\ StoppedStep
<1> SUFFICES ASSUME RunnerInv, [StrategyNext]_strategyVars PROVE RevisionStep /\ StoppedStep
  OBVIOUS
<1>1. ASSUME UNCHANGED <<evaluations, semaphore>> PROVE RevisionStep /\ StoppedStep
  BY <1>1 DEF RevisionStep, StoppedStep
<1>2. ASSUME NEW c \in Callers, TakeEvaluationSlot(c) PROVE RevisionStep /\ StoppedStep
  <2>1. call[c].pc = "slot" /\ UNCHANGED evaluations
    BY <1>2 DEF TakeEvaluationSlot, storeVars
  <2>2. ~stopped
    BY <2>1, StrategyAssumption DEF RunnerInv, ReservationInv, SlotsAccounted
  <2> QED BY <2>1, <2>2 DEF RevisionStep, StoppedStep
<1>3. ASSUME NEW c \in Callers, releaseInstance(c) PROVE RevisionStep /\ StoppedStep
  <2>1. call[c].pc = "leave" /\ UNCHANGED evaluations
    BY <1>3 DEF releaseInstance, storeVars
  <2>2. ~stopped
    BY <2>1, StrategyAssumption DEF RunnerInv, ReservationInv, SlotsAccounted
  <2> QED BY <2>1, <2>2 DEF RevisionStep, StoppedStep
<1>4. ASSUME NEW c \in Callers, PublishEvaluation(c) PROVE RevisionStep /\ StoppedStep
  <2> DEFINE p == EvaluationPublication(c)
  <2>1. /\ call[c].pc = "publish" /\ IsCurrentRevision(p)
        /\ evaluations' = evaluations \cup {Record(p)}
    BY <1>4 DEF PublishEvaluation, EvaluationPublishable
  <2>2. call[c].generation = instance.generation
    BY <2>1 DEF IsCurrentRevision, EvaluationPublication
  <2>3. Record(p).eval[1] = call[c].generation
    BY DEF Record, EvaluationPublication, IDOf, EvaluationID
  <2>4. Evaluates(instance.lifecycle)
    BY <2>1, <2>2 DEF RunnerInv, EvaluationsInv, EvaluationFine, InEvaluation
  <2>5. ~stopped
    BY <2>1, StrategyAssumption DEF RunnerInv, ReservationInv, SlotsAccounted
  <2> HIDE DEF p
  <2> QED BY <2>1, <2>2, <2>3, <2>4, <2>5 DEF RevisionStep, StoppedStep
<1>5. ASSUME NEW c \in Callers,
             \/ LookupEvaluation(c) \/ ReserveInstanceRefused(c) \/ reserveInstance(c)
             \/ AbandonEvaluation(c) \/ CurrentCheckpoint(c) \/ InvokeFails(c)
             \/ invokeStrategy(c) \/ EvaluationRefused(c) \/ ContextEnds(c)
             \/ \E frame \in Frames : EvaluateFrame(c, frame)
      PROVE  UNCHANGED <<evaluations, semaphore>>
  BY <1>5 DEF LookupEvaluation, ReserveInstanceRefused, reserveInstance, AbandonEvaluation,
     CurrentCheckpoint, InvokeFails, invokeStrategy, EvaluationRefused, ContextEnds, EvaluateFrame,
     storeVars, runnerVars
<1>6. ASSUME \/ UNCHANGED strategyVars
             \/ RegisterDefinition \/ RegisterVersion \/ Register \/ InitializeCheckpoint
             \/ SetFailureInjector \/ CorruptCurrentCheckpointForTest \/ ReadinessChanges
             \/ StrategyShutdown \/ StrategyShutdownDone
             \/ \E l \in Lifecycles : PutInstance(l)
      PROVE  UNCHANGED <<evaluations, semaphore>>
  BY <1>6 DEF RegisterDefinition, RegisterVersion, Register, InitializeCheckpoint,
     SetFailureInjector, CorruptCurrentCheckpointForTest, ReadinessChanges, StrategyShutdown,
     StrategyShutdownDone, PutInstance, strategyVars, storeVars, runnerVars
<1> QED BY <1>1, <1>2, <1>3, <1>4, <1>5, <1>6 DEF StrategyNext, CallStep

(* An old revision and a stopped runner store nothing (Store.PublishEvaluation,
   Runner.Shutdown). *)
THEOREM RunnerStaysQuiet == StrategySpec => RunnerIsQuiet
<1> QED BY StrategyInitial, RunnerInvKept, StepsAreQuiet, PTL
       DEF StrategySpec, RunnerIsQuiet, OldRevisionsAreSilent, StoppedRunnerIsQuiet

-----------------------------------------------------------------------------
(* Types.                                                                  *)

Sessions == [state : SessionStates, regime : Regimes \cup {"none"}]

ProcessPlaces == Working \cup {"idle", "admit", "degrade", "enter", "leave", "done"}

\* A call of Process: where it is, the strategies it has looked up, the proposals left.
Shaped(r) == r = [pc |-> r.pc, seen |-> r.seen, left |-> r.left] /\ r.pc \in ProcessPlaces

ShutdownPlaces ==
  {"idle", "session", "strategies", "cancel", "wait", "checkpoint", "stop", "session stop", "done"}

\* A shutdown that has drained the session and has not stopped it.
Drained == {"strategies", "cancel", "wait", "checkpoint", "stop", "session stop"}

\* The call of Start: before its assignment it has overtaken nothing.
StartShaped ==
  /\ start = [pc |-> start.pc, ready |-> start.ready, controls |-> start.controls,
              session |-> start.session, overtaken |-> start.overtaken]
  /\ start.overtaken \in BOOLEAN
  /\ start.pc \in {"idle", "assign"} => ~start.overtaken

Typed ==
  /\ StartShaped
  /\ state \in RuntimeStates
  /\ session \in Sessions
  /\ strategies \in [Strategies -> StrategyStates]
  /\ clock \in DOMAIN Day
  /\ process = [e \in Events |-> process[e]] /\ \A e \in Events : Shaped(process[e])
  /\ shutdown \in [pc : ShutdownPlaces, clean : BOOLEAN]

\* A shutdown that has stopped the strategies.
Halted == {"cancel", "wait", "checkpoint", "stop", "session stop", "done"}

\* How far the shutdown is, in the runtime's state, in the strategies and in the session.
Progress ==
  /\ state = "STOPPED" => shutdown.pc \in {"session stop", "done"}
  /\ shutdown.pc \in {"session stop", "done"} => state = "STOPPED" \/ start.overtaken
  /\ start.overtaken => shutdown.pc \in {"session stop", "done"}
  /\ shutdown.pc \in Halted => \A s \in Strategies : strategies[s] \in {"DISABLED", "STOPPING"}
  /\ shutdown.pc \in Drained => session.state = "DRAINING"
  /\ session.state = "STOPPED" <=> shutdown.pc = "done"

\* The calls at some place.
In(calls, pcs) == {e \in Events : calls[e].pc \in pcs}

HoldsSlot == Working \cup {"enter"}
InFlight == Working \cup {"leave"}

\* The semaphore and the wait group count the calls that have taken a place in them.
Counts ==
  /\ IsFiniteSet(In(process, HoldsSlot)) /\ slots = Cardinality(In(process, HoldsSlot))
  /\ IsFiniteSet(In(process, InFlight)) /\ inFlight = Cardinality(In(process, InFlight))
  /\ slots \in 0..AdmissionLimit

RuntimeInv == Typed /\ Progress /\ Counts

-----------------------------------------------------------------------------
(* The session machine.                                                    *)

\* A transition keeps the type, and ends nowhere but where it was asked to.
LEMMA Transitions ==
  ASSUME NEW s \in Sessions, NEW to \in SessionStates, NEW regime \in Regimes \cup {"none"}
  PROVE  /\ transitionLocked(s, to, regime) \in Sessions
         /\ transitionLocked(s, to, regime).state \in {s.state, to}
         /\ s.state = "STOPPED" => transitionLocked(s, to, regime).state = "STOPPED"
         /\ s.state = "DRAINING" => transitionLocked(s, to, regime).state \in {"DRAINING", "STOPPED"}
<1>1. /\ transitionLocked(s, to, regime) \in Sessions
      /\ transitionLocked(s, to, regime).state \in {s.state, to}
  BY DEF transitionLocked, Sessions
<1>2. ASSUME s.state = "STOPPED" PROVE transitionLocked(s, to, regime).state = "STOPPED"
  BY <1>2 DEF transitionLocked, legalSessionTransition, allowed, SessionStates
<1>3. ASSUME s.state = "DRAINING"
      PROVE  transitionLocked(s, to, regime).state \in {"DRAINING", "STOPPED"}
  <2>1. CASE to \in {"DRAINING", "STOPPED"}
    BY <1>1, <1>3, <2>1
  <2>2. CASE to \notin {"DRAINING", "STOPPED"}
    <3>1. ~legalSessionTransition(s.state, to)
      BY <1>3, <2>2 DEF legalSessionTransition, allowed, SessionStates
    <3> QED BY <1>3, <2>2, <3>1 DEF transitionLocked
  <2> QED BY <2>1, <2>2
<1> QED BY <1>1, <1>2, <1>3

\* What the calendar and readiness can ask for, never a stop.
LEMMA Classified ==
  ASSUME NEW phase \in Phases, NEW isReady \in BOOLEAN, NEW current
  PROVE  LET desired == classifySession(phase, isReady, current)
         IN  /\ desired \in Sessions
             /\ desired.state \notin {"DRAINING", "STOPPED"}
             /\ phase = "AFTER" => desired.state \in {"CLOSING", "CLOSED"}
<1>1. CASE phase \in {"HOLIDAY", "BEFORE", "AFTER", "BREAK"}
  BY <1>1 DEF classifySession, Sessions, SessionStates
<1>2. CASE phase \in Regimes
  BY <1>2 DEF classifySession, Sessions, SessionStates, Regimes
<1> QED BY <1>1, <1>2 DEF Phases

\* A change that neither drains nor stops a session, and leaves a draining or stopped one alone.
Restrained(s, t) ==
  /\ t \in Sessions
  /\ s.state \in {"DRAINING", "STOPPED"} \/ t.state \in {"DRAINING", "STOPPED"} => t.state = s.state

LEMMA Advances ==
  ASSUME NEW s \in Sessions, NEW phase \in Phases, NEW reply \in Replies
  PROVE  /\ Restrained(s, s)
         /\ Restrained(s, Advance(s, phase, TRUE, reply))
         /\ Restrained(s, Degrade(s))
         /\ Restrained(s, Halt(s))
<1>1. ASSUME NEW to \in SessionStates \ {"DRAINING", "STOPPED"}, NEW regime \in Regimes \cup {"none"}
      PROVE  Restrained(s, transitionLocked(s, to, regime))
  <2>1. to \in SessionStates /\ to # "STOPPED" /\ to # "DRAINING"
    OBVIOUS
  <2>2. legalSessionTransition(s.state, to) => s.state \notin {"DRAINING", "STOPPED"}
    BY <2>1 DEF legalSessionTransition, allowed, SessionStates
  <2>3. transitionLocked(s, to, regime) \in Sessions
    BY <2>1, Transitions
  <2> QED BY <2>1, <2>2, <2>3 DEF Restrained, transitionLocked
<1>2. s.regime \in Regimes \cup {"none"} /\ Restrained(s, s)
  BY DEF Sessions, Restrained
<1>3. {"DEGRADED", "HALTED"} \subseteq SessionStates \ {"DRAINING", "STOPPED"}
  BY DEF SessionStates
<1>4. Restrained(s, Degrade(s)) /\ Restrained(s, Halt(s))
  BY <1>1, <1>2, <1>3 DEF Degrade, Halt
<1>5. Restrained(s, Advance(s, phase, TRUE, reply))
  <2> DEFINE desired == classifySession(phase, TRUE, s.state)
  <2>1. desired \in Sessions /\ desired.state \notin {"DRAINING", "STOPPED"}
    BY Classified
  <2>2. desired.state \in SessionStates \ {"DRAINING", "STOPPED"} /\ desired.regime \in Regimes \cup {"none"}
    BY <2>1 DEF Sessions
  <2> HIDE DEF desired
  <2>3. Restrained(s, transitionLocked(s, desired.state, desired.regime))
    BY <1>1, <2>2
  <2>4. Restrained(s, transitionLocked(s, "HALTED", "none"))
    BY <1>1, <1>3
  <2>5. Advance(s, phase, TRUE, reply) =
          CASE reply = "day" -> transitionLocked(s, desired.state, desired.regime)
            [] reply = "unavailable" -> transitionLocked(s, "HALTED", "none")
            [] reply = "cancelled" -> s
    BY DEF Advance, desired
  <2>6. CASE reply = "day"
    BY <2>3, <2>5, <2>6
  <2>7. CASE reply = "unavailable"
    BY <2>4, <2>5, <2>7
  <2>8. CASE reply = "cancelled"
    BY <1>2, <2>5, <2>8
  <2> QED BY <2>6, <2>7, <2>8 DEF Replies
<1> QED BY <1>2, <1>4, <1>5

\* A drain drains whatever is not stopped, a stop stops what drains.
LEMMA Drains ==
  ASSUME NEW s \in Sessions
  PROVE  /\ Drain(s) \in Sessions /\ Stop(s) \in Sessions
         /\ s.state # "STOPPED" => Drain(s).state = "DRAINING"
         /\ s.state = "DRAINING" => Stop(s).state = "STOPPED"
<1>1. s.regime \in Regimes \cup {"none"} /\ {"DRAINING", "STOPPED"} \subseteq SessionStates
  BY DEF Sessions, SessionStates
<1>2. Drain(s) \in Sessions /\ Stop(s) \in Sessions
  BY <1>1, Transitions DEF Drain, Stop
<1>3. s.state # "STOPPED" => legalSessionTransition(s.state, "DRAINING")
  BY DEF legalSessionTransition
<1>4. legalSessionTransition("DRAINING", "STOPPED")
  BY DEF legalSessionTransition, allowed
<1> QED BY <1>2, <1>3, <1>4 DEF Drain, Stop, transitionLocked

-----------------------------------------------------------------------------
(* Strategies.                                                             *)

LEMMA Eligible ==
  ASSUME NEW answer, NEW s, NEW isReady, NEW blocked
  PROVE  eligibleState(answer, s, isReady, blocked) \in StrategyStates
BY DEF eligibleState, StrategyStates

\* A reconciliation leaves what is held as it is.
LEMMA Reconciliations ==
  ASSUME strategies \in [Strategies -> StrategyStates], NEW seen, NEW isReady, NEW settings
  PROVE  /\ Reconciled(strategies, seen, isReady, settings) \in [Strategies -> StrategyStates]
         /\ \A s \in Strategies : strategies[s] \in Held =>
                Reconciled(strategies, seen, isReady, settings)[s] = strategies[s]
BY Eligible DEF Reconciled, Held

-----------------------------------------------------------------------------
(* Calls of Process.                                                       *)

Taken(pc, pcs) == IF pc \in pcs THEN 1 ELSE 0

LEMMA Counted ==
  ASSUME process = [e \in Events |-> process[e]], NEW e \in Events, NEW r, NEW pcs,
         IsFiniteSet(In(process, pcs))
  PROVE  /\ IsFiniteSet(In([process EXCEPT ![e] = r], pcs))
         /\ Cardinality(In([process EXCEPT ![e] = r], pcs)) =
              Cardinality(In(process, pcs)) + Taken(r.pc, pcs) - Taken(process[e].pc, pcs)
         /\ Cardinality(In([process EXCEPT ![e] = r], pcs)) \in Nat
<1> DEFINE A == In(process, pcs)
           B == In([process EXCEPT ![e] = r], pcs)
<1>1. B = IF r.pc \in pcs THEN A \cup {e} ELSE A \ {e}
  BY DEF In
<1>2. e \in A <=> process[e].pc \in pcs
  BY DEF In
<1> HIDE DEF A, B
<1>3. IsFiniteSet(A) /\ Cardinality(A) \in Nat
  BY FS_CardinalityType DEF A
<1>4. /\ IsFiniteSet(A \cup {e})
      /\ Cardinality(A \cup {e}) = IF e \in A THEN Cardinality(A) ELSE Cardinality(A) + 1
  BY <1>3, FS_AddElement
<1>5. /\ IsFiniteSet(A \ {e})
      /\ Cardinality(A \ {e}) = IF e \in A THEN Cardinality(A) - 1 ELSE Cardinality(A)
  BY <1>3, FS_RemoveElement
<1>6. IsFiniteSet(B) /\ Cardinality(B) \in Nat
  BY <1>1, <1>4, <1>5, FS_CardinalityType
<1>7. Cardinality(B) = Cardinality(A) + Taken(r.pc, pcs) - Taken(process[e].pc, pcs)
  BY <1>1, <1>2, <1>3, <1>4, <1>5 DEF Taken
<1> QED BY <1>6, <1>7 DEF A, B

\* The call of e goes to a place.
Goes(e, pc) == \E r : process' = [process EXCEPT ![e] = r] /\ Shaped(r) /\ r.pc = pc

LEMMA Going ==
  ASSUME Typed, NEW e \in Events, NEW pc \in ProcessPlaces
  PROVE  /\ Goto(e, pc) => Goes(e, pc)
         /\ Done(e) => Goes(e, "done")
         /\ NextProposal(e) => Goes(e, "gate") \/ Goes(e, "release")
         /\ \A proposals : process' = [process EXCEPT ![e] = [pc |-> pc, seen |-> strategies, left |-> proposals]]
                             => Goes(e, pc)
<1>1. /\ process = [x \in Events |-> process[x]]
      /\ process[e] = [pc |-> process[e].pc, seen |-> process[e].seen, left |-> process[e].left]
  BY DEF Typed, Shaped
<1>2. ASSUME Goto(e, pc) PROVE Goes(e, pc)
  <2> DEFINE r == [process[e] EXCEPT !.pc = pc]
  <2>1. process' = [process EXCEPT ![e] = r]
    BY <1>2 DEF Goto
  <2>2. r.pc = pc /\ Shaped(r)
    BY <1>1 DEF Shaped
  <2> QED BY <2>1, <2>2 DEF Goes
<1>3. ASSUME Done(e) PROVE Goes(e, "done")
  <2> DEFINE r == [IdleProcess EXCEPT !.pc = "done"]
  <2>1. r.pc = "done" /\ Shaped(r)
    BY DEF Shaped, IdleProcess, ProcessPlaces
  <2> QED BY <1>3, <2>1 DEF Goes, Done
<1>4. ASSUME NextProposal(e) PROVE Goes(e, "gate") \/ Goes(e, "release")
  <2> DEFINE to == IF Len(process[e].left) = 1 THEN "release" ELSE "gate"
             r == [pc |-> to, seen |-> process[e].seen, left |-> Tail(process[e].left)]
  <2>1. process' = [process EXCEPT ![e] = r]
    BY <1>1, <1>4 DEF NextProposal
  <2>2. r.pc = to /\ Shaped(r)
    BY <1>1 DEF Shaped, ProcessPlaces, Working
  <2>3. Goes(e, to)
    BY <2>1, <2>2 DEF Goes
  <2> QED BY <2>3
<1>5. ASSUME NEW proposals,
             process' = [process EXCEPT ![e] = [pc |-> pc, seen |-> strategies, left |-> proposals]]
      PROVE  Goes(e, pc)
  <2> DEFINE r == [pc |-> pc, seen |-> strategies, left |-> proposals]
  <2>1. process' = [process EXCEPT ![e] = r]
    BY <1>1, <1>5
  <2>2. r.pc = pc /\ Shaped(r)
    BY <1>1 DEF Shaped
  <2> QED BY <2>1, <2>2 DEF Goes
<1> QED BY <1>2, <1>3, <1>4, <1>5

\* What a step of a call may do: it goes to a place, holds the slot and the counter that
\* go with it, and takes a slot only if there is one.
Moves(e, pc) ==
  /\ Goes(e, pc)
  /\ slots' = slots + Taken(pc, HoldsSlot) - Taken(process[e].pc, HoldsSlot)
  /\ inFlight' = inFlight + Taken(pc, InFlight) - Taken(process[e].pc, InFlight)
  /\ slots' > slots => slots < AdmissionLimit

\* The state of a runtime that drains is the shutdown's alone.
StateKept == state' \in RuntimeStates /\ (state' # state => {state, state'} \cap {"DRAINING", "STOPPED"} = {})

LEMMA Failing == ASSUME state \in RuntimeStates, NEW to \in {"DEGRADED", "HALTED"}, fail(to) PROVE StateKept
BY DEF fail, StateKept, RuntimeStates

LEMMA ProcessMoves ==
  ASSUME Typed, slots \in Nat, inFlight \in Nat, NEW e \in Events, Process(e) \/ ProcessStep(e)
  PROVE  /\ \E pc \in ProcessPlaces : Moves(e, pc)
         /\ StateKept /\ Restrained(session, session')
         /\ UNCHANGED <<strategies, clock, start, shutdown>>
<1> DEFINE Kept == StateKept /\ Restrained(session, session') /\ UNCHANGED <<strategies, clock, start, shutdown>>
<1> USE DEF At
<1>0. /\ {"admit", "degrade", "enter", "leave", "done", "evaluate", "gate", "decide", "execute", "ingest",
          "halt", "feedback", "release"} \subseteq ProcessPlaces
      /\ session \in Sessions /\ state \in RuntimeStates
  BY DEF ProcessPlaces, Working, Typed
<1>1. /\ Restrained(session, session) /\ (UNCHANGED state => StateKept)
      /\ Restrained(session, Degrade(session)) /\ Restrained(session, Halt(session))
  <2>1. Restrained(session, session)
    BY <1>0 DEF Restrained
  <2>2. UNCHANGED state => StateKept
    BY <1>0 DEF StateKept
  <2>3. "HOLIDAY" \in Phases /\ "day" \in Replies
    BY DEF Phases, Replies
  <2>4. Restrained(session, Degrade(session)) /\ Restrained(session, Halt(session))
    BY <1>0, <2>3, Advances
  <2> QED BY <2>1, <2>2, <2>4
<1>2. ASSUME Process(e) PROVE Moves(e, "admit") /\ Kept
  <2>1. Kept
    BY <1>0, <1>1, <1>2 DEF Process, runtimeVars
  <2>2. Goes(e, "admit")
    BY <1>0, <1>2, Going DEF Process
  <2> QED BY <1>2, <2>1, <2>2 DEF Process, Moves, Taken, HoldsSlot, InFlight, Working
<1>3. ASSUME Admit(e) PROVE Moves(e, "enter") /\ Kept
  <2>1. Kept
    BY <1>0, <1>1, <1>3 DEF Admit, runtimeVars
  <2>2. Goes(e, "enter")
    BY <1>0, <1>3, Going DEF Admit
  <2> QED BY <1>3, <2>1, <2>2 DEF Admit, Moves, Taken, HoldsSlot, InFlight, Working
<1>4. ASSUME AdmitCancelled(e) PROVE Moves(e, "done") /\ Kept
  <2>1. Kept
    BY <1>0, <1>1, <1>4 DEF AdmitCancelled, runtimeVars
  <2>2. Goes(e, "done")
    BY <1>0, <1>4, Going DEF AdmitCancelled
  <2> QED BY <1>4, <2>1, <2>2 DEF AdmitCancelled, Moves, Taken, HoldsSlot, InFlight, Working
<1>5. ASSUME Backpressure(e) PROVE Moves(e, "degrade") /\ Kept
  <2>1. Kept
    BY <1>0, <1>1, <1>5, Failing DEF Backpressure, runtimeVars
  <2>2. Goes(e, "degrade")
    BY <1>0, <1>5, Going DEF Backpressure
  <2> QED BY <1>5, <2>1, <2>2 DEF Backpressure, Moves, Taken, HoldsSlot, InFlight, Working
<1>6. ASSUME BackpressureSession(e) PROVE Moves(e, "done") /\ Kept
  <2>1. Kept
    BY <1>0, <1>1, <1>6 DEF BackpressureSession, runtimeVars
  <2>2. Goes(e, "done")
    BY <1>0, <1>6, Going DEF BackpressureSession
  <2> QED BY <1>6, <2>1, <2>2 DEF BackpressureSession, Moves, Taken, HoldsSlot, InFlight, Working
<1>7. ASSUME Enter(e) PROVE Moves(e, "evaluate") /\ Kept
  <2>1. Kept
    BY <1>0, <1>1, <1>7 DEF Enter, runtimeVars
  <2>2. Goes(e, "evaluate")
    BY <1>0, <1>7, Going DEF Enter
  <2> QED BY <1>7, <2>1, <2>2 DEF Enter, Moves, Taken, HoldsSlot, InFlight, Working
<1>8. ASSUME StageFails(e) PROVE Moves(e, "release") /\ Kept
  <2>1. Kept
    BY <1>0, <1>1, <1>8, Failing DEF StageFails, runtimeVars
  <2>2. Goes(e, "release")
    BY <1>0, <1>8, Going DEF StageFails
  <2> QED BY <1>8, <2>1, <2>2 DEF StageFails, Moves, Taken, HoldsSlot, InFlight, Working
<1>9. ASSUME Ingest(e) PROVE Moves(e, "feedback") /\ Kept
  <2>1. Kept
    BY <1>0, <1>1, <1>9 DEF Ingest, runtimeVars
  <2>2. Goes(e, "feedback")
    BY <1>0, <1>9, Going DEF Ingest
  <2> QED BY <1>9, <2>1, <2>2 DEF Ingest, Moves, Taken, HoldsSlot, InFlight, Working
<1>10. ASSUME IngestFails(e) PROVE Moves(e, "halt") /\ Kept
  <2>1. Kept
    BY <1>0, <1>1, <1>10, Failing DEF IngestFails, runtimeVars
  <2>2. Goes(e, "halt")
    BY <1>0, <1>10, Going DEF IngestFails
  <2> QED BY <1>10, <2>1, <2>2 DEF IngestFails, Moves, Taken, HoldsSlot, InFlight, Working
<1>11. ASSUME HaltSession(e) PROVE Moves(e, "release") /\ Kept
  <2>1. Kept
    BY <1>0, <1>1, <1>11 DEF HaltSession, runtimeVars
  <2>2. Goes(e, "release")
    BY <1>0, <1>11, Going DEF HaltSession
  <2> QED BY <1>11, <2>1, <2>2 DEF HaltSession, Moves, Taken, HoldsSlot, InFlight, Working
<1>12. ASSUME Release(e) PROVE Moves(e, "leave") /\ Kept
  <2>1. Kept
    BY <1>0, <1>1, <1>12 DEF Release, runtimeVars
  <2>2. Goes(e, "leave")
    BY <1>0, <1>12, Going DEF Release
  <2> QED BY <1>12, <2>1, <2>2 DEF Release, Moves, Taken, HoldsSlot, InFlight, Working
<1>13. ASSUME Leave(e) PROVE Moves(e, "done") /\ Kept
  <2>1. Kept
    BY <1>0, <1>1, <1>13 DEF Leave, runtimeVars
  <2>2. Goes(e, "done")
    BY <1>0, <1>13, Going DEF Leave
  <2> QED BY <1>13, <2>1, <2>2 DEF Leave, Moves, Taken, HoldsSlot, InFlight, Working
<1>14. ASSUME NEW proposals, Evaluate(e, proposals) PROVE (\E pc \in {"gate", "release"} : Moves(e, pc)) /\ Kept
  <2>1. Kept
    BY <1>0, <1>1, <1>14 DEF Evaluate, runtimeVars
  <2>2. PICK pc \in {"gate", "release"} : Goes(e, pc)
    BY <1>0, <1>14, Going DEF Evaluate
  <2> QED BY <1>14, <2>1, <2>2 DEF Evaluate, Moves, Taken, HoldsSlot, InFlight, Working
<1>15. ASSUME Gate(e) PROVE (\E pc \in {"gate", "decide", "release"} : Moves(e, pc)) /\ Kept
  <2>1. Kept
    BY <1>0, <1>1, <1>15 DEF Gate, runtimeVars
  <2>2. PICK pc \in {"gate", "decide", "release"} : Goes(e, pc)
    BY <1>0, <1>15, Going DEF Gate
  <2> QED BY <1>15, <2>1, <2>2 DEF Gate, Moves, Taken, HoldsSlot, InFlight, Working
<1>16. ASSUME Reject(e) PROVE (\E pc \in {"gate", "release"} : Moves(e, pc)) /\ Kept
  <2>1. Kept
    BY <1>0, <1>1, <1>16 DEF Reject, runtimeVars
  <2>2. PICK pc \in {"gate", "release"} : Goes(e, pc)
    BY <1>0, <1>16, Going DEF Reject
  <2> QED BY <1>16, <2>1, <2>2 DEF Reject, Moves, Taken, HoldsSlot, InFlight, Working
<1>17. ASSUME Approve(e) PROVE (\E pc \in {"execute", "release"} : Moves(e, pc)) /\ Kept
  <2>1. Kept
    BY <1>0, <1>1, <1>17 DEF Approve, runtimeVars
  <2>2. PICK pc \in {"execute", "release"} : Goes(e, pc)
    BY <1>0, <1>17, Going DEF Approve
  <2> QED BY <1>17, <2>1, <2>2 DEF Approve, Moves, Taken, HoldsSlot, InFlight, Working
<1>18. ASSUME Execute(e) PROVE (\E pc \in {"gate", "release", "ingest"} : Moves(e, pc)) /\ Kept
  <2>1. Kept
    BY <1>0, <1>1, <1>18 DEF Execute, runtimeVars
  <2>2. PICK pc \in {"gate", "release", "ingest"} : Goes(e, pc)
    BY <1>0, <1>18, Going DEF Execute
  <2> QED BY <1>18, <2>1, <2>2 DEF Execute, Moves, Taken, HoldsSlot, InFlight, Working
<1>19. ASSUME Feedback(e) PROVE (\E pc \in {"gate", "release"} : Moves(e, pc)) /\ Kept
  <2>1. Kept
    BY <1>0, <1>1, <1>19 DEF Feedback, runtimeVars
  <2>2. PICK pc \in {"gate", "release"} : Goes(e, pc)
    BY <1>0, <1>19, Going DEF Feedback
  <2> QED BY <1>19, <2>1, <2>2 DEF Feedback, Moves, Taken, HoldsSlot, InFlight, Working
<1> QED BY <1>0, <1>2, <1>3, <1>4, <1>5, <1>6, <1>7, <1>8, <1>9, <1>10, <1>11, <1>12, <1>13, <1>14, <1>15, <1>16, <1>17, <1>18, <1>19 DEF ProcessStep

-----------------------------------------------------------------------------
(* The other steps.                                                        *)

\* What a strategy that is held may become.
StaysHeld ==
  \A s \in Strategies :
    /\ strategies[s] \in {"DISABLED", "STOPPING"} => strategies'[s] = strategies[s]
    /\ strategies[s] = "HALTED" => strategies'[s] \in {"HALTED", "REGISTERED", "DISABLED", "STOPPING"}

\* What the start goes through outside its assignment.
StartKept ==
  /\ StartShaped' /\ start'.overtaken = start.overtaken

\* A step of the clock, of a start outside its assignment, of a refresh or of the operator
\* leaves the calls and the shutdown alone.
Aside ==
  /\ StateKept /\ StartKept /\ Restrained(session, session')
  /\ strategies' \in [Strategies -> StrategyStates] /\ StaysHeld
  /\ clock' \in DOMAIN Day
  /\ UNCHANGED <<process, slots, inFlight, shutdown>>

Others ==
  \/ Tick \/ StartFails
  \/ \E isReady \in BOOLEAN, settings \in ControlValues : Start(isReady, settings)
  \/ (\E reply \in Replies : StartSession(reply)) \/ StartSnapshot \/ StartReconcile
  \/ \E isReady \in BOOLEAN, settings \in ControlValues : Refresh(isReady, settings)
  \/ RefreshStep
  \/ \E s \in Strategies : Disable(s) \/ Recover(s)

LEMMA OthersAside == ASSUME Typed, Others PROVE Aside
<1> DEFINE Keeps == strategies' \in [Strategies -> StrategyStates] /\ StaysHeld
<1>1. /\ session \in Sessions /\ state \in RuntimeStates /\ strategies \in [Strategies -> StrategyStates]
      /\ Day \in Seq(Phases) /\ clock \in DOMAIN Day /\ Phase \in Phases
  BY RuntimeAssumption DEF Typed, Phase, RuntimeAssumption
<1>2. /\ Restrained(session, session) /\ Restrained(session, Degrade(session))
      /\ \A reply \in Replies : Restrained(session, Advance(session, Phase, TRUE, reply))
  <2>1. Restrained(session, session)
    BY <1>1 DEF Restrained
  <2>2. "day" \in Replies
    BY DEF Replies
  <2>3. Restrained(session, Degrade(session))
    BY <1>1, <2>2, Advances
  <2>4. ASSUME NEW reply \in Replies PROVE Restrained(session, Advance(session, Phase, TRUE, reply))
    BY <1>1, Advances
  <2> QED BY <2>1, <2>3, <2>4
<1>3. /\ UNCHANGED state => StateKept
      /\ UNCHANGED strategies => Keeps
  BY <1>1 DEF StateKept, StaysHeld
<1>4. ASSUME NEW seen, NEW isReady, NEW settings, strategies' = Reconciled(strategies, seen, isReady, settings)
      PROVE  Keeps
  BY <1>1, <1>4, Reconciliations DEF StaysHeld, Held
<1>0. /\ UNCHANGED start => StartKept
      /\ \A pc : start.pc # "assign" /\ pc \notin {"idle", "assign"} /\ StartGoto(pc) => StartKept
  BY DEF Typed, StartShaped, StartKept, StartGoto
<1>5. CASE Tick
  BY <1>0, <1>1, <1>2, <1>3, <1>5 DEF Tick, Aside, runtimeVars
<1>6. CASE StartFails
  <2>1. StateKept
    BY <1>1, <1>6, Failing DEF StartFails
  <2> QED BY <1>0, <1>1, <1>2, <1>3, <1>6, <2>1 DEF StartFails, Aside
<1>7. ASSUME NEW isReady \in BOOLEAN, NEW settings \in ControlValues, Start(isReady, settings) PROVE Aside
  <2>1. StartKept
    BY <1>7 DEF Start, Typed, StartShaped, StartKept
  <2> QED BY <1>1, <1>2, <1>3, <1>7, <2>1 DEF Start, Aside, runtimeVars
<1>14. ASSUME NEW reply \in Replies, StartSession(reply) PROVE Aside
  <2>1. Restrained(session, session')
    BY <1>2, <1>14 DEF StartSession
  <2> QED BY <1>0, <1>1, <1>3, <1>14, <2>1 DEF StartSession, Aside, runtimeVars
<1>15. CASE StartSnapshot
  <2>1. StartKept
    BY <1>15 DEF StartSnapshot, Typed, StartShaped, StartKept
  <2> QED BY <1>1, <1>2, <1>3, <1>15, <2>1 DEF StartSnapshot, Aside, runtimeVars
<1>16. CASE StartReconcile
  <2>1. Keeps
    BY <1>4, <1>16 DEF StartReconcile
  <2>2. StartKept
    BY <1>16 DEF StartReconcile, IdleStart, Typed, StartShaped, StartKept
  <2> QED BY <1>1, <1>2, <1>3, <1>16, <2>1, <2>2 DEF StartReconcile, Aside, runtimeVars
<1>8. ASSUME NEW isReady \in BOOLEAN, NEW settings \in ControlValues, Refresh(isReady, settings) PROVE Aside
  BY <1>0, <1>1, <1>2, <1>3, <1>8 DEF Refresh, Aside, runtimeVars
<1>9. CASE RefreshAssign
  <2>1. StateKept
    BY <1>1, <1>9 DEF RefreshAssign, Refreshed, StateKept, RuntimeStates
  <2> QED BY <1>0, <1>1, <1>2, <1>3, <1>9, <2>1 DEF RefreshAssign, Aside
<1>10. ASSUME NEW reply \in Replies, RefreshSession(reply) PROVE Aside
  <2>1. Restrained(session, session')
    BY <1>2, <1>10 DEF RefreshSession
  <2> QED BY <1>0, <1>1, <1>3, <1>10, <2>1 DEF RefreshSession, Aside, runtimeVars
<1>11. CASE RefreshSnapshot
  BY <1>0, <1>1, <1>2, <1>3, <1>11 DEF RefreshSnapshot, Aside, runtimeVars
<1>12. CASE Reconcile
  <2>1. Keeps
    BY <1>4, <1>12 DEF Reconcile
  <2> QED BY <1>0, <1>1, <1>2, <1>3, <1>12, <2>1 DEF Reconcile, Aside, runtimeVars
<1>13. ASSUME NEW s \in Strategies, Disable(s) \/ Recover(s) PROVE Aside
  <2>1. Keeps
    BY <1>1, <1>13 DEF Disable, Recover, StaysHeld, StrategyStates
  <2> QED BY <1>0, <1>1, <1>2, <1>3, <1>13, <2>1 DEF Disable, Recover, Aside, runtimeVars
<1> QED BY <1>5, <1>6, <1>7, <1>8, <1>9, <1>10, <1>11, <1>12, <1>13, <1>14, <1>15, <1>16 DEF Others, RefreshStep

\* The assignment of a start, whatever the shutdown has done.
Assigned ==
  /\ StartShaped' /\ start.pc = "assign" /\ start'.pc = "session"
  /\ start'.overtaken = (shutdown.pc \in {"session stop", "done"})
  /\ state' \in {"RUNNING", "DEGRADED"}
  /\ UNCHANGED <<session, strategies, clock, process, slots, inFlight, shutdown>>

LEMMA StartAssigns == ASSUME Typed, StartAssign PROVE Assigned
<1>1. start' = [start EXCEPT !.pc = "session", !.overtaken = shutdown.pc \in {"session stop", "done"}]
  BY DEF StartAssign
<1>2. start' = [pc |-> "session", ready |-> start.ready, controls |-> start.controls,
               session |-> start.session, overtaken |-> shutdown.pc \in {"session stop", "done"}]
  BY <1>1 DEF Typed, StartShaped
<1> DEFINE after == shutdown.pc \in {"session stop", "done"}
<1>3. after \in BOOLEAN
  OBVIOUS
<1> HIDE DEF after
<1>4. StartShaped' /\ start'.pc = "session" /\ start'.overtaken = after
  BY <1>2, <1>3 DEF StartShaped, after
<1> QED BY <1>4 DEF StartAssign, Assigned, after

\* A step of the shutdown moves it on, and what it does to state, session and strategies.
Onwards ==
  /\ shutdown' \in [pc : ShutdownPlaces, clean : BOOLEAN]
  /\ state' \in RuntimeStates /\ session' \in Sessions
  /\ strategies' \in [Strategies -> StrategyStates] /\ StaysHeld
  /\ Progress'
  /\ state \in {"DRAINING", "STOPPED"} => state' \in {"DRAINING", "STOPPED"} /\ (state = "STOPPED" => state' = "STOPPED")
  /\ session.state \in {"DRAINING", "STOPPED"} =>
       session'.state \in {"DRAINING", "STOPPED"} /\ (session.state = "STOPPED" => session'.state = "STOPPED")
  /\ UNCHANGED <<process, slots, inFlight, clock, start>>

LEMMA ShutdownOnwards == ASSUME Typed, Progress, Shutdown \/ ShutdownStep PROVE Onwards
<1> USE DEF Progress
<1>1. /\ shutdown \in [pc : ShutdownPlaces, clean : BOOLEAN]
      /\ state \in RuntimeStates /\ session \in Sessions /\ strategies \in [Strategies -> StrategyStates]
      /\ {"DRAINING", "STOPPED"} \subseteq RuntimeStates
  BY DEF Typed, RuntimeStates
<1>2. UNCHANGED strategies => strategies' \in [Strategies -> StrategyStates] /\ StaysHeld
  BY <1>1 DEF StaysHeld
<1>3. CASE Shutdown
  BY <1>1, <1>2, <1>3 DEF Shutdown, Onwards, ShutdownGoto, ShutdownPlaces, Drained, Halted, runtimeVars
<1>4. CASE DrainSession
  <2>1. session' \in Sessions
    BY <1>1, <1>4, Drains DEF DrainSession
  <2> QED BY <1>1, <1>2, <1>4, <2>1, Drains DEF DrainSession, Onwards, ShutdownGoto, ShutdownPlaces, Drained, Halted, runtimeVars
<1>5. CASE StopStrategies
  <2>1. strategies' \in [Strategies -> StrategyStates] /\ StaysHeld
    BY <1>1, <1>5 DEF StopStrategies, StaysHeld, StrategyStates
  <2> QED BY <1>1, <1>2, <1>5, <2>1 DEF StopStrategies, Onwards, ShutdownGoto, ShutdownPlaces, Drained, Halted, runtimeVars
<1>6. CASE Cancel
  BY <1>1, <1>2, <1>6 DEF Cancel, Onwards, ShutdownGoto, ShutdownPlaces, Drained, Halted, runtimeVars
<1>7. CASE Waited
  BY <1>1, <1>2, <1>7 DEF Waited, Onwards, ShutdownGoto, ShutdownPlaces, Drained, Halted, runtimeVars
<1>8. CASE WaitTimedOut
  BY <1>1, <1>2, <1>8 DEF WaitTimedOut, Onwards, ShutdownGoto, ShutdownPlaces, Drained, Halted, runtimeVars
<1>9. ASSUME NEW ok \in BOOLEAN, Checkpoint(ok) PROVE Onwards
  BY <1>1, <1>2, <1>9 DEF Checkpoint, Onwards, ShutdownGoto, ShutdownPlaces, Drained, Halted, runtimeVars
<1>10. CASE Stopped
  BY <1>1, <1>2, <1>10 DEF Stopped, Onwards, ShutdownGoto, ShutdownPlaces, Drained, Halted, runtimeVars
<1>11. CASE StopSession
  <2>1. session' \in Sessions
    BY <1>1, <1>11, Drains DEF StopSession
  <2> QED BY <1>1, <1>2, <1>11, <2>1, Drains DEF StopSession, Onwards, ShutdownGoto, ShutdownPlaces, Drained, Halted, runtimeVars
<1> QED BY <1>3, <1>4, <1>5, <1>6, <1>7, <1>8, <1>9, <1>10, <1>11 DEF ShutdownStep

-----------------------------------------------------------------------------
(* The invariant.                                                          *)

LEMMA InitRuntime == Init => RuntimeInv
<1> SUFFICES ASSUME Init PROVE RuntimeInv
  OBVIOUS
<1>1. Typed
  <2>1. \A e \in Events : process[e] = IdleProcess
    BY DEF Init
  <2>2. Shaped(IdleProcess)
    BY DEF Shaped, IdleProcess, ProcessPlaces
  <2>3. process = [e \in Events |-> process[e]] /\ \A e \in Events : Shaped(process[e])
    BY <2>1, <2>2 DEF Init
  <2>4. /\ state \in RuntimeStates /\ session \in Sessions /\ strategies \in [Strategies -> StrategyStates]
        /\ clock \in DOMAIN Day /\ shutdown \in [pc : ShutdownPlaces, clean : BOOLEAN]
    BY DEF Init, RuntimeStates, Sessions, SessionStates, StrategyStates, ShutdownPlaces
  <2>5. StartShaped
    BY DEF Init, IdleStart, StartShaped
  <2> QED BY <2>3, <2>4, <2>5 DEF Typed
<1>2. Progress
  BY DEF Init, IdleStart, Progress, Drained, Halted
<1>3. Counts
  <2>1. In(process, HoldsSlot) = {} /\ In(process, InFlight) = {}
    BY DEF Init, In, HoldsSlot, InFlight, Working, IdleProcess
  <2>2. 0 \in 0..AdmissionLimit
    BY RuntimeAssumption DEF RuntimeAssumption
  <2>3. slots = 0 /\ inFlight = 0
    BY DEF Init
  <2> QED BY <2>1, <2>2, <2>3, FS_EmptySet DEF Counts
<1> QED BY <1>1, <1>2, <1>3 DEF RuntimeInv

LEMMA Stuttering == ASSUME UNCHANGED vars, RuntimeInv PROVE RuntimeInv'
BY DEF vars, RuntimeInv, Typed, StartShaped, Progress, Counts, In

\* A step of Next is one of a call, of the shutdown, the assignment of the start, or aside
\* of all.
LEMMA StepKinds ==
  ASSUME Next
  PROVE  Others \/ StartAssign \/ (\E e \in Events : Process(e) \/ ProcessStep(e)) \/ Shutdown \/ ShutdownStep
BY DEF Next, Others, StartStep

LEMMA CallKeeps ==
  ASSUME RuntimeInv, NEW e \in Events, Process(e) \/ ProcessStep(e)
  PROVE  RuntimeInv'
<1>1. Typed /\ Progress /\ Counts
  BY DEF RuntimeInv
<1>2. slots \in Nat /\ inFlight \in Nat
  BY <1>1, FS_CardinalityType DEF Counts
<1>3. /\ StateKept /\ Restrained(session, session')
      /\ UNCHANGED <<strategies, clock, start, shutdown>>
  BY <1>1, <1>2, ProcessMoves
<1>4. PICK pc \in ProcessPlaces : Moves(e, pc)
  BY <1>1, <1>2, ProcessMoves
<1>5. PICK r : process' = [process EXCEPT ![e] = r] /\ Shaped(r) /\ r.pc = pc
  BY <1>4 DEF Moves, Goes
<1>6. Typed'
  <2>1. process = [x \in Events |-> process[x]] /\ \A x \in Events : Shaped(process[x])
    BY <1>1 DEF Typed
  <2>2. \A x \in Events : process'[x] = IF x = e THEN r ELSE process[x]
    BY <1>5, <2>1
  <2>3. process' = [x \in Events |-> process'[x]] /\ \A x \in Events : Shaped(process'[x])
    BY <1>5, <2>1, <2>2
  <2>4. /\ state' \in RuntimeStates /\ session' \in Sessions /\ strategies' \in [Strategies -> StrategyStates]
        /\ clock' \in DOMAIN Day /\ shutdown' \in [pc : ShutdownPlaces, clean : BOOLEAN]
    BY <1>1, <1>3 DEF Typed, StateKept, Restrained
  <2>5. StartShaped'
    BY <1>1, <1>3 DEF Typed, StartShaped
  <2> QED BY <2>3, <2>4, <2>5 DEF Typed, Shaped
<1>7. Progress'
  BY <1>1, <1>3 DEF Progress, StateKept, Restrained
<1>8. Counts'
  <2>1. process = [x \in Events |-> process[x]]
    BY <1>1 DEF Typed
  <2>2. /\ IsFiniteSet(In(process', HoldsSlot))
        /\ Cardinality(In(process', HoldsSlot)) =
             slots + Taken(pc, HoldsSlot) - Taken(process[e].pc, HoldsSlot)
        /\ Cardinality(In(process', HoldsSlot)) \in Nat
    BY <1>1, <1>5, <2>1, Counted DEF Counts
  <2>3. /\ IsFiniteSet(In(process', InFlight))
        /\ Cardinality(In(process', InFlight)) =
             inFlight + Taken(pc, InFlight) - Taken(process[e].pc, InFlight)
    BY <1>1, <1>5, <2>1, Counted DEF Counts
  <2>4. slots' = Cardinality(In(process', HoldsSlot)) /\ inFlight' = Cardinality(In(process', InFlight))
    BY <1>4, <2>2, <2>3 DEF Moves
  <2>5. slots' \in 0..AdmissionLimit
    <3>1. slots' \in Nat /\ slots \in 0..AdmissionLimit /\ AdmissionLimit \in Nat
      BY <1>1, <2>2, <2>4, RuntimeAssumption DEF Counts, RuntimeAssumption
    <3>2. slots' <= slots + 1 /\ (slots' > slots => slots < AdmissionLimit)
      BY <1>2, <1>4 DEF Moves, Taken
    <3> QED BY <3>1, <3>2
  <2> QED BY <2>2, <2>3, <2>4, <2>5 DEF Counts, In
<1> QED BY <1>6, <1>7, <1>8 DEF RuntimeInv

LEMMA OthersKeep == ASSUME RuntimeInv, Others PROVE RuntimeInv'
<1>1. Typed /\ Progress /\ Counts /\ Aside
  BY OthersAside DEF RuntimeInv
<1>2. Typed'
  BY <1>1 DEF Typed, Aside, StateKept, StartKept, Restrained
<1>3. Progress'
  BY <1>1 DEF Progress, Aside, StateKept, StaysHeld, StartKept, Restrained
<1>4. Counts'
  BY <1>1 DEF Counts, Aside, In
<1> QED BY <1>2, <1>3, <1>4 DEF RuntimeInv

LEMMA AssignKeeps == ASSUME RuntimeInv, StartAssign PROVE RuntimeInv'
<1>1. Typed /\ Progress /\ Counts /\ Assigned
  BY StartAssigns DEF RuntimeInv
<1>2. Typed'
  BY <1>1 DEF Typed, Assigned, RuntimeStates
<1>3. Progress'
  BY <1>1 DEF Typed, Progress, Assigned
<1>4. Counts'
  BY <1>1 DEF Counts, Assigned, In
<1> QED BY <1>2, <1>3, <1>4 DEF RuntimeInv

LEMMA ShutdownKeeps == ASSUME RuntimeInv, Shutdown \/ ShutdownStep PROVE RuntimeInv'
<1>1. Typed /\ Counts /\ Onwards
  BY ShutdownOnwards DEF RuntimeInv
<1>2. Typed'
  BY <1>1 DEF Typed, StartShaped, Onwards
<1>3. Counts'
  BY <1>1 DEF Counts, Onwards, In
<1> QED BY <1>1, <1>2, <1>3 DEF RuntimeInv, Onwards

LEMMA StepRuntime == RuntimeInv /\ [Next]_vars => RuntimeInv'
BY Stuttering, StepKinds, CallKeeps, OthersKeep, AssignKeeps, ShutdownKeeps

LEMMA AlwaysRuntime == Spec => []RuntimeInv
BY InitRuntime, StepRuntime, PTL DEF Spec

\* Whatever the stages of the calls answer and in whatever order the calls run, the
\* semaphore and the wait group hold exactly the calls between taking and giving back,
\* and never more than the admission limit (Runtime.Process and its deferred function).
THEOREM PlacesAreCounted == Spec => []TypeOK
<1>1. RuntimeInv => TypeOK
  BY DEF RuntimeInv, Typed, Counts, TypeOK, Sessions, In, HoldsSlot, InFlight
<1> QED BY <1>1, AlwaysRuntime, PTL

\* A shutdown that has returned has stopped the session and every strategy, whatever a
\* start, a refresh, a failing event or an operator did meanwhile, and the runtime unless
\* a start assigned the state after it had stopped (Runtime.Shutdown, Start).
ShutdownIsComplete ==
  shutdown.pc = "done" =>
    /\ session.state = "STOPPED"
    /\ \A s \in Strategies : strategies[s] \in {"DISABLED", "STOPPING"}
    /\ state = "STOPPED" \/ start.overtaken

THEOREM ReturnedMeansStopped == Spec => []ShutdownIsComplete
<1>1. RuntimeInv => ShutdownIsComplete
  BY DEF RuntimeInv, Progress, Halted, ShutdownIsComplete
<1> QED BY <1>1, AlwaysRuntime, PTL

-----------------------------------------------------------------------------
(* What a step may never do.                                               *)

\* The body of DrainIsFinal.
NeverReturns ==
  /\ start.pc # "assign" \/ start'.pc = "assign" =>
       /\ state = "DRAINING" => state' \in {"DRAINING", "STOPPED"}
       /\ state = "STOPPED" => state' = "STOPPED"
  /\ session.state = "DRAINING" => session'.state \in {"DRAINING", "STOPPED"}
  /\ session.state = "STOPPED" => session'.state = "STOPPED"
  /\ \A s \in Strategies : strategies[s] = "STOPPING" => strategies'[s] = "STOPPING"

LEMMA StepDrains == ASSUME RuntimeInv, [Next]_vars PROVE NeverReturns /\ StaysHeld
<1>1. Typed /\ Progress /\ Counts
  BY DEF RuntimeInv
<1>2. CASE UNCHANGED vars
  BY <1>2 DEF vars, NeverReturns, StaysHeld
<1>3. CASE Others
  <2>1. Aside
    BY <1>1, <1>3, OthersAside
  <2> QED BY <2>1 DEF Aside, StateKept, Restrained, StaysHeld, NeverReturns
<1>4. ASSUME NEW e \in Events, Process(e) \/ ProcessStep(e) PROVE NeverReturns /\ StaysHeld
  <2>1. slots \in Nat /\ inFlight \in Nat
    BY <1>1, FS_CardinalityType DEF Counts
  <2>2. StateKept /\ Restrained(session, session') /\ UNCHANGED strategies
    BY <1>1, <1>4, <2>1, ProcessMoves
  <2> QED BY <2>2 DEF StateKept, Restrained, StaysHeld, NeverReturns
<1>5. CASE Shutdown \/ ShutdownStep
  <2>1. Onwards
    BY <1>1, <1>5, ShutdownOnwards
  <2> QED BY <2>1 DEF Onwards, StaysHeld, NeverReturns
<1>6. CASE StartAssign
  <2>1. Assigned
    BY <1>1, <1>6, StartAssigns
  <2> QED BY <2>1 DEF Assigned, StaysHeld, NeverReturns
<1> QED BY <1>2, <1>3, <1>4, <1>5, <1>6, StepKinds

\* Nothing that runs beside a shutdown brings the session or a strategy back, and nothing
\* but the assignment of a start under way the runtime (Runtime.fail, Start, Refresh,
\* legalSessionTransition, StrategyManager.Reconcile).
THEOREM DrainingIsFinal == Spec => DrainIsFinal
<1>1. RuntimeInv /\ [Next]_vars => [NeverReturns]_vars
  BY StepDrains
<1>2. [][NeverReturns]_vars => DrainIsFinal
  BY PTL DEF DrainIsFinal, NeverReturns
<1> QED BY <1>1, <1>2, AlwaysRuntime, PTL DEF Spec

\* Only Recover takes up a halted strategy, and nothing a disabled one, although every
\* refresh reconciles all strategies (StrategyManager.Reconcile, Recover, setExplicit).
THEOREM HeldStrategiesStayHeld == Spec => StrategiesStayHeld
<1> DEFINE Body == \A s \in Strategies :
       /\ strategies[s] = "HALTED" => strategies'[s] \in {"HALTED", "REGISTERED", "DISABLED", "STOPPING"}
       /\ strategies[s] = "DISABLED" => strategies'[s] = "DISABLED"
<1>1. RuntimeInv /\ [Next]_vars => [Body]_vars
  BY StepDrains DEF StaysHeld
<1>2. [][Body]_vars => StrategiesStayHeld
  BY PTL DEF StrategiesStayHeld
<1> QED BY <1>1, <1>2, AlwaysRuntime, PTL DEF Spec

\* Where a session may go after the close.
Closing == {"CLOSING", "CLOSED", "DEGRADED", "HALTED", "DRAINING", "STOPPED"}

LEMMA ClosesOnly ==
  ASSUME Typed, Next, Phase = "AFTER"
  PROVE  session'.state \in {session.state} \cup Closing
<1> DEFINE Closes(t) == t.state \in {session.state} \cup Closing
<1>1. session \in Sessions /\ "AFTER" \in Phases
  BY DEF Typed, Phases
<1>2. ASSUME NEW to \in Closing, NEW regime PROVE Closes(transitionLocked(session, to, regime))
  BY <1>2 DEF transitionLocked
<1>3. Closes(Degrade(session)) /\ Closes(Halt(session)) /\ Closes(Drain(session)) /\ Closes(Stop(session))
  BY <1>2 DEF Closing, Degrade, Halt, Drain, Stop
<1>4. ASSUME NEW reply \in Replies PROVE Closes(Advance(session, Phase, TRUE, reply))
  <2> DEFINE desired == classifySession("AFTER", TRUE, session.state)
  <2>1. desired.state \in Closing /\ "HALTED" \in Closing
    BY DEF classifySession, Closing
  <2> HIDE DEF desired
  <2>2. /\ Closes(transitionLocked(session, desired.state, desired.regime))
        /\ Closes(transitionLocked(session, "HALTED", "none"))
    BY <1>2, <2>1
  <2> HIDE DEF Closes
  <2>3. Advance(session, Phase, TRUE, reply) =
          CASE reply = "day" -> transitionLocked(session, desired.state, desired.regime)
            [] reply = "unavailable" -> transitionLocked(session, "HALTED", "none")
            [] reply = "cancelled" -> session
    BY DEF Advance, desired
  <2>4. Closes(session)
    BY DEF Closes
  <2>5. CASE reply = "day"
    BY <2>2, <2>3, <2>5
  <2>6. CASE reply = "unavailable"
    BY <2>2, <2>3, <2>6
  <2>7. CASE reply = "cancelled"
    BY <2>3, <2>4, <2>7
  <2> QED BY <2>5, <2>6, <2>7 DEF Replies
<1>5. CASE UNCHANGED session
  BY <1>5
<1>6. CASE session' \in {Degrade(session), Halt(session), Drain(session), Stop(session)}
  BY <1>3, <1>6
<1>7. ASSUME NEW reply \in Replies, session' = Advance(session, Phase, TRUE, reply)
      PROVE  session'.state \in {session.state} \cup Closing
  BY <1>4, <1>7
<1>8. \/ UNCHANGED session
      \/ session' \in {Degrade(session), Halt(session), Drain(session), Stop(session)}
      \/ \E reply \in Replies : session' = Advance(session, Phase, TRUE, reply)
  <2>1. CASE StartStep
    BY <2>1 DEF StartStep, StartAssign, StartSession, StartSnapshot, StartReconcile, runtimeVars
  <2>2. CASE RefreshStep
    BY <2>2 DEF RefreshStep, RefreshAssign, RefreshSession, RefreshSnapshot, Reconcile, runtimeVars
  <2>3. CASE \/ Tick \/ StartFails
             \/ \E isReady \in BOOLEAN, settings \in ControlValues : Start(isReady, settings)
             \/ \E isReady \in BOOLEAN, settings \in ControlValues : Refresh(isReady, settings)
             \/ \E s \in Strategies : Disable(s) \/ Recover(s)
    BY <2>3 DEF Tick, StartFails, Start, Refresh, Disable, Recover, runtimeVars
  <2>4. ASSUME NEW e \in Events, Process(e) \/ ProcessStep(e)
        PROVE  UNCHANGED session \/ session' \in {Degrade(session), Halt(session)}
    BY <2>4 DEF Process, ProcessStep, Admit, AdmitCancelled, Backpressure, BackpressureSession, Enter, StageFails,
                Evaluate, Gate, Reject, Approve, Execute, Ingest, IngestFails, HaltSession, Feedback, Release, Leave
  <2>5. CASE Shutdown \/ ShutdownStep
    BY <2>5 DEF Shutdown, ShutdownStep, DrainSession, StopStrategies, Cancel, Waited, WaitTimedOut, Checkpoint,
                Stopped, StopSession
  <2> QED BY <2>1, <2>2, <2>3, <2>4, <2>5 DEF Next
<1> QED BY <1>5, <1>6, <1>7, <1>8

\* After the last session of the day nothing starts to trade, whatever a refresh that was
\* under way at the close finds (classifySession, SessionCoordinator.Advance).
THEOREM ClosedStaysClosed == Spec => NoTradingAfterClose
<1> DEFINE Body == Phase = "AFTER" /\ session'.state # session.state =>
       session'.state \notin {"READY", "WARMING_UP", "NORMAL_TRADING", "PRE_CAS", "CAS_ACTIVE", "POST_CAS"}
<1>1. RuntimeInv /\ [Next]_vars => [Body]_vars
  BY ClosesOnly DEF RuntimeInv, Closing
<1>2. [][Body]_vars => NoTradingAfterClose
  BY PTL DEF NoTradingAfterClose
<1> QED BY <1>1, <1>2, AlwaysRuntime, PTL DEF Spec

\* The two together, for any trading day.
THEOREM DaysAreKept == Spec => DayIsKept
BY HeldStrategiesStayHeld, ClosedStaysClosed DEF DayIsKept

=============================================================================
