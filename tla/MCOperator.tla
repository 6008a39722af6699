------------------------------ MODULE MCOperator ------------------------------
(* What the operator works with, side by side: the control API of a running process, the
   control plane that starts one, the authorization of a session, the scorecard over the
   validated days and the offline backtest.  In a behaviour one of them moves, `part' says which, and the
   others stay where they begin. *)
EXTENDS OperatorControl

CONSTANT Nothing

VARIABLES part,
  \* the control plane
  clock, file, session, inflight, caller, startup, prepared, artifacts, selectors, runtime,
  startups, restarts,
  \* the authorization of a session
  time, files, bundles, evidence, manifests, gates, day1, process, sessions, readiness, reports,
  edits,
  \* the scorecard
  records, drafts, scorecard, corrections,
  \* the backtest
  dataset, direction, engine, summary

\* Two requests, with two tokens of the operator's login, on two trading days.
StartupCallers == {"h1", "h2"}
StartupTokens == {"t", "u"}
StartupTradingDays == {0, 1}

Startup == INSTANCE OperatorStartup WITH
  Callers <- StartupCallers, Cli <- "cli", Tokens <- StartupTokens, TradingDays <- StartupTradingDays,
  MaxDay <- 1, MaxRequests <- 2, MaxRestarts <- 1, requests <- startups

\* Two bundles and two manifests for two days; one file changes on the way.
AuthorizationInputs == {"calendar", "settings"}
ValidationModes == {"PAPER", "SHADOW"}

Fact(defect, incident, proposals, executions, pnl) ==
  [defect |-> defect, incident |-> incident, proposals |-> proposals, executions |-> executions,
   pnl |-> pnl]

\* Two dates in two modes; the facts of one record are edited.
ScorecardDates == {1, 2}
ScorecardFacts ==
  {Fact(FALSE, FALSE, 1, 1, "INR"), Fact(FALSE, FALSE, 0, 1, "none"),
   Fact(FALSE, FALSE, 0, 0, "USD"), Fact(FALSE, TRUE, 0, 0, "none"), Fact(TRUE, TRUE, 1, 1, "none")}
ScorecardEditable == {"facts"}

Validation == INSTANCE SessionAuthorization WITH
  Inputs <- AuthorizationInputs, Modes <- ValidationModes, MaxTime <- 2, MaxEdits <- 1,
  MaxBundles <- 2, MaxManifests <- 2, MaxSessions <- 1, runtime <- process,
  Dates <- ScorecardDates, Facts <- ScorecardFacts, Editable <- ScorecardEditable,
  MaxCorrections <- 1, MinimumValid <- 2, MinimumPerMode <- 1, Consecutive <- 2, Target <- 3,
  MaximumRecords <- 3, ExecutionSample <- 2

\* Quotes of one instrument at distinct and at equal times, with no book and with a last price
\* outside of it; two instruments in turn; datasets that are refused or overflow.
NoBook == -1
Observation(instrument, at, hash, quote) ==
  [instrument |-> instrument, at |-> at, hash |-> hash, price |-> quote[1], bid |-> quote[2],
   ask |-> quote[3]]
Low == <<2, 1, 2>>
High == <<6, 6, 6>>
QuoteTimes == {<<1, 2, 3, 4, 5>>, <<1, 2, 3, 3, 4>>, <<1, 1, 2, 3, 3>>}
Alone ==
  {[i \in 1..5 |-> Observation("a", t[i], i, q[i])] :
     t \in QuoteTimes, q \in [1..5 -> {Low, High, <<6, NoBook, NoBook>>, <<3, 4, 5>>}]}
InTurn ==
  {[i \in 1..8 |-> Observation(IF i % 2 = 0 THEN "a" ELSE "b", (i + 1) \div 2, 9 - i, q[(i + 1) \div 2])] :
     q \in [1..4 -> {Low, High}]}
Refused ==
  {<<Observation("a", 1, 1, <<3, 4, 2>>)>>, <<Observation("b", 0, 1, Low)>>,
   <<Observation("a", 2, 2, Low), Observation("a", 1, 1, <<8, 2, 9>>)>>,
   <<Observation("a", 1, 1, Low), Observation("a", 1, 1, Low)>>}
BacktestDatasets == Alone \cup InTurn \cup Refused
BacktestAvailable == [a |-> 0, b |-> 1]
BacktestDirections == {"BUY", "SELL"}
Rate(numerator, denominator, base, ceil) ==
  [numerator |-> numerator, denominator |-> denominator, base |-> base, ceil |-> ceil]
Free == Rate(0, 1, "TOTAL_NOTIONAL", FALSE)
BacktestRates ==
  <<Rate(1, 10, "TOTAL_NOTIONAL", TRUE), Rate(1, 8, "SELL_NOTIONAL", FALSE), Free, Free,
    Rate(1, 2, "PRIOR_CHARGES", TRUE), Rate(1, 9, "BUY_NOTIONAL", FALSE)>>

Backtest == INSTANCE Backtest WITH
  Datasets <- BacktestDatasets, AvailableFrom <- BacktestAvailable, Directions <- BacktestDirections,
  StartingCapital <- 20, Quantity <- 2, SlippageBPS <- 1000, Rates <- BacktestRates, MaxInt <- 4000000

StartupVars == <<clock, file, session, inflight, caller, startup, prepared, artifacts, selectors,
                 runtime, startups, restarts>>
AuthorizationVars == <<time, files, bundles, evidence, manifests, gates, day1, process, sessions,
                       readiness, reports, edits>>
ScorecardVars == <<records, drafts, scorecard, corrections>>
BacktestVars == <<dataset, direction, engine, summary>>

PartInit ==
  /\ part \in {"control", "startup", "authorization", "scorecard", "backtest"}
  /\ Init /\ Startup!Init /\ Validation!Init /\ Validation!ScorecardInit /\ Backtest!Init
  /\ part # "startup" => ~clock.late /\ file = 0
  /\ part # "backtest" => dataset = <<Observation("b", 0, 1, Low)>> /\ direction = "BUY"

PartNext ==
  \/ part = "control" /\ Next /\ UNCHANGED <<part, StartupVars, AuthorizationVars, ScorecardVars, BacktestVars>>
  \/ part = "startup" /\ Startup!Next /\ UNCHANGED <<part, vars, AuthorizationVars, ScorecardVars, BacktestVars>>
  \/ part = "authorization" /\ Validation!Next /\ UNCHANGED <<part, vars, StartupVars, ScorecardVars, BacktestVars>>
  \/ part = "scorecard" /\ Validation!ScorecardNext /\ UNCHANGED <<part, vars, StartupVars, AuthorizationVars, BacktestVars>>
  \/ part = "backtest" /\ Backtest!Next /\ UNCHANGED <<part, vars, StartupVars, AuthorizationVars, ScorecardVars>>

\* The fairness of OperatorControl; `part' in front only tells that it moves at all.
PartSpec ==
  /\ PartInit /\ [][PartNext]_<<part, vars, StartupVars, AuthorizationVars, ScorecardVars, BacktestVars>>
  /\ \A r \in Requests : WF_vars(part = "control" /\ RunnerStep(r))
  /\ WF_vars(part = "control" /\ \E ok \in BOOLEAN : DrainEnds(ok))

-----------------------------------------------------------------------------
\* A session runs on what it was authorized for, a start uses the login and the files of
\* its date, the scorecard counts what was recorded (startup.Service, marketvalidation's
\* manifest, gates and scorecard), and a backtest sees no future and counts its money once
\* (research engine.go, report.go).
ProgramInv ==
  /\ part = "startup" => Startup!StartupInv
  /\ part = "authorization" => Validation!AuthorizationInv
  /\ part = "scorecard" => Validation!ScorecardInv
  /\ part = "backtest" => Backtest!BacktestInv
==============================================================================
