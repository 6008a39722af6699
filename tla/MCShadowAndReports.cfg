SPECIFICATION PartSpec
CONSTANTS
  Nothing = Nothing
  NoCandle = NoCandle
  NoEvidence = NoEvidence
  Valuers = {"c", "d"}
  Portfolios <- ValuationPortfolios
  Books <- ValuationBooks
  Quotes <- ValuationQuotes
  MaxInt = 40
  MaxConcurrency = 1
  MaxAge = 1
  Skew = 0
  HistoryCapacity = 2
  MaxValueTime = 2
  MaxValueCalls = 3
  Checkers = {"c", "d"}
  Observations <- ReconciliationObservations
  Modes = {"PAPER", "SHADOW"}
  LedgerStates <- ReconciliationLedger
  MaximumAge = 1
  EvidenceLimit = 2
  MaxCheckTime = 2
  MaxChecks = 2
INVARIANTS ShadowAndReportsInv ValuationInv ReconciliationInv
CHECK_DEADLOCK FALSE
