SPECIFICATION StreamSpec
CONSTANTS
  Orders <- MCOrders
  Quantity <- MCQuantity
  Scripts <- MCFillScripts
  MaxTime = 1
  Plans <- MCPlans
  Legs <- MCLegs
  DependsOn <- MCDependsOn
  Workers = {"w1"}
  Times = {1}
  MaxConcurrentPlans = 1
  KnownNotSentRetries = 1
  EventBatchSize = 2
  MaxCancels = 0
  MaxFaults = 0
  MaxCrashes = 0
  Reconciles = TRUE
  Shutdowns = FALSE
INVARIANTS DuplicatesHarmless
CHECK_DEADLOCK FALSE
