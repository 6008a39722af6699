SPECIFICATION PartSpec
CONSTANTS
  Orders <- MCOrders
  Quantity <- MCQuantity
  Scripts <- MCScripts
  MaxTime = 1
  Plans <- MCPlans
  Legs <- MCLegs
  DependsOn <- MCDependsOn
  Workers = {"w1"}
  Times = {1}
  MaxConcurrentPlans = 1
  KnownNotSentRetries = 1
  EventBatchSize = 2
  MaxCancels = 1
  MaxFaults = 2
  MaxCrashes = 1
  Reconciles = TRUE
  Shutdowns = FALSE
INVARIANTS NoResubmission SellsAreProtected BrokerEvidence ExecutionsBooked CleanReconciliation CoordinatorInv
CHECK_DEADLOCK FALSE
