SPECIFICATION PartSpec
CONSTANTS
  Nothing = Nothing
  Orders <- MCOrders
  Quantity <- MCQuantity
  Scripts <- MCScripts
  MaxTime = 0
  Plans <- MCTwoPlans
  Legs <- MCOneLeg
  DependsOn <- MCIndependent
  Workers = {"w1", "w2"}
  Times = {1}
  MaxConcurrentPlans = 1
  KnownNotSentRetries = 1
  EventBatchSize = 2
  MaxCancels = 1
  MaxFaults = 1
  MaxCrashes = 1
  Reconciles = FALSE
  Shutdowns = TRUE
PROPERTIES CallsReturn ShutdownCompletes StartupEnds StopsEnd
CHECK_DEADLOCK FALSE
