SPECIFICATION PartSpec
CONSTANTS
  Capacity = 2
  Scenarios <- MCScenarios
  Sources <- MCSources
  Latenesses = {0, 1, 3}
  Windows = {1, 2}
  Requests <- MCRequests
  MaxRevision = 2
  MaxDatasets = 2
  MaxGenerations = 2
  MaxFaults = 1
  ClientIDs = {"c1", "c2"}
  Terms = {"a", "b"}
  OrderQuantity = 2
  MaxExecutionEvents = 3
  MaxOrders = 2
  Budgets <- ExecutionBudgets
  Nothing = Nothing
INVARIANTS MarketDataInv PublicationInv BrokerInv ExecutionAdapterInv
CHECK_DEADLOCK FALSE
