SPECIFICATION SmallSpec
CONSTANTS
  o1 = o1
  w1 = w1
  w2 = w2
  r1 = r1
  r2 = r2
  r3 = r3
  r4 = r4
  f1 = f1
  f2 = f2
  Orders <- MCOrders
  Quantity <- MCQuantity
  ReportIDs <- MCReportIDs
  FillIDs <- MCFillIDs
  BrokerIDs = {}
  Types <- MCTypes
  Publishers <- MCPublishers
  MaxReports = 4
  MaxFills = 2
SYMMETRY Symmetry
INVARIANTS StoreInv NothingLost RestoreTellsTorn
PROPERTIES OrdersAdvance ImplementsLedger
CHECK_DEADLOCK FALSE
