SPECIFICATION FairPartSpec
CONSTANTS
  Parts = {"load", "close"}
  Callers = {"c1", "c2"}
  Frames = {"f1", "f2"}
  Lifecycles = {"ACTIVE", "SUSPENDED"}
  Kinds = {"TRADE_PROPOSAL"}
  MaxConcurrency = 1
  MaxEvaluations = 2
  MaxGeneration = 2
  NoCall = "nobody"
  Instruments = {"i1", "i2"}
  Instrument <- MCInstrument
  Sizing <- MCSizing
  PackageCost = 1
  LotSize = 2
  RiskProposals <- MCProposals
  Deciders = {"d1", "d2"}
  Times = {1}
  Configurations <- MCConfigurations
  RiskPolicies <- MCPolicies
  Genesis <- MCGenesis
  MaxDeciding = 1
  MaxPublications = 2
  MaxRestarts = 1
  Nobody = "nobody"
  Strategies = {"restricted"}
  Policy <- OnePolicy
  AdmissionLimit = 1
  Day <- CloseOfDay
  Events = {"e1", "e2"}
  Proposals <- NothingOrBoth
  ControlValues <- SomeControls
  MaxRefreshes = 1
INVARIANT TypeOK
PROPERTIES DrainIsFinal EventsLeave ShutdownStops
CHECK_DEADLOCK FALSE
