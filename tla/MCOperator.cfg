SPECIFICATION PartSpec
CONSTANTS
  Requests = {"r1", "r2", "r3"}
  Reasons = {"policy"}
  MaxCommands = 2
  MaxConflicts = 2
  MaxCrashes = 1
  MaxFaults = 1
  Nothing = Nothing
INVARIANTS ControllerInv LatchIsDurable EODHasRunner ProgramInv
PROPERTIES EODEnds
CHECK_DEADLOCK FALSE
