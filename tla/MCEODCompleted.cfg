SPECIFICATION Spec
CONSTANTS
  Requests = {"r1", "r2", "r3"}
  Reasons = {"policy"}
  MaxCommands = 2
  MaxConflicts = 2
  MaxCrashes = 1
  MaxFaults = 1
INVARIANTS CompletedMeansDrained
CHECK_DEADLOCK FALSE
