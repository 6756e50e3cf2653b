SPECIFICATION Spec
CONSTANTS
  Tasks = {"codexTask", "legacyTask"}
  Requests = {"c1", "l1", "l2"}
  TaskOf <- MCTaskOf
  Runtime <- MCRuntime
  Ceiling <- MCCeiling
  Costs = {14}
  Openings = {3, 4}
  ConcurrencyLimit = 1
  MaxFaults = 1
INVARIANTS
  ShownIsBilled
  OneReceiptUnbilled
  OneFailureIsRetried
PROPERTIES
  ImplementsBill
  ImplementsAccount
CHECK_DEADLOCK FALSE
