SPECIFICATION Spec
CONSTANTS
  Actions = {"write", "install", "wipe"}
  Kind <- MCKind
  Policy <- MCPolicy
  Charges = {1, 2}
  MaxModelCalls = 3
  MaxRepairs = 1
  MaxCommands = 1
  MaxEstimatedCost = 1
  Allowance = 1
  MaxCheckpoints = 1
  MaxSpend = 4
INVARIANTS
  NothingUnapproved
  OutcomeAgrees
PROPERTIES
  TransitionsAllowed
  SpendingApproved
  NothingAfterStop
  StoppedIsNotFailed
  Terminates
CHECK_DEADLOCK FALSE
