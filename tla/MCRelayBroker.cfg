SPECIFICATION Spec
CONSTANTS
  Sessions = {"s1", "s2"}
  Grants <- MCGrants
  prompt = prompt
  stop = stop
  event = event
  Messages = {prompt, stop, event}
  Permissions = {"agent.prompt"}
  Needs <- MCNeeds
  Revocations <- MCRevocations
  MaxQueue = 2
  MaxConnections = 3
  MaxTime = 2
  NoGrant = NoGrant
INVARIANTS
  WaitsOnlyForPeer
  OneQueuePerChannel
PROPERTIES
  RevokedIsSilent
  ImplementsChannel
SYMMETRY PromptSymmetry
CHECK_DEADLOCK FALSE
