SPECIFICATION Spec
CONSTANTS
  Clients = {c1, c2}
  GrantKeys = {"monthly", "topup"}
  AdjustKeys = {"adjust"}
  RolloverKeys = {"renewal"}
  ReserveKeys = {"r1", "r2"}
  SettleKeys = {"s1", "s2"}
  Requests <- MCRequests
  Rollovers <- MCRollovers
  MaxTime = 3
  NoRequest = NoRequest
  NoReservation = NoReservation
INVARIANTS
  HeldByOpenReservations
  BucketsBackWallet
  SettledOnce
  LedgerCoversWallet
PROPERTIES
  SoonestUnexpiredFirst
  ImplementsAccount
SYMMETRY ConnectionSymmetry
CHECK_DEADLOCK FALSE
