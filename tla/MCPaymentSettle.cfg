SPECIFICATION PaymentSpec
CONSTANTS
  r1 = r1
  r2 = r2
  s1 = s1
  s2 = s2
  h1 = h1
  h2 = h2
  Handlers = {h1, h2}
  OrgReserveKeys = {r1, r2}
  OrgSettleKeys = {s1, s2}
  OrgBucketKeys <- mcBucketKeys
  Scenarios <- mcScenarios
  MaxTime = 3
  Legacy = 1
  Monthly = 2
  TopUpPeriods = 2
  NoOrgReservation = NoOrgReservation
  NoEvent = NoEvent
  Nobody = Nobody
CHECK_DEADLOCK FALSE
INVARIANT SettlementsAreExact
