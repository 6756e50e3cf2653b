SPECIFICATION Spec
CONSTANTS
  c1 = c1
  c2 = c2
  c3 = c3
  c4 = c4
  Home = Home
  Calls = {c1, c2, c3, c4}
  Ttl <- mcTtl
  Scenarios <- mcScenarios
  MaxTime = 2
  LoginMax = 2
  OtpMax = 2
  NoRow = NoRow
INVARIANT RevokedDeviceIsOut
CHECK_DEADLOCK FALSE
