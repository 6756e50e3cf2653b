SPECIFICATION Spec
CONSTANTS
  u1 = u1
  u2 = u2
  p1 = p1
  p2 = p2
  c1 = c1
  c2 = c2
  n1 = n1
  n2 = n2
  l1 = l1
  l2 = l2
  l3 = l3
  Users = {u1, u2}
  Processes = {p1, p2}
  Campaigns = {c1, c2}
  Notices = {n1, n2}
  Addressee = u1
  Letters = {l1, l2, l3}
  Tests = {l2, l3}
  RequestIds = {1, 2}
  Scenarios <- MCScenarios
  MaxChanges = 1
  MaxRestarts = 1
SYMMETRY Symmetry
CHECK_DEADLOCK FALSE
INVARIANT MailedOnce
INVARIANT SentCoversList
