SPECIFICATION Spec
CONSTANTS
  t1 = t1
  t2 = t2
  NoTask = NoTask
  Tasks = {t1, t2}
  Scenarios <- MCScenarios
  MaxStops = 1
CHECK_DEADLOCK FALSE
INVARIANT StopWins
INVARIANT EndedIsGone
INVARIANT UsageIsOwn
PROPERTY StopEnds
