SPECIFICATION Spec
CONSTANTS
  t1 = t1
  t2 = t2
  t3 = t3
  p1 = p1
  p2 = p2
  d1 = d1
  d2 = d2
  d3 = d3
  None = None
  Threads = {t1, t2, t3}
  Points = {p1, p2}
  AnyPort = {}
  Detectors = {d1, d2, d3}
  MaxTrafficPoints = 0
  MaxBacklog = 1
SYMMETRY Symmetry
INVARIANTS TypeOK CounterExact NoUseAfterDestroy FeedsItsOwn OnlyDestroyDeadlocks
PROPERTY ImplementsRegistry
CHECK_DEADLOCK FALSE
