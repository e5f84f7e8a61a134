SPECIFICATION DrainSpec
CONSTANTS
  t1 = t1
  t2 = t2
  p1 = p1
  p2 = p2
  p3 = p3
  d1 = d1
  d2 = d2
  d3 = d3
  None = None
  Threads = {t1, t2}
  Points = {p1, p2, p3}
  AnyPort = {p1}
  Detectors = {d1, d2, d3}
  MaxTrafficPoints = 0
  MaxBacklog = 0
INVARIANTS CounterExact PointsBounded
PROPERTY EveryRequestAnswered
