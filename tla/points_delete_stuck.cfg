SPECIFICATION FairSpec
CONSTANTS
  t1 = t1
  t2 = t2
  p1 = p1
  d1 = d1
  d2 = d2
  None = None
  Threads = {t1, t2}
  Points = {p1}
  AnyPort = {}
  Detectors = {d1, d2}
  MaxTrafficPoints = 1
  MaxBacklog = 1
PROPERTY RemoveIsAnswered
CHECK_DEADLOCK FALSE
