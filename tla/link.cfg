SPECIFICATION LinkSpec
CONSTANTS
  r1 = r1
  Window = 2
  Gapes = {0, 2}
  MaxRequests = 3
  MaxRepeats = 1
  Readers = {r1}
  EvaluatePeriod = 1
  CurrentPeriod = 2
  PacketsByPeriod = 2
  MaxTime = 1
  MaxPeriod = 1
INVARIANTS LinkTypeOK SenderOutlivedByMembers RoundsAreWhole OnlyTheFirstPeriodCounts OnlyArrivalsCount OverrunTakesMoreThanAWindow
PROPERTIES ClientTerminates UnstoppedClientFails
CHECK_DEADLOCK FALSE
