SPECIFICATION LinkSpec
CONSTANTS
  r1 = r1
  Window = 2
  Gapes = {1}
  MaxRequests = 3
  MaxRepeats = 0
  Readers = {r1}
  EvaluatePeriod = 1
  CurrentPeriod = 2
  PacketsByPeriod = 2
  MaxTime = 1
  MaxPeriod = 1
INVARIANT WindowHolds
CHECK_DEADLOCK FALSE
